------------------------- MODULE RoutineFiringProofs --------------------------
(***************************************************************************)
(* What holds of the firings of a routine for every number of sweeps,      *)
(* occurrences and attempts and every choice of the durations: the types,  *)
(* that the reaper never closes a run whose turn is still going, that an   *)
(* occurrence fired twice has a cause, and that a tired routine is off.    *)
(***************************************************************************)
EXTENDS RoutineFiring, SequenceTheorems, FiniteSetTheorems, TLAPS

USE NobodyAssumption, AttemptsAssumption, LeaseAssumption, WindowAssumption,
    FiringAssumption, TimeAssumption

-----------------------------------------------------------------------------
(* The statements of server/src/work/queue.ts take tables to tables.       *)
LEMMA RowFields ==
  ASSUME NEW r \in Row
  PROVE  /\ r.st \in {"absent", "open", "done"} /\ r.wait \in Int
         /\ r.owner \in Owners \union {Nobody} /\ r.lease \in 0..Lease
         /\ r.attempts \in 0..MaxAttempts /\ r.age \in Nat
  BY DEF Row

LEMMA NoRowIsARow == NoRow \in Row
  BY DEF NoRow, Row

LEMMA OfferedTable ==
  ASSUME NEW t \in Table, NEW k \in Keys
  PROVE  Offered(t, k, 0) \in Table
  BY DEF Offered, Open, Table, Row

LEMMA ClaimedTable ==
  ASSUME NEW t \in Table, NEW S \in SUBSET Due(t), NEW o \in Owners
  PROVE  Claimed(t, S, o) \in Table
  BY DEF Claimed, Due, Open, Table, Row

LEMMA OwnRowTable ==
  ASSUME NEW t \in Table, NEW k \in Keys, NEW o \in Owners
  PROVE  Renewed(t, k, o) \in Table /\ Finished(t, k, o) \in Table /\ Released(t, k, o) \in Table
  BY DEF Renewed, Finished, Released, Open, Table, Row

LEMMA AgedTable ==
  ASSUME NEW t \in Table
  PROVE  Elapsed(t) \in Table /\ Purged(t) \in Table
  BY DEF Elapsed, Older, Purged, NoRow, Horizon, Table, Row

LEMMA BatchesAreDue ==
  ASSUME NEW t, NEW n, NEW S \in Batches(t, n)
  PROVE  S \in SUBSET Due(t)
  BY DEF Batches

-----------------------------------------------------------------------------
(* The rows of routine_runs: what each statement leaves of their sequence. *)

LEMMA RunsAreRows ==
  ASSUME NEW rs \in Seq(RunType)
  PROVE  /\ Len(rs) \in Nat /\ DOMAIN rs = 1..Len(rs)
         /\ \A r \in DOMAIN rs : rs[r] \in RunType
  OBVIOUS

LEMMA RunFields ==
  ASSUME NEW run \in RunType
  PROVE  /\ run.key \in Keys /\ run.age \in 0..Abandoned
         /\ run.st \in {"open", "succeeded", "failed", "skipped", "gone"}
         /\ run.reached \in {"nobody", "server", "bot"}
  BY DEF RunType

LEMMA RowIsARow ==
  ASSUME NEW k \in Keys, NEW st \in {"open", "succeeded", "failed", "skipped", "gone"},
         NEW age \in 0..Abandoned, NEW reached \in {"nobody", "server", "bot"}
  PROVE  /\ RunRow(k, st, age, reached) \in RunType
         /\ RunRow(k, st, age, reached).st = st /\ RunRow(k, st, age, reached).age = age
         /\ RunRow(k, st, age, reached).reached = reached
  BY DEF RunRow, RunType

\* A closed row is a row.
LEMMA ClosedRow ==
  ASSUME NEW run \in RunType, NEW st \in {"succeeded", "failed", "skipped", "gone"}
  PROVE  /\ Shut(run, st) \in RunType
         /\ Shut(run, st).st = st /\ Shut(run, st).age = 0
         /\ Shut(run, st).reached = run.reached
<1>1. /\ run.key \in Keys /\ run.reached \in {"nobody", "server", "bot"} /\ 0 \in 0..Abandoned
      /\ st \in {"open", "succeeded", "failed", "skipped", "gone"}
  BY RunFields
<1>2. QED
  BY <1>1 DEF Shut, RunRow, RunType

\* A sequence rewritten row by row.
LEMMA RowByRow ==
  ASSUME NEW rs \in Seq(RunType), NEW new, DOMAIN new = DOMAIN rs,
         new = [r \in DOMAIN rs |-> new[r]],
         \A r \in DOMAIN rs : new[r] \in RunType
  PROVE  new \in Seq(RunType)
<1>1. new \in [1..Len(rs) -> RunType]
  BY RunsAreRows
<1>2. QED
  BY <1>1, RunsAreRows, SeqDef

\* Closing a run touches that run alone, and only while it is open.
LEMMA ClosedRuns ==
  ASSUME NEW rs \in Seq(RunType), NEW r \in DOMAIN rs,
         NEW st \in {"succeeded", "failed", "skipped"}
  PROVE  /\ Closed(rs, r, st) \in Seq(RunType)
         /\ DOMAIN Closed(rs, r, st) = DOMAIN rs
         /\ \A q \in DOMAIN rs \ {r} : Closed(rs, r, st)[q] = rs[q]
         /\ \A q \in DOMAIN rs : Closed(rs, r, st)[q].reached = rs[q].reached
<1> DEFINE new == Closed(rs, r, st)
<1>1. rs[r] \in RunType /\ Shut(rs[r], st) \in RunType
  BY RunsAreRows, ClosedRow
<1>2. CASE rs[r].st # "open"
  BY <1>2 DEF Closed
<1>3. CASE rs[r].st = "open"
  <2>1. new = [rs EXCEPT ![r] = Shut(rs[r], st)]
    BY <1>3 DEF Closed
  <2>2. /\ DOMAIN new = DOMAIN rs /\ new = [q \in DOMAIN rs |-> new[q]]
        /\ \A q \in DOMAIN rs \ {r} : new[q] = rs[q]
        /\ new[r] = Shut(rs[r], st)
    BY <2>1, RunsAreRows
  <2>3. new[r].reached = rs[r].reached
    BY <2>2, <1>1, ClosedRow
  <2>4. \A q \in DOMAIN rs : new[q] \in RunType
    BY <2>2, <1>1, RunsAreRows
  <2>5. new \in Seq(RunType)
    <3> HIDE DEF new
    <3>1. QED
      BY <2>2, <2>4, RowByRow
  <2>6. QED
    BY <2>2, <2>3, <2>5
<1>4. QED
  BY <1>2, <1>3

\* The reaper touches only runs as old as its window.
LEMMA ReapedRuns ==
  ASSUME NEW rs \in Seq(RunType)
  PROVE  /\ Reaped(rs) \in Seq(RunType)
         /\ DOMAIN Reaped(rs) = DOMAIN rs
         /\ \A r \in DOMAIN rs : /\ rs[r].age < Abandoned => Reaped(rs)[r] = rs[r]
                                 /\ Reaped(rs)[r].reached = rs[r].reached
<1> DEFINE new == Reaped(rs)
<1>1. /\ DOMAIN new = DOMAIN rs
      /\ \A r \in DOMAIN rs :
           new[r] = IF IsAbandoned(rs[r]) THEN Shut(rs[r], "skipped") ELSE rs[r]
      /\ new = [r \in DOMAIN rs |-> new[r]]
  BY DEF Reaped
<1> HIDE DEF new
<1>2. ASSUME NEW r \in DOMAIN rs
      PROVE  /\ new[r] \in RunType /\ new[r].reached = rs[r].reached
             /\ rs[r].age < Abandoned => new[r] = rs[r]
  <2>1. rs[r] \in RunType
    BY RunsAreRows
  <2>2. CASE IsAbandoned(rs[r])
    <3>1. ~(rs[r].age < Abandoned)
      BY <2>1, <2>2, RunFields DEF IsAbandoned
    <3>2. new[r] = Shut(rs[r], "skipped")
      BY <1>1, <2>2
    <3>3. QED
      BY <2>1, <3>1, <3>2, ClosedRow
  <2>3. CASE ~IsAbandoned(rs[r])
    BY <1>1, <2>1, <2>3
  <2>4. QED
    BY <2>2, <2>3
<1>3. new \in Seq(RunType)
  BY <1>1, <1>2, RowByRow
<1>4. QED
  BY <1>1, <1>2, <1>3 DEF new

\* A new run is the last, and open.
LEMMA OpenedRuns ==
  ASSUME runs \in Seq(RunType), NEW k \in Keys
  PROVE  /\ Opened(k) \in Seq(RunType)
         /\ DOMAIN Opened(k) = DOMAIN runs \union {Len(runs) + 1}
         /\ Len(runs) + 1 \notin DOMAIN runs /\ Len(runs) + 1 \in Nat
         /\ \A r \in DOMAIN runs : Opened(k)[r] = runs[r]
         /\ LET new == Opened(k)[Len(runs) + 1]
            IN new.st = "open" /\ new.age = 0 /\ new.reached = "nobody"
<1>1. /\ RunRow(k, "open", 0, "nobody") \in RunType
      /\ RunRow(k, "open", 0, "nobody").st = "open" /\ RunRow(k, "open", 0, "nobody").age = 0
      /\ RunRow(k, "open", 0, "nobody").reached = "nobody"
  BY RowIsARow
<1>2. QED
  BY <1>1, RunsAreRows DEF Opened

-----------------------------------------------------------------------------
(* The runs, the posts and the turns, and what the properties ask of them. *)
Sheet ==
  /\ runs \in Seq(RunType)
  /\ posts \subseteq DOMAIN runs
  /\ turns \subseteq Turn /\ \A t \in turns : t.run \in DOMAIN runs
  /\ YoungEnough /\ LiveRunIsOpen

LEMMA TurnFields ==
  ASSUME NEW t \in Turn
  PROVE  /\ t.run \in Nat /\ t.age \in 0..MaxTurn
         /\ t.at \in {"start", "running", "replied", "failed", "counting", "tired"}
  BY DEF Turn

\* A turn that moves on is the same turn, of the same age.
LEMMA MovedTurn ==
  ASSUME NEW t \in Turn,
         NEW stage \in {"start", "running", "replied", "failed", "counting", "tired"}
  PROVE  LET u == [t EXCEPT !.at = stage]
         IN u \in Turn /\ u.run = t.run /\ u.age = t.age /\ u.at = stage
  BY DEF Turn

LEMMA NoneMoved ==
  ASSUME Sheet, UNCHANGED <<runs, turns>>, posts' \subseteq posts
  PROVE  Sheet'
  BY DEF Sheet, YoungEnough, LiveRunIsOpen, Live

\* A turn ends, or goes on to a stage it must be live for only if it was.
LEMMA TurnMoved ==
  ASSUME Sheet, NEW t \in turns, UNCHANGED <<runs, posts>>,
         NEW stage \in {"start", "running", "replied", "failed", "counting", "tired"},
         Ends(t) \/ (Becomes(t, stage) /\ (Live(t) \/ stage = "tired"))
  PROVE  Sheet'
<1> DEFINE u == [t EXCEPT !.at = stage]
<1>1. t \in Turn /\ u \in Turn /\ u.run = t.run /\ u.age = t.age /\ u.at = stage
  BY MovedTurn DEF Sheet
<1>2. CASE Ends(t)
  <2>1. turns' \subseteq turns
    BY <1>2 DEF Ends
  <2>2. QED
    BY <2>1 DEF Sheet, YoungEnough, LiveRunIsOpen, Live
<1>3. CASE Becomes(t, stage) /\ (Live(t) \/ stage = "tired")
  <2>1. turns' = (turns \ {t}) \union {u}
    BY <1>3 DEF Becomes
  <2> HIDE DEF u
  <2>2. turns' \subseteq Turn /\ \A s \in turns' : s.run \in DOMAIN runs
    BY <1>1, <2>1 DEF Sheet
  <2>3. Live(u) => Live(t)
    BY <1>1, <1>3 DEF Live
  <2>4. /\ runs[t.run].reached # "nobody"
        /\ Live(u) => /\ runs[t.run].age <= MaxDispatch + t.age
                      /\ runs[t.run].st \in {"open", "gone"}
    BY <2>3 DEF Sheet, YoungEnough, LiveRunIsOpen
  <2>5. \A s \in turns \ {t} : s.run # u.run
    BY <1>1 DEF Sheet, YoungEnough
  <2>6. YoungEnough'
    BY <1>1, <2>1, <2>4, <2>5 DEF Sheet, YoungEnough, Live
  <2>7. LiveRunIsOpen'
    BY <1>1, <2>1, <2>4 DEF Sheet, LiveRunIsOpen, Live
  <2>8. QED
    BY <2>2, <2>6, <2>7 DEF Sheet
<1>4. QED
  BY <1>2, <1>3

\* A turn closes its run, and is over or live no longer.
LEMMA TurnClosed ==
  ASSUME Sheet, NEW t \in turns, UNCHANGED posts,
         NEW st \in {"succeeded", "failed", "skipped"}, runs' = Closed(runs, t.run, st),
         Ends(t) \/ Becomes(t, "counting")
  PROVE  Sheet'
<1> DEFINE u == [t EXCEPT !.at = "counting"]
<1>1. t \in Turn /\ u \in Turn /\ u.run = t.run /\ u.age = t.age /\ ~Live(u)
  BY MovedTurn DEF Sheet, Live
<1>2. /\ runs' \in Seq(RunType) /\ DOMAIN runs' = DOMAIN runs
      /\ \A q \in DOMAIN runs \ {t.run} : runs'[q] = runs[q]
      /\ \A q \in DOMAIN runs : runs'[q].reached = runs[q].reached
  <2>1. runs \in Seq(RunType) /\ t.run \in DOMAIN runs
    BY DEF Sheet
  <2>2. Closed(runs, t.run, st) \in Seq(RunType)
    BY <2>1, ClosedRuns, ZenonT(30)
  <2>4. DOMAIN Closed(runs, t.run, st) = DOMAIN runs
    BY <2>1, ClosedRuns, ZenonT(30)
  <2>5. \A q \in DOMAIN runs \ {t.run} : Closed(runs, t.run, st)[q] = runs[q]
    BY <2>1, ClosedRuns, ZenonT(30)
  <2>6. \A q \in DOMAIN runs : Closed(runs, t.run, st)[q].reached = runs[q].reached
    BY <2>1, ClosedRuns, ZenonT(30)
  <2>7. QED
    BY <2>2, <2>4, <2>5, <2>6
<1>3. \A s \in turns' : s \in turns \ {t} \/ s = u
  BY DEF Ends, Becomes
<1> HIDE DEF u
<1>4. \A r \in posts : r # t.run
  BY DEF Sheet, YoungEnough
<1>5. \A s \in turns \ {t} : s.run # t.run
  BY DEF Sheet, YoungEnough
<1>6. turns' \subseteq Turn /\ \A s \in turns' : s.run \in DOMAIN runs'
  BY <1>1, <1>2, <1>3 DEF Sheet
<1>7. YoungEnough'
  <2>1. \A r \in posts' : /\ runs'[r].age <= MaxDispatch /\ runs'[r].reached = "nobody"
                          /\ runs'[r].st \in {"open", "gone"}
    BY <1>2, <1>4 DEF Sheet, YoungEnough
  <2>2. \A s \in turns \ {t} : /\ runs'[s.run].reached # "nobody"
                               /\ Live(s) => runs'[s.run].age <= MaxDispatch + s.age
    BY <1>2, <1>5 DEF Sheet, YoungEnough
  <2>3. runs'[u.run].reached # "nobody"
    BY <1>1, <1>2 DEF Sheet, YoungEnough
  <2>4. \A r, s \in turns' : r.run = s.run => r = s
    BY <1>1, <1>3, <1>5 DEF Sheet, YoungEnough
  <2>5. QED
    BY <1>1, <1>3, <2>1, <2>2, <2>3, <2>4 DEF YoungEnough, Live
<1>8. LiveRunIsOpen'
  BY <1>1, <1>2, <1>3, <1>5 DEF Sheet, LiveRunIsOpen, Live
<1>9. QED
  BY <1>2, <1>6, <1>7, <1>8 DEF Sheet

\* The reaper passes every run by that a post or a live turn is about.
LEMMA ReapedSheet ==
  ASSUME Sheet, UNCHANGED <<posts, turns>>, runs' = Reaped(runs)
  PROVE  Sheet'
<1>1. /\ runs' \in Seq(RunType) /\ DOMAIN runs' = DOMAIN runs
      /\ \A r \in DOMAIN runs : /\ runs[r].age < Abandoned => runs'[r] = runs[r]
                                /\ runs'[r].reached = runs[r].reached
  BY ReapedRuns DEF Sheet
<1>2. \A r \in posts : runs'[r] = runs[r]
  <2>1. TAKE r \in posts
  <2>2. runs[r].age \in 0..Abandoned
    BY RunsAreRows, RunFields DEF Sheet
  <2>3. runs[r].age < Abandoned
    BY <2>2 DEF Sheet, YoungEnough
  <2>4. QED
    BY <1>1, <2>3 DEF Sheet
<1>3. \A t \in turns : Live(t) => runs'[t.run] = runs[t.run]
  <2>1. TAKE t \in turns
  <2>2. HAVE Live(t)
  <2>3. t.run \in DOMAIN runs /\ runs[t.run].age \in 0..Abandoned /\ t.age \in 0..MaxTurn
    BY RunsAreRows, RunFields, TurnFields DEF Sheet
  <2>4. runs[t.run].age <= MaxDispatch + t.age
    BY <2>2 DEF Sheet, YoungEnough
  <2>5. runs[t.run].age < Abandoned
    BY <2>3, <2>4
  <2>6. QED
    BY <1>1, <2>3, <2>5
<1>4. YoungEnough'
  BY <1>1, <1>2, <1>3 DEF Sheet, YoungEnough, Live
<1>5. LiveRunIsOpen'
  BY <1>3 DEF Sheet, LiveRunIsOpen, Live
<1>6. QED
  BY <1>1, <1>4, <1>5 DEF Sheet

\* The runs of a routine that is removed are all gone.
LEMMA RemovedSheet ==
  ASSUME Sheet, Remove
  PROVE  Sheet'
<1>1. /\ DOMAIN runs' = DOMAIN runs
      /\ \A r \in DOMAIN runs : runs'[r] = Shut(runs[r], "gone")
      /\ posts' = posts /\ turns' = turns
  BY DEF Remove
<1>0. runs' = [r \in DOMAIN runs |-> runs'[r]]
  BY DEF Remove
<1>2. \A r \in DOMAIN runs : runs[r] \in RunType
  BY RunsAreRows DEF Sheet
<1>3. \A r \in DOMAIN runs :
        /\ runs'[r] \in RunType /\ runs'[r].st = "gone" /\ runs'[r].age = 0
        /\ runs'[r].reached = runs[r].reached
  BY <1>1, <1>2, ClosedRow
<1>4. runs' \in Seq(RunType)
  BY <1>0, <1>1, <1>3, RowByRow DEF Sheet
<1>5. \A t \in turns : 0 <= MaxDispatch + t.age
  BY TurnFields DEF Sheet
<1>6. YoungEnough'
  <2>1. \A r \in posts' : /\ runs'[r].age <= MaxDispatch /\ runs'[r].reached = "nobody"
                          /\ runs'[r].st \in {"open", "gone"}
    BY <1>1, <1>3 DEF Sheet, YoungEnough
  <2>2. \A t \in turns' : /\ runs'[t.run].reached # "nobody"
                          /\ runs'[t.run].age <= MaxDispatch + t.age
    BY <1>1, <1>3, <1>5 DEF Sheet, YoungEnough
  <2>3. QED
    BY <1>1, <2>1, <2>2 DEF Sheet, YoungEnough, Live
<1>7. LiveRunIsOpen'
  BY <1>1, <1>3 DEF Sheet, LiveRunIsOpen
<1>8. QED
  BY <1>1, <1>4, <1>6, <1>7 DEF Sheet

\* A new run is nobody's but its post's.
LEMMA OpenedSheet ==
  ASSUME Sheet, NEW k \in Keys, runs' = Opened(k), UNCHANGED turns,
         posts' = posts \/ posts' = posts \union {Len(runs) + 1}
  PROVE  Sheet'
<1> DEFINE n == Len(runs) + 1
<1>1. runs \in Seq(RunType)
  BY DEF Sheet
<1>2. /\ runs' \in Seq(RunType) /\ DOMAIN runs' = DOMAIN runs \union {n} /\ n \notin DOMAIN runs
      /\ \A r \in DOMAIN runs : runs'[r] = runs[r]
      /\ runs'[n].st = "open" /\ runs'[n].age = 0 /\ runs'[n].reached = "nobody"
  BY <1>1, OpenedRuns
<1>3. posts' \subseteq posts \union {n}
  OBVIOUS
<1> HIDE DEF n
<1>4. YoungEnough'
  BY <1>2, <1>3 DEF Sheet, YoungEnough, Live
<1>5. LiveRunIsOpen'
  BY <1>2 DEF Sheet, LiveRunIsOpen, Live
<1>6. QED
  BY <1>2, <1>3, <1>4, <1>5 DEF Sheet

\* What one firing has reached is a matter of its own row.
LEMMA ReachedRuns ==
  ASSUME NEW rs \in Seq(RunType), NEW r \in DOMAIN rs, NEW where \in {"server", "bot"}
  PROVE  LET new == [rs EXCEPT ![r].reached = where]
         IN /\ new \in Seq(RunType) /\ DOMAIN new = DOMAIN rs
            /\ \A q \in DOMAIN rs \ {r} : new[q] = rs[q]
            /\ new[r].st = rs[r].st /\ new[r].age = rs[r].age /\ new[r].reached = where
<1> DEFINE row == [rs[r] EXCEPT !.reached = where]
           new == [rs EXCEPT ![r].reached = where]
<1>1. rs[r] \in RunType
  BY RunsAreRows
<1>2. row \in RunType /\ row.st = rs[r].st /\ row.age = rs[r].age /\ row.reached = where
  BY <1>1 DEF RunType
<1>3. new = [rs EXCEPT ![r] = row]
  OBVIOUS
<1> HIDE DEF row
<1>4. /\ DOMAIN new = DOMAIN rs /\ new = [q \in DOMAIN rs |-> new[q]]
      /\ \A q \in DOMAIN rs \ {r} : new[q] = rs[q]
      /\ new[r] = row
  BY <1>3, RunsAreRows
<1> HIDE DEF new
<1>5. new \in Seq(RunType)
  BY <1>2, <1>4, RunsAreRows, RowByRow
<1>6. QED
  BY <1>2, <1>4, <1>5 DEF new

\* A run taken on leaves the posts, and no turn is about it yet.
LEMMA AcceptedSheet ==
  ASSUME Sheet, NEW r \in posts, Accept(r)
  PROVE  Sheet'
<1> DEFINE u == [run |-> r, at |-> "start", age |-> 0]
           new == [runs EXCEPT ![r].reached = "server"]
<1>1. r \in DOMAIN runs /\ runs \in Seq(RunType) /\ DOMAIN runs \subseteq Nat
  BY RunsAreRows DEF Sheet
<1>2. u \in Turn /\ u.run = r /\ u.age = 0
  BY <1>1 DEF Turn
<1>3. /\ new \in Seq(RunType) /\ DOMAIN new = DOMAIN runs
      /\ \A q \in DOMAIN runs \ {r} : new[q] = runs[q]
      /\ new[r].st = runs[r].st /\ new[r].age = runs[r].age /\ new[r].reached = "server"
  BY <1>1, ReachedRuns
<1>4. posts' = posts \ {r} /\ turns' = turns \union {u} /\ runs' = new
  BY DEF Accept
<1> HIDE DEF u, new
<1>5. \A t \in turns : t.run # r
  BY DEF Sheet, YoungEnough
<1>6. runs[r].age <= MaxDispatch + u.age /\ runs[r].st \in {"open", "gone"}
  <2>1. runs[r].age <= MaxDispatch /\ runs[r].st \in {"open", "gone"}
    BY DEF Sheet, YoungEnough
  <2>2. QED
    BY <1>2, <2>1
<1>7. YoungEnough'
  BY <1>1, <1>2, <1>3, <1>4, <1>5, <1>6 DEF Sheet, YoungEnough, Live
<1>8. LiveRunIsOpen'
  BY <1>1, <1>2, <1>3, <1>4, <1>5, <1>6 DEF Sheet, LiveRunIsOpen, Live
<1>9. QED
  BY <1>1, <1>2, <1>3, <1>4, <1>7, <1>8 DEF Sheet

\* A turn gets going: its run is as old and as open as it was.
LEMMA StartedSheet ==
  ASSUME Sheet, NEW t \in turns, Live(t), UNCHANGED posts, Becomes(t, "running"),
         runs' = [runs EXCEPT ![t.run].reached = "bot"]
  PROVE  Sheet'
<1> DEFINE u == [t EXCEPT !.at = "running"]
           new == [runs EXCEPT ![t.run].reached = "bot"]
<1>1. t \in Turn /\ u \in Turn /\ u.run = t.run /\ u.age = t.age
  BY MovedTurn DEF Sheet
<1>2. t.run \in DOMAIN runs /\ runs \in Seq(RunType)
  BY DEF Sheet
<1>3. /\ new \in Seq(RunType) /\ DOMAIN new = DOMAIN runs
      /\ \A q \in DOMAIN runs \ {t.run} : new[q] = runs[q]
      /\ new[t.run].st = runs[t.run].st /\ new[t.run].age = runs[t.run].age
      /\ new[t.run].reached = "bot"
  BY <1>2, ReachedRuns
<1>4. turns' = (turns \ {t}) \union {u} /\ runs' = new
  BY DEF Becomes
<1> HIDE DEF u, new
<1>5. /\ \A r \in posts : r # t.run
      /\ \A s \in turns \ {t} : s.run # t.run
  BY DEF Sheet, YoungEnough
<1>6. runs[t.run].age <= MaxDispatch + t.age /\ runs[t.run].st \in {"open", "gone"}
  BY DEF Sheet, YoungEnough, LiveRunIsOpen
<1>7. YoungEnough'
  <2>1. \A r \in posts' : /\ runs'[r].age <= MaxDispatch /\ runs'[r].reached = "nobody"
                          /\ runs'[r].st \in {"open", "gone"}
    BY <1>3, <1>4, <1>5 DEF Sheet, YoungEnough
  <2>2. \A s \in turns \ {t} : /\ runs'[s.run].reached # "nobody"
                               /\ Live(s) => runs'[s.run].age <= MaxDispatch + s.age
    BY <1>3, <1>4, <1>5 DEF Sheet, YoungEnough
  <2>3. runs'[u.run].reached # "nobody" /\ runs'[u.run].age <= MaxDispatch + u.age
    BY <1>1, <1>3, <1>4, <1>6
  <2>4. \A r, s \in turns' : r.run = s.run => r = s
    BY <1>1, <1>4, <1>5 DEF Sheet, YoungEnough
  <2>5. QED
    BY <1>4, <2>1, <2>2, <2>3, <2>4 DEF YoungEnough, Live
<1>8. LiveRunIsOpen'
  BY <1>1, <1>3, <1>4, <1>5, <1>6 DEF Sheet, LiveRunIsOpen, Live
<1>9. QED
  BY <1>1, <1>3, <1>4, <1>7, <1>8 DEF Sheet

\* The clock moves a run on by no more than it moves its turn on, and stops
\* for a post or a turn that has reached its bound.
LEMMA TickedSheet ==
  ASSUME Sheet, Tick
  PROVE  Sheet'
<1> DEFINE Aged(t) == IF Live(t) THEN [t EXCEPT !.age = @ + 1] ELSE t
<1>1. runs \in Seq(RunType) /\ \A r \in DOMAIN runs : runs[r] \in RunType
  BY RunsAreRows DEF Sheet
<1>2. /\ DOMAIN runs' = DOMAIN runs /\ posts' = posts
      /\ \A r \in DOMAIN runs :
           runs'[r] = IF runs[r].st = "open" /\ runs[r].age < Abandoned
                      THEN RunRow(runs[r].key, "open", runs[r].age + 1, runs[r].reached)
                      ELSE runs[r]
  BY DEF Tick
<1>3. runs' = [r \in DOMAIN runs |-> runs'[r]]
  BY DEF Tick
<1>4. ASSUME NEW r \in DOMAIN runs
      PROVE  /\ runs'[r] \in RunType /\ runs'[r].st = runs[r].st
             /\ runs'[r].reached = runs[r].reached
             /\ runs'[r].age <= runs[r].age + 1
  <2>1. /\ runs[r] \in RunType /\ runs[r].key \in Keys /\ runs[r].age \in 0..Abandoned
        /\ runs[r].reached \in {"nobody", "server", "bot"}
    BY <1>1, RunFields
  <2>2. CASE runs[r].st = "open" /\ runs[r].age < Abandoned
    <3>1. runs[r].age + 1 \in 0..Abandoned
      BY <2>1, <2>2
    <3>2. runs'[r] = RunRow(runs[r].key, "open", runs[r].age + 1, runs[r].reached)
      BY <1>2, <2>2
    <3>3. QED
      BY <2>1, <2>2, <3>1, <3>2 DEF RunRow, RunType
  <2>3. CASE ~(runs[r].st = "open" /\ runs[r].age < Abandoned)
    <3>1. runs'[r] = runs[r]
      BY <1>2, <2>3
    <3>2. QED
      BY <2>1, <3>1
  <2>4. QED
    BY <2>2, <2>3
<1>5. runs' \in Seq(RunType)
  BY <1>1, <1>2, <1>3, <1>4, RowByRow
<1>6. turns' = { Aged(t) : t \in turns }
  BY DEF Tick
<1>7. ASSUME NEW t \in turns
      PROVE  /\ Aged(t) \in Turn /\ Aged(t).run = t.run /\ Aged(t).at = t.at
             /\ Live(t) => Aged(t).age = t.age + 1
  <2>1. t \in Turn /\ t.age \in 0..MaxTurn
    BY TurnFields DEF Sheet
  <2>2. CASE Live(t)
    <3>1. t.age + 1 \in 0..MaxTurn
      BY <2>1, <2>2 DEF Tick
    <3>2. Aged(t) = [t EXCEPT !.age = t.age + 1]
      BY <2>2
    <3>3. QED
      BY <2>1, <3>1, <3>2 DEF Turn
  <2>3. CASE ~Live(t)
    BY <2>1, <2>3
  <2>4. QED
    BY <2>2, <2>3
<1> HIDE DEF Aged
<1>8. turns' \subseteq Turn /\ \A t \in turns' : t.run \in DOMAIN runs'
  BY <1>2, <1>6, <1>7 DEF Sheet
<1>9. YoungEnough'
  <2>1. \A r \in posts : /\ runs'[r].age <= MaxDispatch /\ runs'[r].reached = "nobody"
                         /\ runs'[r].st \in {"open", "gone"}
    <3>1. TAKE r \in posts
    <3>2. r \in DOMAIN runs /\ runs[r].age < MaxDispatch
      BY DEF Sheet, Tick
    <3>3. runs[r].age \in 0..Abandoned /\ runs'[r].age \in 0..Abandoned
      BY <1>1, <1>4, <3>2, RunFields
    <3>4. QED
      BY <1>4, <3>2, <3>3 DEF Sheet, YoungEnough
  <2>2. ASSUME NEW t \in turns
        PROVE  /\ runs'[t.run].reached # "nobody"
               /\ Live(t) => runs'[t.run].age <= MaxDispatch + Aged(t).age
    <3>1. /\ t.run \in DOMAIN runs /\ runs[t.run].reached # "nobody"
          /\ Live(t) => runs[t.run].age <= MaxDispatch + t.age
      BY DEF Sheet, YoungEnough
    <3>2. runs[t.run].age \in 0..Abandoned /\ runs'[t.run].age \in 0..Abandoned
      BY <1>1, <1>4, <3>1, RunFields
    <3>3. t.age \in 0..MaxTurn
      BY TurnFields DEF Sheet
    <3>4. QED
      BY <1>4, <1>7, <3>1, <3>2, <3>3
  <2>3. \A s, t \in turns : Aged(s).run = Aged(t).run => Aged(s) = Aged(t)
    BY <1>7 DEF Sheet, YoungEnough
  <2>4. QED
    BY <1>2, <1>6, <1>7, <2>1, <2>2, <2>3 DEF YoungEnough, Live
<1>10. LiveRunIsOpen'
  BY <1>4, <1>6, <1>7 DEF Sheet, LiveRunIsOpen, Live
<1>11. QED
  BY <1>2, <1>5, <1>8, <1>9, <1>10 DEF Sheet

-----------------------------------------------------------------------------
(* What the sweeps have in hand.                                           *)
Hands ==
  /\ doing \in [Owners -> SUBSET Doing]
  /\ \A o \in Owners : \A d \in doing[o] :
       d.at \in {"posted", "finish"} => d.run \in DOMAIN runs

LEMMA DoingFields ==
  ASSUME NEW d \in Doing
  PROVE  /\ d.key \in Keys /\ d.run \in Nat
         /\ d.at \in {"read", "drop", "dispatch", "posted", "finish", "release"}
  BY DEF Doing

LEMMA AtIsDoing ==
  ASSUME NEW k \in Keys, NEW r \in Nat,
         NEW stage \in {"read", "drop", "dispatch", "posted", "finish", "release"}
  PROVE  /\ At(k, stage, r) \in Doing
         /\ At(k, stage, r).key = k /\ At(k, stage, r).at = stage /\ At(k, stage, r).run = r
  BY DEF At, Doing

LEMMA HeldHands ==
  ASSUME Hands, NEW o \in Owners, NEW d \in Doing, Hold(o, d), DOMAIN runs \subseteq DOMAIN runs',
         d.at \in {"posted", "finish"} => d.run \in DOMAIN runs'
  PROVE  Hands'
  BY DEF Hands, Hold

LEMMA ClearedHands ==
  ASSUME Hands, NEW o \in Owners, Clear(o), UNCHANGED runs
  PROVE  Hands'
  BY DEF Hands, Clear

LEMMA SameHands ==
  ASSUME Hands, UNCHANGED doing, DOMAIN runs \subseteq DOMAIN runs'
  PROVE  Hands'
  BY DEF Hands

\* A firing goes on: to what needs a run only if it has one.
LEMMA GoneOnHands ==
  ASSUME Hands, NEW o \in Owners, NEW d \in doing[o],
         NEW stage \in {"read", "drop", "dispatch", "posted", "finish", "release"},
         Goto(o, d, stage), DOMAIN runs \subseteq DOMAIN runs',
         stage \in {"posted", "finish"} => d.at = "posted"
  PROVE  Hands'
<1>1. d \in Doing /\ (stage \in {"posted", "finish"} => d.run \in DOMAIN runs)
  BY DEF Hands
<1>2. d.key \in Keys /\ d.run \in Nat
  BY <1>1, DoingFields
<1>3. /\ At(d.key, stage, d.run) \in Doing
      /\ At(d.key, stage, d.run).at = stage /\ At(d.key, stage, d.run).run = d.run
  BY <1>2, AtIsDoing
<1>4. QED
  BY <1>1, <1>3, HeldHands DEF Goto

-----------------------------------------------------------------------------
(* The rest of the types: the table, the routine's row and the histories.  *)
Desk ==
  /\ work \in Table /\ late \in [Keys -> 0..Interval]
  /\ standing \in {"on", "off", "gone"}
  /\ reaping \in [Owners -> BOOLEAN] /\ claimed \in [Owners -> SUBSET Keys]
  /\ forgiven \in BOOLEAN /\ untold \in BOOLEAN /\ slipped \subseteq Keys
  /\ mishaps \in 0..MaxMishaps

LEMMA Parts == IInv <=> Desk /\ Hands /\ Sheet
  BY DEF IInv, TypeOK, Desk, Hands, Sheet

LEMMA PartsNext == IInv' <=> Desk' /\ Hands' /\ Sheet'
  BY DEF IInv, TypeOK, Desk, Hands, Sheet

\* A mishap is counted up to its bound; what is sound is not.
LEMMA Mishaps ==
  ASSUME Desk, Mishap \/ Sound
  PROVE  mishaps' \in 0..MaxMishaps
  BY DEF Desk, Mishap, Sound

LEMMA ServedSheet ==
  ASSUME Sheet, NEW t \in turns, Serve(t)
  PROVE  Sheet'
<1>1. CASE Start(t)
  <2>1. Live(t) /\ posts' = posts
    BY <1>1 DEF Start, Live
  <2>2. CASE Ends(t) /\ runs' = runs
    BY <2>1, <2>2, TurnMoved
  <2>3. CASE runs' = Closed(runs, t.run, "skipped") /\ Ends(t)
    BY <2>1, <2>3, TurnClosed
  <2>4. CASE runs' = [runs EXCEPT ![t.run].reached = "bot"] /\ Becomes(t, "running")
    BY <2>1, <2>4, StartedSheet
  <2>5. CASE Becomes(t, "failed") /\ runs' = runs
    BY <2>1, <2>5, TurnMoved
  <2>6. QED
    BY <1>1, <2>2, <2>3, <2>4, <2>5 DEF Start
<1>2. CASE Run(t)
  <2>1. Live(t) /\ UNCHANGED <<runs, posts>> /\ (Becomes(t, "replied") \/ Becomes(t, "failed"))
    BY <1>2 DEF Run, Live
  <2>2. QED
    BY <2>1, TurnMoved
<1>3. CASE Succeed(t)
  <2>1. runs' = Closed(runs, t.run, "succeeded") /\ Ends(t) /\ posts' = posts
    BY <1>3 DEF Succeed
  <2>2. QED
    BY <2>1, TurnClosed
<1>4. CASE RecordFailure(t)
  <2>1. runs' = Closed(runs, t.run, "failed") /\ Becomes(t, "counting") /\ posts' = posts
    BY <1>4 DEF RecordFailure
  <2>2. QED
    BY <2>1, TurnClosed
<1>5. CASE Count(t)
  <2>1. UNCHANGED <<runs, posts>> /\ (Becomes(t, "tired") \/ Ends(t))
    BY <1>5 DEF Count
  <2>2. QED
    BY <2>1, TurnMoved
<1>6. CASE SwitchOff(t)
  <2>1. UNCHANGED <<runs, posts>> /\ Ends(t)
    BY <1>6 DEF SwitchOff
  <2>2. QED
    BY <2>1, TurnMoved
<1>7. QED
  BY <1>1, <1>2, <1>3, <1>4, <1>5, <1>6 DEF Serve

LEMMA SteppedSheet ==
  ASSUME Hands, Sheet, NEW o \in Owners, Step(o)
  PROVE  Sheet'
<1>1. CASE Reap(o)
  <2>1. UNCHANGED <<posts, turns>> /\ (runs' = Reaped(runs) \/ runs' = runs)
    BY <1>1 DEF Reap
  <2>2. QED
    BY <2>1, ReapedSheet, NoneMoved
<1>2. CASE Dispatch(o)
  <2>1. PICK d \in doing[o] :
          \/ runs' = Opened(d.key) /\ posts' = posts \union {Len(runs) + 1}
          \/ runs' = Opened(d.key) /\ posts' = posts
          \/ UNCHANGED <<runs, posts>>
    BY <1>2 DEF Dispatch
  <2>2. d.key \in Keys
    BY DoingFields DEF Hands
  <2>3. turns' = turns
    BY <1>2 DEF Dispatch
  <2>4. QED
    BY <2>1, <2>2, <2>3, OpenedSheet, NoneMoved
<1>3. CASE DispatchFails(o)
  <2>1. UNCHANGED <<runs, turns>> /\ posts' \subseteq posts
    BY <1>3 DEF DispatchFails
  <2>2. QED
    BY <2>1, NoneMoved
<1>4. CASE Begin(o) \/ Read(o) \/ Answered(o) \/ Finish(o) \/ Release(o)
  <2>1. UNCHANGED <<runs, posts, turns>>
    BY <1>4 DEF Begin, Read, Answered, Finish, Release
  <2>2. QED
    BY <2>1, NoneMoved
<1>5. QED
  BY <1>1, <1>2, <1>3, <1>4 DEF Step

LEMMA SheetKept ==
  ASSUME Hands, Sheet, [Next]_vars
  PROVE  Sheet'
<1>1. CASE Remove
  BY <1>1, RemovedSheet
<1>2. ASSUME NEW o \in Owners, Step(o)
      PROVE  Sheet'
  BY <1>2, SteppedSheet
<1>3. ASSUME NEW r \in posts, Accept(r)
      PROVE  Sheet'
  BY <1>3, AcceptedSheet
<1>4. ASSUME NEW r \in posts, Lose(r)
      PROVE  Sheet'
  <2>1. UNCHANGED <<runs, turns>> /\ posts' \subseteq posts
    BY <1>4 DEF Lose
  <2>2. QED
    BY <2>1, NoneMoved
<1>5. ASSUME NEW t \in turns, Serve(t)
      PROVE  Sheet'
  BY <1>5, ServedSheet
<1>6. ASSUME NEW t \in turns, TurnDies(t)
      PROVE  Sheet'
  <2>1. UNCHANGED <<runs, posts>> /\ Ends(t)
    BY <1>6 DEF TurnDies
  <2>2. QED
    BY <2>1, TurnMoved
<1>7. CASE Tick
  BY <1>7, TickedSheet
<1>8. ASSUME UNCHANGED <<runs, posts, turns>>
      PROVE  Sheet'
  BY <1>8, NoneMoved
<1>9. CASE \/ \E k \in Keys : Offer(k)
           \/ \E st \in {"on", "off"} : Switch(st)
           \/ \E o \in Owners : Sweep(o) \/ Crash(o)
           \/ UNCHANGED vars
  <2>1. UNCHANGED <<runs, posts, turns>>
    BY <1>9 DEF Offer, Switch, Sweep, Crash, vars
  <2>2. QED
    BY <1>8, <2>1
<1>10. QED
  BY <1>1, <1>2, <1>3, <1>4, <1>5, <1>6, <1>7, <1>9 DEF Next

\* No run is ever taken out of the sequence.
LEMMA RunsStay ==
  ASSUME Hands, Sheet, [Next]_vars
  PROVE  DOMAIN runs \subseteq DOMAIN runs'
<1>1. CASE Remove
  BY <1>1 DEF Remove
<1>2. ASSUME NEW o \in Owners, Reap(o)
      PROVE  DOMAIN runs \subseteq DOMAIN runs'
  BY <1>2 DEF Reap, Reaped
<1>3. ASSUME NEW o \in Owners, Dispatch(o)
      PROVE  DOMAIN runs \subseteq DOMAIN runs'
  <2>1. PICK d \in doing[o] : runs' = Opened(d.key) \/ runs' = runs
    BY <1>3 DEF Dispatch
  <2>2. d.key \in Keys /\ runs \in Seq(RunType)
    BY DoingFields DEF Hands, Sheet
  <2>3. QED
    BY <2>1, <2>2, OpenedRuns
<1>4. ASSUME NEW t \in turns, Serve(t)
      PROVE  DOMAIN runs \subseteq DOMAIN runs'
  <2>1. \/ runs' = runs
        \/ \E st \in {"succeeded", "failed", "skipped"} : runs' = Closed(runs, t.run, st)
        \/ runs' = [runs EXCEPT ![t.run].reached = "bot"]
    BY <1>4 DEF Serve, Start, Run, Succeed, RecordFailure, Count, SwitchOff
  <2>2. QED
    BY <2>1 DEF Closed
<1>5. ASSUME NEW r \in posts, Accept(r)
      PROVE  DOMAIN runs \subseteq DOMAIN runs'
  BY <1>5 DEF Accept
<1>6. CASE Tick
  BY <1>6 DEF Tick
<1>7. ASSUME NEW o \in Owners,
             Begin(o) \/ Read(o) \/ Answered(o) \/ DispatchFails(o) \/ Finish(o) \/ Release(o)
      PROVE  DOMAIN runs \subseteq DOMAIN runs'
  BY <1>7 DEF Begin, Read, Answered, DispatchFails, Finish, Release
<1>8. CASE \/ \E k \in Keys : Offer(k)
           \/ \E st \in {"on", "off"} : Switch(st)
           \/ \E o \in Owners : Sweep(o) \/ Crash(o)
           \/ \E r \in posts : Lose(r)
           \/ \E t \in turns : TurnDies(t)
           \/ UNCHANGED vars
  BY <1>8 DEF Offer, Switch, Sweep, Crash, Lose, TurnDies, vars
<1>9. QED
  BY <1>1, <1>2, <1>3, <1>4, <1>5, <1>6, <1>7, <1>8 DEF Next, Step

LEMMA HandsKept ==
  ASSUME Desk, Hands, Sheet, [Next]_vars
  PROVE  Hands'
<1> DOMAIN runs \subseteq DOMAIN runs'
  BY RunsStay
<1>1. ASSUME NEW o \in Owners, Begin(o)
      PROVE  Hands'
  <2>1. PICK k \in claimed[o] :
          \/ doing' = doing
          \/ doing' = [doing EXCEPT ![o] = IF Ours(work, k, o) THEN {At(k, "read", 0)} ELSE {}]
    BY <1>1 DEF Begin
  <2>2. k \in Keys
    BY DEF Desk
  <2>3. At(k, "read", 0) \in Doing /\ At(k, "read", 0).at = "read"
    BY <2>2, AtIsDoing
  <2>4. CASE doing' = doing
    BY <2>4, SameHands
  <2>5. CASE doing' = [doing EXCEPT ![o] = {At(k, "read", 0)}]
    BY <2>3, <2>5, HeldHands DEF Hold
  <2>6. CASE doing' = [doing EXCEPT ![o] = {}]
    <3>1. runs' = runs
      BY <1>1 DEF Begin
    <3>2. QED
      BY <2>6, <3>1, ClearedHands DEF Clear
  <2>7. QED
    BY <2>1, <2>4, <2>5, <2>6
<1>2. ASSUME NEW o \in Owners, Read(o)
      PROVE  Hands'
  <2>1. PICK d \in doing[o], stage \in {"dispatch", "drop", "release"} : Goto(o, d, stage)
    BY <1>2 DEF Read
  <2>2. QED
    BY <2>1, GoneOnHands
<1>3. ASSUME NEW o \in Owners, Dispatch(o)
      PROVE  Hands'
  <2>1. PICK d \in doing[o] :
          \/ runs' = Opened(d.key) /\ Hold(o, At(d.key, "posted", Len(runs) + 1))
          \/ Goto(o, d, "release")
    BY <1>3 DEF Dispatch
  <2>2. d.key \in Keys /\ runs \in Seq(RunType)
    BY DoingFields DEF Hands, Sheet
  <2>3. CASE runs' = Opened(d.key) /\ Hold(o, At(d.key, "posted", Len(runs) + 1))
    <3>1. Len(runs) + 1 \in Nat /\ Len(runs) + 1 \in DOMAIN runs'
      BY <2>2, <2>3, OpenedRuns
    <3>2. /\ At(d.key, "posted", Len(runs) + 1) \in Doing
          /\ At(d.key, "posted", Len(runs) + 1).run = Len(runs) + 1
      BY <2>2, <3>1, AtIsDoing
    <3>3. QED
      BY <2>3, <3>1, <3>2, HeldHands
  <2>4. CASE Goto(o, d, "release")
    BY <2>4, GoneOnHands
  <2>5. QED
    BY <2>1, <2>3, <2>4
<1>4. ASSUME NEW o \in Owners, Answered(o) \/ DispatchFails(o)
      PROVE  Hands'
  <2>1. PICK d \in doing[o], stage \in {"finish", "release"} :
          d.at = "posted" /\ Goto(o, d, stage)
    BY <1>4 DEF Answered, DispatchFails
  <2>2. QED
    BY <2>1, GoneOnHands
<1>5. ASSUME NEW o \in Owners, Finish(o) \/ Release(o) \/ Crash(o)
      PROVE  Hands'
  <2>1. runs' = runs /\ (Clear(o) \/ \E d \in doing[o] : Goto(o, d, "release"))
    BY <1>5 DEF Finish, Release, Crash
  <2>2. QED
    BY <2>1, ClearedHands, GoneOnHands
<1>6. CASE doing' = doing
  BY <1>6, SameHands
<1>7. CASE \/ \E k \in Keys : Offer(k)
           \/ \E st \in {"on", "off"} : Switch(st)
           \/ Remove
           \/ \E o \in Owners : Sweep(o) \/ Reap(o)
           \/ \E r \in posts : Accept(r) \/ Lose(r)
           \/ \E t \in turns : Serve(t) \/ TurnDies(t)
           \/ Tick \/ UNCHANGED vars
  <2>1. doing' = doing
    BY <1>7 DEF Offer, Switch, Remove, Sweep, Reap, Accept, Lose, TurnDies, Tick, vars, sweeps,
                Serve, Start, Run, Succeed, RecordFailure, Count, SwitchOff
  <2>2. QED
    BY <1>6, <2>1
<1>8. QED
  BY <1>1, <1>2, <1>3, <1>4, <1>5, <1>7 DEF Next, Step

LEMMA SweepsDesk ==
  ASSUME Desk, Hands, NEW o \in Owners, Sweep(o) \/ Step(o) \/ Crash(o)
  PROVE  Desk'
<1> USE DEF Desk
<1>1. CASE Sweep(o)
  <2>1. PICK S \in Batches(work, Limit) :
          work' = Claimed(work, S, o) /\ claimed' = [claimed EXCEPT ![o] = S]
    BY <1>1 DEF Sweep
  <2>2. S \in SUBSET Due(work) /\ S \subseteq Keys
    BY BatchesAreDue DEF Due
  <2>3. work' \in Table
    BY <2>1, <2>2, ClaimedTable
  <2>4. QED
    BY <1>1, <2>1, <2>2, <2>3 DEF Sweep, history, Sound
<1>2. CASE Reap(o)
  BY <1>2, Mishaps DEF Reap, history
<1>3. CASE Begin(o)
  <2>1. PICK k \in claimed[o] :
          /\ work' \in {work, Renewed(work, k, o)}
          /\ claimed' \in {[claimed EXCEPT ![o] = @ \ {k}], [claimed EXCEPT ![o] = {}]}
    BY <1>3 DEF Begin
  <2>2. work' \in Table
    BY <2>1, OwnRowTable
  <2>3. claimed' \in [Owners -> SUBSET Keys]
    BY <2>1
  <2>4. mishaps' \in 0..MaxMishaps
    BY <1>3, Mishaps DEF Begin
  <2>5. QED
    BY <1>3, <2>2, <2>3, <2>4 DEF Begin, history
<1>4. CASE Read(o)
  BY <1>4, Mishaps DEF Read, history
<1>5. CASE Dispatch(o)
  BY <1>5, Mishaps DEF Dispatch, history
<1>6. CASE Answered(o)
  BY <1>6 DEF Answered, history, Sound
<1>7. ASSUME NEW d \in doing[o]
      PROVE  d.key \in Keys
  BY DoingFields DEF Hands
<1>8. CASE DispatchFails(o)
  BY <1>7, <1>8 DEF DispatchFails, Sound
<1>9. CASE Finish(o)
  <2>1. PICK d \in doing[o] :
          work' \in {work, Finished(work, d.key, o)} /\ slipped' \in {slipped, slipped \union {d.key}}
    BY <1>9 DEF Finish
  <2>2. work' \in Table /\ slipped' \subseteq Keys
    BY <1>7, <2>1, OwnRowTable
  <2>3. mishaps' \in 0..MaxMishaps
    BY <1>9, Mishaps DEF Finish
  <2>4. QED
    BY <1>9, <2>2, <2>3 DEF Finish
<1>10. CASE Release(o)
  <2>1. PICK d \in doing[o] : work' \in {work, Released(work, d.key, o)}
    BY <1>10 DEF Release
  <2>2. work' \in Table
    BY <1>7, <2>1, OwnRowTable
  <2>3. mishaps' \in 0..MaxMishaps
    BY <1>10, Mishaps DEF Release
  <2>4. QED
    BY <1>10, <2>2, <2>3 DEF Release, history
<1>11. CASE Crash(o)
  BY <1>7, <1>11, Mishaps DEF Crash
<1>12. QED
  BY <1>1, <1>2, <1>3, <1>4, <1>5, <1>6, <1>8, <1>9, <1>10, <1>11 DEF Step

LEMMA TickedDesk ==
  ASSUME Desk, Hands, Tick
  PROVE  Desk'
<1> DEFINE later == Elapsed(work)
<1>1. later \in Table
  BY AgedTable DEF Desk
<1>2. \A k \in Keys : [later[k] EXCEPT !.age = 0] \in Row
  BY <1>1 DEF Table, Row
<1>3. work' = [k \in Keys |-> [later[k] EXCEPT !.age = 0]]
  BY DEF Tick
<1> HIDE DEF later
<1>4. work' \in Table
  BY <1>2, <1>3 DEF Table
<1>5. late' \in [Keys -> 0..Interval]
  BY DEF Desk, Tick
<1>6. slipped' \subseteq Keys
  BY DEF Desk, Tick
<1>7. QED
  BY <1>4, <1>5, <1>6 DEF Desk, Tick, sweeps, Sound

LEMMA DeskKept ==
  ASSUME Desk, Hands, [Next]_vars
  PROVE  Desk'
<1>1. ASSUME NEW k \in Keys, Offer(k)
      PROVE  Desk'
  BY <1>1, OfferedTable DEF Desk, Offer, sweeps, history, Sound
<1>2. ASSUME NEW st \in {"on", "off"}, Switch(st)
      PROVE  Desk'
  BY <1>2 DEF Desk, Switch, sweeps, Sound
<1>3. CASE Remove
  BY <1>3 DEF Desk, Remove, sweeps, history, Sound
<1>4. ASSUME NEW o \in Owners, Sweep(o) \/ Step(o) \/ Crash(o)
      PROVE  Desk'
  BY <1>4, SweepsDesk
<1>5. ASSUME NEW r \in posts, Accept(r) \/ Lose(r)
      PROVE  Desk'
  BY <1>5 DEF Desk, Accept, Lose, sweeps, history, Sound
<1>6. ASSUME NEW t \in turns, Serve(t)
      PROVE  Desk'
  BY <1>6 DEF Desk, Serve, Start, Run, Succeed, RecordFailure, Count, SwitchOff, sweeps, history, Sound
<1>7. ASSUME NEW t \in turns, TurnDies(t)
      PROVE  Desk'
  <2>1. mishaps' \in 0..MaxMishaps
    BY <1>7, Mishaps DEF TurnDies
  <2>2. untold' \in BOOLEAN
    BY <1>7 DEF TurnDies
  <2>3. QED
    BY <1>7, <2>1, <2>2 DEF Desk, TurnDies, sweeps
<1>8. CASE Tick
  BY <1>8, TickedDesk
<1>9. CASE UNCHANGED vars
  BY <1>9 DEF Desk, vars, sweeps, history
<1>10. QED
  BY <1>1, <1>2, <1>3, <1>4, <1>5, <1>6, <1>7, <1>8, <1>9 DEF Next

-----------------------------------------------------------------------------
LEMMA InitHolds == Init => IInv
<1> SUFFICES ASSUME Init
             PROVE  IInv
  OBVIOUS
<1>1. Desk
  <2>1. work \in Table
    BY NoRowIsARow DEF Init, EmptyTable, Table
  <2>2. late \in [Keys -> 0..Interval] /\ claimed \in [Owners -> SUBSET Keys]
        /\ mishaps \in 0..MaxMishaps
    BY DEF Init
  <2>3. reaping \in [Owners -> BOOLEAN]
    BY Zenon DEF Init
  <2>4. standing \in {"on", "off", "gone"} /\ slipped \subseteq Keys
    BY DEF Init
  <2>5. forgiven \in BOOLEAN /\ untold \in BOOLEAN
    BY Zenon DEF Init
  <2>6. QED
    BY <2>1, <2>2, <2>3, <2>4, <2>5 DEF Desk
<1>2. Hands
  BY DEF Hands, Init
<1>3. Sheet
  BY DEF Sheet, Init, YoungEnough, LiveRunIsOpen
<1>4. QED
  BY <1>1, <1>2, <1>3, Parts

LEMMA NextHolds == IInv /\ [Next]_vars => IInv'
  BY Parts, PartsNext, DeskKept, HandsKept, SheetKept

(* The invariant of the firings: in every state the types are right, posts *)
(* and turns are as young as their runs are old, and the run of a live     *)
(* turn is open.                                                           *)
THEOREM FiringInvariant == Spec => []IInv
  BY InitHolds, NextHolds, PTL DEF Spec

\* Every variable of the firings keeps its type.
THEOREM TypesHold == Spec => []TypeOK
<1>1. IInv => TypeOK
  BY DEF IInv
<1>2. QED
  BY FiringInvariant, <1>1, PTL

(* The reaper of sweep.ts never closes a run under a turn that is still    *)
(* going in runner.ts: whatever the number of sweeps, servers and retries, *)
(* as long as a dispatch and a turn fit into ABANDONED_RUN_MS together.    *)
THEOREM NoLiveRunIsReaped == Spec => []LiveRunIsOpen
<1>1. IInv => LiveRunIsOpen
  BY DEF IInv
<1>2. QED
  BY FiringInvariant, <1>1, PTL

-----------------------------------------------------------------------------
(* Exactly one firing. What the code relies on is the lease: while a sweep *)
(* has one on the row of the firing in its hand, nobody claims the row; it *)
(* dispatches once and finishes the row, and a finished row stays.         *)

(* A run counts once the server has it, or may still come to have it.      *)
Taken(r) == r \in posts \/ runs[r].reached # "nobody"

(* A sweep has one firing in hand, and its lease on it unless it slipped.  *)
Leased ==
  \A o \in Owners : \A d \in doing[o] :
    /\ \A e \in doing[o] : e = d
    /\ d.key \notin slipped => Ours(work, d.key, o) /\ work[d.key].lease > 0

(* Why the firing of a run is not handed out again: it is finished, or the *)
(* sweep that posted the run still has it in hand.                         *)
Backed(r) ==
  \/ work[runs[r].key].st = "done"
  \/ \E o \in Owners : \E d \in doing[o] :
       d.key = runs[r].key /\ d.run = r /\ d.at \in {"posted", "finish"}

TakenOnce ==
  \A r \in DOMAIN runs : Taken(r) /\ runs[r].key \notin slipped =>
    /\ Backed(r)
    /\ \A q \in DOMAIN runs : Taken(q) /\ runs[q].key = runs[r].key => q = r

Once == Leased /\ TakenOnce

\* Nothing but a dispatch makes a run count, and no run changes its key.
NoneTaken ==
  /\ DOMAIN runs \subseteq DOMAIN runs'
  /\ \A r \in DOMAIN runs : runs'[r].key = runs[r].key
  /\ \A r \in DOMAIN runs' : Taken(r)' => r \in DOMAIN runs /\ Taken(r)

\* What was taken stays taken once, as long as each run stays backed.
LEMMA StillOnce ==
  ASSUME TakenOnce, NoneTaken, slipped \subseteq slipped',
         \A r \in DOMAIN runs : Taken(r) /\ runs[r].key \notin slipped' /\ Backed(r) => Backed(r)'
  PROVE  TakenOnce'
  BY DEF TakenOnce, NoneTaken

LEMMA SameOnce ==
  ASSUME Once, NoneTaken, UNCHANGED <<work, doing>>, slipped \subseteq slipped'
  PROVE  Once'
<1>1. Leased'
  BY DEF Once, Leased
<1>2. \A r \in DOMAIN runs : Backed(r) => Backed(r)'
  BY DEF Backed, NoneTaken
<1>3. QED
  BY <1>1, <1>2, StillOnce DEF Once

LEMMA RunsAlone ==
  ASSUME runs \in Seq(RunType), UNCHANGED runs, posts' \subseteq posts
  PROVE  NoneTaken
  BY DEF NoneTaken, Taken

LEMMA ClosedKey ==
  ASSUME NEW rs \in Seq(RunType), NEW r \in DOMAIN rs, NEW st
  PROVE  \A q \in DOMAIN rs : /\ q \in DOMAIN Closed(rs, r, st)
                              /\ Closed(rs, r, st)[q].key = rs[q].key
                              /\ Closed(rs, r, st)[q].reached = rs[q].reached
<1>1. CASE rs[r].st = "open"
  <2>1. Closed(rs, r, st) = [rs EXCEPT ![r] = Shut(rs[r], st)]
    BY <1>1 DEF Closed
  <2>2. Shut(rs[r], st).key = rs[r].key /\ Shut(rs[r], st).reached = rs[r].reached
    BY DEF Shut, RunRow
  <2>3. QED
    BY <2>1, <2>2
<1>2. CASE rs[r].st # "open"
  BY <1>2 DEF Closed
<1>3. QED
  BY <1>1, <1>2

LEMMA ServedTakesNone ==
  ASSUME Sheet, NEW t \in turns, Serve(t)
  PROVE  NoneTaken
<1>1. t.run \in DOMAIN runs /\ runs[t.run].reached # "nobody" /\ runs \in Seq(RunType)
  BY DEF Sheet, YoungEnough
<1>2. posts' = posts /\ \/ runs' = runs
                        \/ \E st \in {"succeeded", "failed", "skipped"} : runs' = Closed(runs, t.run, st)
                        \/ runs' = [runs EXCEPT ![t.run].reached = "bot"]
  BY DEF Serve, Start, Run, Succeed, RecordFailure, Count, SwitchOff
<1>3. CASE runs' = runs
  BY <1>1, <1>2, <1>3, RunsAlone
<1>4. ASSUME NEW st \in {"succeeded", "failed", "skipped"}, runs' = Closed(runs, t.run, st)
      PROVE  NoneTaken
  <2>1. DOMAIN runs' = DOMAIN runs
    BY <1>1, <1>4, ClosedRuns
  <2>2. \A q \in DOMAIN runs : runs'[q].key = runs[q].key /\ runs'[q].reached = runs[q].reached
    BY <1>1, <1>4, ClosedKey
  <2>3. QED
    BY <1>2, <2>1, <2>2 DEF NoneTaken, Taken
<1>5. CASE runs' = [runs EXCEPT ![t.run].reached = "bot"]
  <2>1. /\ DOMAIN runs' = DOMAIN runs
        /\ \A q \in DOMAIN runs \ {t.run} : runs'[q] = runs[q]
        /\ runs'[t.run] = [runs[t.run] EXCEPT !.reached = "bot"]
    BY <1>1, <1>5
  <2>2. runs'[t.run].key = runs[t.run].key
    BY <1>1, <2>1, RunsAreRows DEF RunType
  <2>3. QED
    BY <1>1, <1>2, <2>1, <2>2 DEF NoneTaken, Taken
<1>6. QED
  BY <1>2, <1>3, <1>4, <1>5

LEMMA AcceptTakesNone ==
  ASSUME Sheet, NEW r \in posts, Accept(r)
  PROVE  NoneTaken
<1>1. /\ r \in DOMAIN runs /\ posts' = posts \ {r} /\ DOMAIN runs' = DOMAIN runs
      /\ \A q \in DOMAIN runs \ {r} : runs'[q] = runs[q]
      /\ runs'[r].key = runs[r].key
  BY DEF Accept, Sheet
<1>2. QED
  BY <1>1 DEF NoneTaken, Taken

LEMMA RewrittenTakesNone ==
  ASSUME runs \in Seq(RunType), Remove \/ Tick \/ runs' = Reaped(runs), UNCHANGED posts
  PROVE  NoneTaken
<1>1. \A run, st : Shut(run, st).key = run.key /\ Shut(run, st).reached = run.reached
  BY DEF Shut, RunRow
<1>2. \A run, age : /\ RunRow(run.key, "open", age, run.reached).key = run.key
                    /\ RunRow(run.key, "open", age, run.reached).reached = run.reached
  BY DEF RunRow
<1>3. /\ DOMAIN runs' = DOMAIN runs
      /\ \A r \in DOMAIN runs : runs'[r].key = runs[r].key /\ runs'[r].reached = runs[r].reached
  <2>1. CASE Remove
    BY <1>1, <2>1 DEF Remove
  <2>2. CASE Tick
    BY <1>2, <2>2 DEF Tick
  <2>3. CASE runs' = Reaped(runs)
    BY <1>1, <2>3 DEF Reaped
  <2>4. QED
    BY <2>1, <2>2, <2>3
<1>4. QED
  BY <1>3 DEF NoneTaken, Taken

-----------------------------------------------------------------------------
\* A row that is not a sweep's own is untouched by what it does to rows.
LEMMA OnlyOnesOwn ==
  ASSUME NEW t \in Table, NEW k \in Keys, NEW o \in Owners, NEW j \in Keys,
         j # k \/ ~Ours(t, k, o),
         NEW new \in {Renewed(t, k, o), Finished(t, k, o), Released(t, k, o)}
  PROVE  new[j] = t[j]
  BY DEF Renewed, Finished, Released, Table

LEMMA RenewedRow ==
  ASSUME NEW t \in Table, NEW k \in Keys, NEW o \in Owners, Ours(t, k, o)
  PROVE  Ours(Renewed(t, k, o), k, o) /\ Renewed(t, k, o)[k].lease > 0
  BY DEF Renewed, Ours, Open, Table

LEMMA FinishedRow ==
  ASSUME NEW t \in Table, NEW k \in Keys, NEW o \in Owners
  PROVE  /\ Ours(t, k, o) => Finished(t, k, o)[k].st = "done"
         /\ \A j \in Keys : t[j].st = "done" => Finished(t, k, o)[j].st = "done"
  BY DEF Finished, Ours, Table

\* Two sweeps that have the same firing in hand have let it slip.
LEMMA OneHolder ==
  ASSUME Leased, NEW o \in Owners, NEW d \in doing[o], NEW p \in Owners, NEW e \in doing[p],
         d.key = e.key, d.key \notin slipped
  PROVE  o = p /\ d = e
<1>1. work[d.key].owner = o /\ work[d.key].owner = p
  BY DEF Leased, Ours
<1>2. QED
  BY <1>1 DEF Leased

\* A sweep puts a firing in hand, or away: what the others hold is theirs.
LEMMA HandMoved ==
  ASSUME Desk, Hands, Sheet, Once, NEW o \in Owners, NoneTaken, slipped \subseteq slipped',
         NEW S, doing' = [doing EXCEPT ![o] = S],
         \A d \in S : /\ \A e \in S : e = d
                      /\ d.key \notin slipped' =>
                           Ours(work', d.key, o) /\ work'[d.key].lease > 0,
         \A p \in Owners \ {o} : \A d \in doing[p] : d.key \notin slipped' =>
           work'[d.key] = work[d.key],
         \A k \in Keys : work[k].st = "done" => work'[k].st = "done",
         \A d \in doing[o] : d.key \notin slipped' /\ d.at \in {"posted", "finish"} =>
           \/ \E e \in S : e.key = d.key /\ e.run = d.run /\ e.at \in {"posted", "finish"}
           \/ work'[d.key].st = "done"
  PROVE  Once'
<1>1. /\ doing'[o] = S
      /\ \A p \in Owners \ {o} : doing'[p] = doing[p]
  BY DEF Hands
<1>2. Leased'
  <2>1. ASSUME NEW p \in Owners, NEW d \in doing'[p]
        PROVE  /\ \A e \in doing'[p] : e = d
               /\ d.key \notin slipped' => Ours(work', d.key, p) /\ work'[d.key].lease > 0
    <3>1. CASE p = o
      BY <1>1, <2>1, <3>1
    <3>2. CASE p # o
      BY <1>1, <2>1, <3>2 DEF Once, Leased, Ours
    <3>3. QED
      BY <3>1, <3>2
  <2>2. QED
    BY <2>1 DEF Leased
<1>3. ASSUME NEW r \in DOMAIN runs, Taken(r), runs[r].key \notin slipped', Backed(r)
      PROVE  Backed(r)'
  <2>1. runs'[r].key = runs[r].key
    BY DEF NoneTaken
  <2>2. CASE work[runs[r].key].st = "done"
    <3>1. runs[r].key \in Keys
      BY RunFields, RunsAreRows DEF Sheet
    <3>2. QED
      BY <2>1, <2>2, <3>1 DEF Backed
  <2>3. ASSUME NEW p \in Owners, NEW d \in doing[p],
               d.key = runs[r].key, d.run = r, d.at \in {"posted", "finish"}
        PROVE  Backed(r)'
    <3>1. CASE p = o
      BY <1>1, <1>3, <2>1, <2>3, <3>1 DEF Backed
    <3>2. CASE p # o
      BY <1>1, <2>1, <2>3, <3>2 DEF Backed
    <3>3. QED
      BY <3>1, <3>2
  <2>4. QED
    BY <1>3, <2>2, <2>3 DEF Backed
<1>4. QED
  BY <1>2, <1>3, StillOnce DEF Once

LEMMA SweepOnce ==
  ASSUME Desk, Hands, Sheet, Once, NEW o \in Owners, Sweep(o)
  PROVE  Once'
<1>1. PICK S \in Batches(work, Limit) : work' = Claimed(work, S, o)
  BY DEF Sweep
<1>2. S \in SUBSET Due(work)
  BY BatchesAreDue
<1>3. UNCHANGED <<runs, posts, doing, slipped>>
  BY DEF Sweep, history
<1>4. NoneTaken
  BY <1>3, RunsAlone DEF Sheet
<1>5. \A k \in Keys : k \notin Due(work) => work'[k] = work[k]
  BY <1>1, <1>2 DEF Claimed
<1>6. Leased'
  <2>1. ASSUME NEW p \in Owners, NEW d \in doing[p], d.key \notin slipped
        PROVE  work'[d.key] = work[d.key]
    <3>1. d.key \in Keys /\ work[d.key] \in Row
      BY DoingFields DEF Hands, Desk, Table
    <3>2. work[d.key].lease > 0 /\ work[d.key].lease \in 0..Lease
      BY <2>1, <3>1, RowFields DEF Once, Leased
    <3>3. QED
      BY <1>5, <3>1, <3>2 DEF Due
  <2>2. QED
    BY <1>3, <2>1 DEF Once, Leased, Ours
<1>7. ASSUME NEW r \in DOMAIN runs, Backed(r)
      PROVE  Backed(r)'
  <2>1. runs[r].key \in Keys
    BY RunFields, RunsAreRows DEF Sheet
  <2>2. work[runs[r].key].st = "done" => work'[runs[r].key].st = "done"
    BY <1>5, <2>1 DEF Due
  <2>3. QED
    BY <1>3, <1>7, <2>2 DEF Backed
<1>8. QED
  BY <1>3, <1>4, <1>6, <1>7, StillOnce DEF Once

\* A firing goes on, without its row: to a post only from one.
LEMMA GoneOnOnce ==
  ASSUME Desk, Hands, Sheet, Once, NEW o \in Owners, NEW d \in doing[o], NEW stage,
         Goto(o, d, stage), UNCHANGED work, NoneTaken, slipped \subseteq slipped',
         \/ d.at \notin {"posted", "finish"}
         \/ stage \in {"posted", "finish"}
         \/ d.key \in slipped'
  PROVE  Once'
<1> DEFINE e == At(d.key, stage, d.run)
<1>1. e.key = d.key /\ e.at = stage /\ e.run = d.run
  BY DEF At
<1>2. doing' = [doing EXCEPT ![o] = {e}]
  BY DEF Goto, Hold
<1> HIDE DEF e
<1>3. \A f \in doing[o] : f = d
  BY DEF Once, Leased
<1>4. d.key \notin slipped' => Ours(work', d.key, o) /\ work'[d.key].lease > 0
  BY DEF Once, Leased, Ours
<1>5. PICK S : S = {e} /\ doing' = [doing EXCEPT ![o] = S]
  BY <1>2
<1>6. \A f \in S : /\ \A g \in S : g = f
                   /\ f.key \notin slipped' =>
                        Ours(work', f.key, o) /\ work'[f.key].lease > 0
  <2>1. TAKE f \in S
  <2>2. f = e /\ \A g \in S : g = e
    BY <1>5
  <2>3. QED
    BY <1>1, <1>4, <2>2
<1>7. \A f \in doing[o] : f.key \notin slipped' /\ f.at \in {"posted", "finish"} =>
        \/ \E g \in S : g.key = f.key /\ g.run = f.run /\ g.at \in {"posted", "finish"}
        \/ work'[f.key].st = "done"
  BY <1>1, <1>3, <1>5
<1>8. \A p \in Owners \ {o} : \A f \in doing[p] : f.key \notin slipped' =>
        work'[f.key] = work[f.key]
  OBVIOUS
<1>9. \A k \in Keys : work[k].st = "done" => work'[k].st = "done"
  OBVIOUS
<1>10. o \in Owners /\ Desk /\ Hands /\ Sheet /\ Once /\ NoneTaken /\ slipped \subseteq slipped'
  OBVIOUS
<1>11. QED
  BY ONLY <1>5, <1>6, <1>7, <1>8, <1>9, <1>10, HandMoved, Zenon

\* A sweep is done with its firing, and with the row if it is still its own.
LEMMA PutAwayOnce ==
  ASSUME Desk, Hands, Sheet, Once, NEW o \in Owners, NEW d \in doing[o],
         NEW S, doing' = [doing EXCEPT ![o] = S], UNCHANGED <<runs, posts>>,
         work' \in {work, Finished(work, d.key, o), Released(work, d.key, o)},
         \A e \in S : e.key \in slipped' /\ \A f \in S : f = e,
         slipped \subseteq slipped',
         \/ d.key \in slipped'
         \/ d.at \notin {"posted", "finish"}
         \/ work' = Finished(work, d.key, o)
  PROVE  Once'
<1>1. d.key \in Keys /\ work \in Table /\ \A f \in doing[o] : f = d
  BY DoingFields DEF Hands, Desk, Once, Leased
<1>2. NoneTaken
  BY RunsAlone DEF Sheet
<1>3. ASSUME NEW p \in Owners \ {o}, NEW f \in doing[p], f.key \notin slipped'
      PROVE  work'[f.key] = work[f.key]
  <2>1. f.key \in Keys /\ work[f.key].owner = p /\ f.key \notin slipped
    BY <1>3, DoingFields DEF Hands, Once, Leased, Ours
  <2>2. f.key # d.key \/ ~Ours(work, d.key, o)
    BY <2>1 DEF Ours
  <2>3. QED
    BY <1>1, <2>1, <2>2, OnlyOnesOwn
<1>4. \A k \in Keys : work[k].st = "done" => work'[k].st = "done"
  <2>1. TAKE k \in Keys
  <2>2. HAVE work[k].st = "done"
  <2>3. k # d.key \/ ~Ours(work, d.key, o)
    BY <2>2 DEF Ours
  <2>4. QED
    BY <1>1, <2>2, <2>3, OnlyOnesOwn
<1>5. d.key \notin slipped' /\ d.at \in {"posted", "finish"} => work'[d.key].st = "done"
  <2>1. HAVE d.key \notin slipped' /\ d.at \in {"posted", "finish"}
  <2>2. Ours(work, d.key, o) /\ work' = Finished(work, d.key, o)
    BY <2>1 DEF Once, Leased
  <2>3. QED
    BY <1>1, <2>2, FinishedRow
<1>6. QED
  BY <1>1, <1>2, <1>3, <1>4, <1>5, HandMoved

LEMMA BeginOnce ==
  ASSUME Desk, Hands, Sheet, Once, NEW o \in Owners, Begin(o)
  PROVE  Once'
<1>1. UNCHANGED <<runs, posts, slipped>> /\ doing[o] = {}
  BY DEF Begin, history
<1>2. PICK k \in claimed[o] :
        /\ work' \in {work, Renewed(work, k, o)}
        /\ \/ /\ work' = Renewed(work, k, o)
              /\ doing' = [doing EXCEPT ![o] = IF Ours(work, k, o) THEN {At(k, "read", 0)} ELSE {}]
           \/ doing' = doing
  BY DEF Begin
<1>3. k \in Keys /\ work \in Table /\ doing = [doing EXCEPT ![o] = {}]
  BY <1>1 DEF Desk, Hands
<1>4. NoneTaken
  BY <1>1, RunsAlone DEF Sheet
<1>5. PICK S : /\ doing' = [doing EXCEPT ![o] = S]
               /\ S = {} \/ (/\ S = {At(k, "read", 0)} /\ Ours(work, k, o)
                            /\ work' = Renewed(work, k, o))
  BY <1>2, <1>3
<1>6. ASSUME NEW p \in Owners \ {o}, NEW f \in doing[p], f.key \notin slipped'
      PROVE  work'[f.key] = work[f.key]
  <2>1. f.key \in Keys /\ work[f.key].owner = p
    BY <1>1, <1>6, DoingFields DEF Hands, Once, Leased, Ours
  <2>2. f.key # k \/ ~Ours(work, k, o)
    BY <2>1 DEF Ours
  <2>3. QED
    BY <1>2, <1>3, <2>1, <2>2, OnlyOnesOwn
<1>7. \A j \in Keys : work[j].st = "done" => work'[j].st = "done"
  <2>1. TAKE j \in Keys
  <2>2. HAVE work[j].st = "done"
  <2>3. j # k \/ ~Ours(work, k, o)
    BY <2>2 DEF Ours
  <2>4. QED
    BY <1>2, <1>3, <2>2, <2>3, OnlyOnesOwn
<1>8. ASSUME NEW e \in S
      PROVE  (\A f \in S : f = e) /\ Ours(work', e.key, o) /\ work'[e.key].lease > 0
  <2>1. S = {At(k, "read", 0)} /\ e.key = k /\ Ours(work, k, o) /\ work' = Renewed(work, k, o)
    BY <1>5, <1>8 DEF At
  <2>2. Ours(work', k, o) /\ work'[k].lease > 0
    BY <1>3, <2>1, RenewedRow
  <2>3. QED
    BY <2>1, <2>2 DEF Ours
<1>9. QED
  BY <1>1, <1>4, <1>5, <1>6, <1>7, <1>8, HandMoved

LEMMA DispatchOnce ==
  ASSUME Desk, Hands, Sheet, Once, NEW o \in Owners, Dispatch(o)
  PROVE  Once'
<1>1. UNCHANGED <<work, slipped>>
  BY DEF Dispatch, history
<1>2. PICK d \in doing[o] :
        /\ d.at = "dispatch"
        /\ \/ /\ runs' = Opened(d.key) /\ posts' = posts \union {Len(runs) + 1}
              /\ Hold(o, At(d.key, "posted", Len(runs) + 1))
           \/ runs' \in {runs, Opened(d.key)} /\ posts' = posts /\ Goto(o, d, "release")
  BY DEF Dispatch
<1>3. d.key \in Keys /\ runs \in Seq(RunType) /\ posts \subseteq DOMAIN runs
      /\ \A f \in doing[o] : f = d
  BY DoingFields DEF Hands, Sheet, Once, Leased
<1> DEFINE n == Len(runs) + 1
<1>4. /\ DOMAIN Opened(d.key) = DOMAIN runs \union {n} /\ n \notin DOMAIN runs
      /\ \A r \in DOMAIN runs : Opened(d.key)[r] = runs[r]
      /\ Opened(d.key)[n].reached = "nobody"
  BY <1>3, OpenedRuns
<1>5. Opened(d.key)[n].key = d.key
  BY <1>3, RunsAreRows DEF Opened, RunRow
<1> HIDE DEF n
<1>6. CASE runs' \in {runs, Opened(d.key)} /\ posts' = posts /\ Goto(o, d, "release")
  <2>1. NoneTaken
    BY <1>3, <1>4, <1>6 DEF NoneTaken, Taken
  <2>2. QED
    BY <1>1, <1>2, <1>6, <2>1, GoneOnOnce
<1>7. CASE /\ runs' = Opened(d.key) /\ posts' = posts \union {n}
           /\ Hold(o, At(d.key, "posted", n))
  <2> DEFINE e == At(d.key, "posted", n)
  <2>1. e.key = d.key /\ e.at = "posted" /\ e.run = n
    BY DEF At
  <2>2. /\ doing'[o] = {e}
        /\ \A p \in Owners \ {o} : doing'[p] = doing[p]
    BY <1>7 DEF Hands, Hold
  <2> HIDE DEF e
  <2>3. Leased'
    <3>1. ASSUME NEW p \in Owners, NEW f \in doing'[p]
          PROVE  /\ \A g \in doing'[p] : g = f
                 /\ f.key \notin slipped' => Ours(work', f.key, p) /\ work'[f.key].lease > 0
      <4>1. CASE p = o
        BY <1>1, <2>1, <2>2, <3>1, <4>1 DEF Once, Leased, Ours
      <4>2. CASE p # o
        BY <1>1, <2>2, <3>1, <4>2 DEF Once, Leased, Ours
      <4>3. QED
        BY <4>1, <4>2
    <3>2. QED
      BY <3>1 DEF Leased
  <2>4. ASSUME d.key \notin slipped, NEW r \in DOMAIN runs, Taken(r), runs[r].key = d.key
        PROVE  FALSE
    <3>1. Backed(r)
      BY <2>4 DEF Once, TakenOnce
    <3>2. work[d.key].st # "done"
      BY <2>4 DEF Once, Leased, Ours
    <3>3. PICK p \in Owners : \E f \in doing[p] : f.key = d.key /\ f.at \in {"posted", "finish"}
      BY <2>4, <3>1, <3>2 DEF Backed
    <3>4. QED
      BY <1>2, <2>4, <3>3, OneHolder DEF Once
  <2>5. ASSUME NEW r \in DOMAIN runs', r # n
        PROVE  r \in DOMAIN runs /\ runs'[r] = runs[r] /\ (Taken(r)' => Taken(r))
    BY <1>3, <1>4, <1>7, <2>5 DEF Taken
  <2>6. ASSUME NEW r \in DOMAIN runs', Taken(r)', runs'[r].key \notin slipped'
        PROVE  /\ Backed(r)'
               /\ \A q \in DOMAIN runs' : Taken(q)' /\ runs'[q].key = runs'[r].key => q = r
    <3>1. CASE r = n
      <4>1. runs'[r].key = d.key
        BY <1>5, <1>7, <3>1
      <4>2. Backed(r)'
        BY <2>1, <2>2, <3>1, <4>1 DEF Backed
      <4>3. QED
        BY <1>1, <2>4, <2>5, <2>6, <3>1, <4>1, <4>2
    <3>2. CASE r # n
      <4>1. r \in DOMAIN runs /\ runs'[r] = runs[r] /\ Taken(r) /\ runs[r].key \notin slipped
        BY <1>1, <2>5, <2>6, <3>2
      <4>2. runs[r].key # d.key
        BY <2>4, <4>1
      <4>3. Backed(r) /\ \A q \in DOMAIN runs : Taken(q) /\ runs[q].key = runs[r].key => q = r
        BY <4>1 DEF Once, TakenOnce
      <4>4. Backed(r)'
        BY <1>1, <1>3, <2>2, <4>1, <4>2, <4>3 DEF Backed
      <4>5. ASSUME NEW q \in DOMAIN runs', Taken(q)', runs'[q].key = runs'[r].key
            PROVE  q = r
        <5>1. q # n
          BY <1>5, <1>7, <4>1, <4>2, <4>5
        <5>2. QED
          BY <2>5, <4>1, <4>3, <4>5, <5>1
      <4>6. QED
        BY <4>4, <4>5
    <3>3. QED
      BY <3>1, <3>2
  <2>7. QED
    BY <2>3, <2>6 DEF Once, TakenOnce
<1>8. QED
  BY <1>2, <1>6, <1>7 DEF n

LEMMA SteppedOnce ==
  ASSUME Desk, Hands, Sheet, Once, NEW o \in Owners, Step(o)
  PROVE  Once'
<1>0. runs \in Seq(RunType)
  BY DEF Sheet
<1>1. CASE Reap(o)
  <2>1. UNCHANGED <<work, doing, posts, slipped>> /\ (runs' = Reaped(runs) \/ runs' = runs)
    BY <1>1 DEF Reap, history
  <2>2. NoneTaken
    BY <1>0, <2>1, RewrittenTakesNone, RunsAlone
  <2>3. QED
    BY <2>1, <2>2, SameOnce
<1>2. CASE Read(o) \/ Answered(o) \/ DispatchFails(o)
  <2>1. PICK d \in doing[o], stage \in {"dispatch", "drop", "release", "finish"} :
          /\ Goto(o, d, stage)
          /\ \/ d.at = "read" /\ slipped' = slipped
             \/ stage = "finish" /\ slipped' = slipped
             \/ slipped' = slipped \union {d.key}
    BY <1>2 DEF Read, Answered, DispatchFails, history
  <2>2. UNCHANGED <<work, runs>> /\ posts' \subseteq posts
    BY <1>2 DEF Read, Answered, DispatchFails
  <2>3. NoneTaken
    BY <1>0, <2>2, RunsAlone
  <2>4. QED
    BY <2>1, <2>2, <2>3, GoneOnOnce
<1>3. CASE Finish(o)
  <2>1. PICK d \in doing[o] :
          \/ work' = Finished(work, d.key, o) /\ Clear(o) /\ slipped' = slipped
          \/ /\ work' \in {work, Finished(work, d.key, o)}
             /\ Goto(o, d, "release")
             /\ slipped' = slipped \union {d.key}
    BY <1>3 DEF Finish
  <2>2. At(d.key, "release", d.run).key = d.key
    BY DEF At
  <2>3. PICK S \in {{}, {At(d.key, "release", d.run)}} :
          /\ doing' = [doing EXCEPT ![o] = S]
          /\ S = {} \/ d.key \in slipped'
    BY <2>1 DEF Clear, Goto, Hold
  <2>6. \A e \in S : e.key \in slipped' /\ \A f \in S : f = e
    BY <2>2, <2>3
  <2>4. UNCHANGED <<runs, posts>>
    BY <1>3 DEF Finish
  <2>5. QED
    BY <2>1, <2>3, <2>4, <2>6, PutAwayOnce
<1>4. CASE Release(o)
  <2>1. PICK d \in doing[o] : d.at = "release" /\ work' \in {work, Released(work, d.key, o)}
    BY <1>4 DEF Release
  <2>2. UNCHANGED <<runs, posts, slipped>> /\ doing' = [doing EXCEPT ![o] = {}]
    BY <1>4 DEF Release, Clear, history
  <2>3. QED
    BY <2>1, <2>2, PutAwayOnce
<1>5. QED
  BY <1>1, <1>2, <1>3, <1>4, BeginOnce, DispatchOnce DEF Step

LEMMA CrashOnce ==
  ASSUME Desk, Hands, Sheet, Once, NEW o \in Owners, Crash(o)
  PROVE  Once'
<1>1. UNCHANGED <<work, runs, posts>> /\ slipped' = slipped \union { d.key : d \in doing[o] }
      /\ doing' = [doing EXCEPT ![o] = {}]
  BY DEF Crash, Clear
<1>2. NoneTaken
  BY <1>1, RunsAlone DEF Sheet
<1>3. /\ \A d \in doing[o] : d.key \in slipped'
      /\ slipped \subseteq slipped'
  BY <1>1
<1>4. PICK S : S = {} /\ doing' = [doing EXCEPT ![o] = S]
  BY <1>1
<1>5. QED
  BY <1>1, <1>2, <1>3, <1>4, HandMoved

LEMMA TickOnce ==
  ASSUME Desk, Hands, Sheet, Once, Tick
  PROVE  Once'
<1> DEFINE later == Elapsed(work)
<1>1. work \in Table /\ later \in Table
  BY AgedTable DEF Desk
<1>2. \A k \in Keys : /\ later[k].st = work[k].st /\ later[k].owner = work[k].owner
                     /\ later[k].lease \in 0..Lease
  <2>1. TAKE k \in Keys
  <2>2. later[k] \in Row
    BY <1>1 DEF Table
  <2>3. later[k] = IF work[k].st = "absent" THEN work[k] ELSE Older(work, k)
    BY DEF Elapsed
  <2>4. Older(work, k).st = work[k].st /\ Older(work, k).owner = work[k].owner
    BY DEF Older
  <2>5. QED
    BY <2>2, <2>3, <2>4, RowFields
<1>3. work' = [k \in Keys |-> [later[k] EXCEPT !.age = 0]]
  BY DEF Tick
<1>4. slipped' = slipped \union { k \in Keys : \E o \in Owners : \E d \in doing[o] :
                                     d.key = k /\ later[k].lease = 0 }
  BY DEF Tick
<1> HIDE DEF later
<1>5. \A k \in Keys : /\ work'[k].st = work[k].st /\ work'[k].owner = work[k].owner
                     /\ work'[k].lease = later[k].lease
  BY <1>1, <1>2, <1>3 DEF Table, Row
<1>6. UNCHANGED <<posts, doing>> /\ slipped \subseteq slipped'
  BY <1>4 DEF Tick, sweeps
<1>7. NoneTaken
  BY <1>6, RewrittenTakesNone DEF Sheet
<1>8. Leased'
  <2>1. ASSUME NEW o \in Owners, NEW d \in doing[o], d.key \notin slipped'
        PROVE  Ours(work', d.key, o) /\ work'[d.key].lease > 0
    <3>1. d.key \in Keys /\ Ours(work, d.key, o)
      BY <1>6, <2>1, DoingFields DEF Hands, Once, Leased
    <3>2. later[d.key].lease # 0
      BY <1>4, <2>1, <3>1
    <3>3. QED
      BY <1>2, <1>5, <3>1, <3>2 DEF Ours
  <2>2. QED
    BY <1>6, <2>1 DEF Once, Leased
<1>9. ASSUME NEW r \in DOMAIN runs, Backed(r)
      PROVE  Backed(r)'
  <2>1. runs[r].key \in Keys /\ runs'[r].key = runs[r].key
    BY <1>7, RunFields, RunsAreRows DEF Sheet, NoneTaken
  <2>2. QED
    BY <1>5, <1>6, <1>9, <2>1 DEF Backed
<1>10. QED
  BY <1>6, <1>7, <1>8, <1>9, StillOnce DEF Once

LEMMA OfferOnce ==
  ASSUME Desk, Hands, Sheet, Once, NEW k \in Keys, Offer(k)
  PROVE  Once'
<1>1. UNCHANGED <<runs, posts, doing, slipped>> /\ work[k].st = "absent"
      /\ work' = Offered(work, k, 0)
  BY DEF Offer, sweeps, history
<1>2. NoneTaken
  BY <1>1, RunsAlone DEF Sheet
<1>3. \A j : j # k => work'[j] = work[j]
  BY <1>1 DEF Offered, Desk, Table
<1>4. Leased'
  BY <1>1, <1>3 DEF Once, Leased, Ours
<1>5. \A r \in DOMAIN runs : Backed(r) => Backed(r)'
  BY <1>1, <1>3 DEF Backed
<1>6. QED
  BY <1>1, <1>2, <1>4, <1>5, StillOnce DEF Once

LEMMA OnceKept ==
  ASSUME Desk, Hands, Sheet, Once, [Next]_vars
  PROVE  Once'
<1>1. ASSUME NEW r \in posts, Accept(r) \/ Lose(r)
      PROVE  Once'
  <2>1. UNCHANGED <<work, doing, slipped>>
    BY <1>1 DEF Accept, Lose, sweeps, history
  <2>2. NoneTaken
    <3>1. CASE Accept(r)
      BY <3>1, AcceptTakesNone
    <3>2. CASE Lose(r)
      <4>1. UNCHANGED runs /\ posts' \subseteq posts
        BY <3>2 DEF Lose
      <4>2. QED
        BY <4>1, RunsAlone DEF Sheet
    <3>3. QED
      BY <1>1, <3>1, <3>2
  <2>3. QED
    BY <2>1, <2>2, SameOnce
<1>2. ASSUME NEW t \in turns, Serve(t)
      PROVE  Once'
  <2>1. UNCHANGED <<work, doing, slipped>>
    BY <1>2 DEF Serve, Start, Run, Succeed, RecordFailure, Count, SwitchOff, sweeps, history
  <2>2. QED
    BY <1>2, <2>1, ServedTakesNone, SameOnce
<1>3. CASE Remove
  <2>1. UNCHANGED <<work, doing, posts, slipped>>
    BY <1>3 DEF Remove, sweeps, history
  <2>2. QED
    BY <1>3, <2>1, RewrittenTakesNone, SameOnce DEF Sheet
<1>4. CASE \/ \E st \in {"on", "off"} : Switch(st)
           \/ \E t \in turns : TurnDies(t)
           \/ UNCHANGED vars
  <2>1. UNCHANGED <<work, doing, runs, posts, slipped>>
    BY <1>4 DEF Switch, TurnDies, vars, sweeps, history
  <2>2. QED
    BY <2>1, RunsAlone, SameOnce DEF Sheet
<1>5. QED
  BY <1>1, <1>2, <1>3, <1>4, OfferOnce, SweepOnce, SteppedOnce, CrashOnce, TickOnce DEF Next

\* At most one run of an occurrence counts, so at most one turn ran for it.
LEMMA OnceIsEnough == Once => DuplicateHasACause
<1> SUFFICES ASSUME Once, NEW k \in Keys, k \notin slipped
             PROVE  ~(Ran(k) > 1)
  BY DEF DuplicateHasACause
<1> DEFINE S == { r \in DOMAIN runs : runs[r].key = k /\ runs[r].reached = "bot" }
<1>1. (\A q, r \in S : q = r) /\ Ran(k) = Cardinality(S)
  BY DEF Once, TakenOnce, Taken, Ran
<1> HIDE DEF S
<1>2. CASE S = {}
  BY <1>1, <1>2, FS_EmptySet
<1>3. ASSUME NEW r \in S
      PROVE  ~(Ran(k) > 1)
  <2>1. S = {r}
    BY <1>1, <1>3
  <2>2. Cardinality({r}) = 1
    BY FS_Singleton, Zenon
  <2>3. QED
    BY <1>1, <2>1, <2>2
<1>4. QED
  BY <1>2, <1>3

-----------------------------------------------------------------------------
(* The failures at the end of the sequence, which the fatigue rule counts. *)
Since(rs) == { r \in Decided(rs) : \A q \in Decided(rs) : q >= r => rs[q].st = "failed" }

LEMMA SinceIsFinite ==
  ASSUME NEW rs \in Seq(RunType)
  PROVE  /\ IsFiniteSet(Since(rs)) /\ Cardinality(Since(rs)) \in Nat
         /\ Tired(rs) <=> Cardinality(Since(rs)) >= FatigueLimit
<1>1. Len(rs) \in Nat /\ Since(rs) \subseteq 1..Len(rs)
  BY RunsAreRows DEF Since, Decided
<1>2. IsFiniteSet(1..Len(rs))
  BY <1>1, FS_Interval
<1>3. IsFiniteSet(Since(rs))
  BY <1>1, <1>2, FS_Subset
<1>4. Cardinality(Since(rs)) \in Nat
  BY <1>3, FS_CardinalityType
<1>5. Streak(rs) = IF Cardinality(Since(rs)) < ScanLimit THEN Cardinality(Since(rs)) ELSE ScanLimit
  BY DEF Streak, Since
<1>6. QED
  BY <1>3, <1>4, <1>5 DEF Tired

\* Fewer failures at the end never tire a routine that was not tired.
LEMMA FewerFailures ==
  ASSUME NEW rs \in Seq(RunType), NEW new \in Seq(RunType), Since(new) \subseteq Since(rs), Tired(new)
  PROVE  Tired(rs)
<1>1. Cardinality(Since(new)) <= Cardinality(Since(rs))
  BY SinceIsFinite, FS_Subset
<1>2. QED
  BY <1>1, SinceIsFinite

\* Runs without an outcome are not counted, however they came to be so.
LEMMA SameOutcomes ==
  ASSUME NEW rs \in Seq(RunType), NEW new \in Seq(RunType), DOMAIN rs \subseteq DOMAIN new,
         \A r \in DOMAIN rs : \/ new[r].st = rs[r].st
                              \/ /\ rs[r].st \notin {"succeeded", "failed"}
                                 /\ new[r].st \notin {"succeeded", "failed"},
         \A r \in DOMAIN new \ DOMAIN rs : new[r].st \notin {"succeeded", "failed"}
  PROVE  Tired(new) => Tired(rs)
<1>1. Decided(new) = Decided(rs) /\ \A r \in Decided(rs) : new[r].st = rs[r].st
  BY DEF Decided
<1>2. Since(new) \subseteq Since(rs)
  BY <1>1 DEF Since
<1>3. QED
  BY <1>2, FewerFailures

\* A run that succeeds starts the count again.
LEMMA SuccessForgets ==
  ASSUME NEW rs \in Seq(RunType), NEW r \in DOMAIN rs, NEW new \in Seq(RunType),
         new = Closed(rs, r, "succeeded")
  PROVE  Tired(new) => Tired(rs)
<1>1. CASE rs[r].st # "open"
  BY <1>1 DEF Closed
<1>2. CASE rs[r].st = "open"
  <2>6. new = [rs EXCEPT ![r] = Shut(rs[r], "succeeded")]
    BY <1>2 DEF Closed
  <2>1. /\ DOMAIN new = DOMAIN rs /\ DOMAIN rs \subseteq Int
        /\ \A q \in DOMAIN rs \ {r} : new[q] = rs[q]
    <3>1. DOMAIN rs \subseteq Int
      BY RunsAreRows
    <3>2. QED
      BY <2>6, <3>1
  <2>2. new[r].st = "succeeded"
    BY <2>6 DEF Shut, RunRow
  <2>3. Decided(new) = Decided(rs) \union {r} /\ r \notin Decided(rs)
    BY <1>2, <2>1, <2>2 DEF Decided
  <2>4. ASSUME NEW x \in Since(new)
        PROVE  x \in Since(rs)
    <3>1. x \in Decided(new) /\ \A q \in Decided(new) : q >= x => new[q].st = "failed"
      BY <2>4 DEF Since
    <3>2. x # r
      BY <2>1, <2>2, <2>3, <3>1
    <3>3. QED
      BY <2>1, <2>3, <3>1, <3>2 DEF Since, Decided
  <2>5. QED
    BY <2>4, FewerFailures
<1>3. QED
  BY <1>1, <1>2

-----------------------------------------------------------------------------
(* Why a routine that has failed too often may still be on.                *)
Excused ==
  \/ standing # "on" \/ forgiven \/ untold
  \/ \E t \in turns : t.at \in {"counting", "tired"}

LEMMA TiredIsExcused == TiredIsSwitchedOff <=> (Tired(runs) => Excused)
  BY DEF TiredIsSwitchedOff, Tired, Excused

\* Every excuse holds on while its turn does and nobody records a failure.
LEMMA StillExcused ==
  ASSUME Excused, UNCHANGED <<standing, forgiven, untold>>,
         \A t \in turns : t.at \in {"counting", "tired"} => t \in turns'
  PROVE  Excused'
  BY DEF Excused

LEMMA ServedIsExcused ==
  ASSUME Sheet, Sheet', Tired(runs) => Excused, NEW t \in turns, Serve(t), Tired(runs')
  PROVE  Excused'
<1>1. runs \in Seq(RunType) /\ runs' \in Seq(RunType) /\ t.run \in DOMAIN runs /\ t \in Turn
  BY DEF Sheet
<1>2. ASSUME t.at \in {"start", "running", "replied"}, Tired(runs),
             UNCHANGED <<standing, forgiven, untold>>,
             Ends(t) \/ \E stage \in {"running", "replied", "failed"} : Becomes(t, stage)
      PROVE  Excused'
  <2>1. \A u \in turns : u.at \in {"counting", "tired"} => u \in turns'
    BY <1>2 DEF Ends, Becomes
  <2>2. QED
    BY <1>2, <2>1, StillExcused
<1>3. CASE Start(t)
  <2>1. t.at = "start" /\ UNCHANGED <<standing, forgiven, untold>>
        /\ (Ends(t) \/ \E stage \in {"running", "replied", "failed"} : Becomes(t, stage))
    BY <1>3 DEF Start, history
  <2>2. \/ runs' = runs \/ runs' = Closed(runs, t.run, "skipped")
        \/ runs' = [runs EXCEPT ![t.run].reached = "bot"]
    BY <1>3 DEF Start
  <2>3. Tired(runs') => Tired(runs)
    <3>1. CASE runs' = Closed(runs, t.run, "skipped")
      <4>1. /\ DOMAIN runs' = DOMAIN runs
            /\ \A q \in DOMAIN runs \ {t.run} : runs'[q] = runs[q]
        BY <1>1, <3>1, ClosedRuns
      <4>2. \/ runs' = runs
            \/ runs[t.run].st = "open" /\ runs'[t.run] = Shut(runs[t.run], "skipped")
        BY <1>1, <3>1 DEF Closed
      <4>3. Shut(runs[t.run], "skipped").st = "skipped"
        BY DEF Shut, RunRow
      <4>4. QED
        BY <1>1, <4>1, <4>2, <4>3, SameOutcomes
    <3>2. CASE runs' = [runs EXCEPT ![t.run].reached = "bot"]
      <4>1. DOMAIN runs' = DOMAIN runs /\ \A q \in DOMAIN runs : runs'[q].st = runs[q].st
        <5>1. /\ DOMAIN runs' = DOMAIN runs /\ runs[t.run] \in RunType
              /\ \A q \in DOMAIN runs \ {t.run} : runs'[q] = runs[q]
              /\ runs'[t.run] = [runs[t.run] EXCEPT !.reached = "bot"]
          BY <1>1, <3>2, RunsAreRows
        <5>2. QED
          BY <5>1 DEF RunType
      <4>2. QED
        BY <1>1, <4>1, SameOutcomes
    <3>3. QED
      BY <2>2, <3>1, <3>2
  <2>4. QED
    BY <1>2, <2>1, <2>3
<1>4. CASE Run(t)
  <2>1. /\ t.at = "running" /\ UNCHANGED <<runs, standing, forgiven, untold>>
        /\ \E stage \in {"running", "replied", "failed"} : Becomes(t, stage)
    BY <1>4 DEF Run, history
  <2>2. QED
    BY <1>2, <2>1
<1>5. CASE Succeed(t)
  <2>1. /\ t.at = "replied" /\ UNCHANGED <<standing, forgiven, untold>> /\ Ends(t)
        /\ runs' = Closed(runs, t.run, "succeeded")
    BY <1>5 DEF Succeed, history
  <2>2. Tired(runs)
    BY <1>1, <2>1, SuccessForgets
  <2>3. QED
    BY <1>2, <2>1, <2>2
<1>6. CASE RecordFailure(t)
  <2>1. [t EXCEPT !.at = "counting"] \in turns' /\ [t EXCEPT !.at = "counting"].at = "counting"
    BY <1>1, <1>6, MovedTurn DEF RecordFailure, Becomes
  <2>2. QED
    BY <2>1 DEF Excused
<1>7. CASE Count(t)
  <2>1. runs' = runs
    BY <1>7 DEF Count
  <2>2. [t EXCEPT !.at = "tired"] \in turns' /\ [t EXCEPT !.at = "tired"].at = "tired"
    BY <1>1, <1>7, <2>1, MovedTurn DEF Count, Becomes
  <2>3. QED
    BY <2>2 DEF Excused
<1>8. CASE SwitchOff(t)
  BY <1>8 DEF SwitchOff, Excused
<1>9. QED
  BY <1>3, <1>4, <1>5, <1>6, <1>7, <1>8 DEF Serve

LEMMA ExcusedKept ==
  ASSUME Desk, Hands, Sheet, Sheet', [Next]_vars, Tired(runs) => Excused, Tired(runs')
  PROVE  Excused'
<1>0. runs \in Seq(RunType) /\ runs' \in Seq(RunType)
  BY DEF Sheet
<1>1. CASE Remove \/ \E st \in {"on", "off"} : Switch(st)
  BY <1>1 DEF Remove, Switch, Excused
<1>2. ASSUME NEW o \in Owners, Reap(o)
      PROVE  Excused'
  <2>1. UNCHANGED <<standing, turns, forgiven, untold>> /\ (runs' = Reaped(runs) \/ runs' = runs)
    BY <1>2 DEF Reap, history
  <2>2. ASSUME runs' = Reaped(runs)
        PROVE  Tired(runs)
    <3>1. \A run : Shut(run, "skipped").st = "skipped"
      BY DEF Shut, RunRow
    <3>2. /\ DOMAIN runs' = DOMAIN runs
          /\ \A r \in DOMAIN runs : \/ runs'[r] = runs[r]
                                    \/ runs[r].st = "open" /\ runs'[r].st = "skipped"
      BY <2>2, <3>1 DEF Reaped, IsAbandoned
    <3>3. QED
      BY <1>0, <3>2, SameOutcomes
  <2>3. QED
    BY <2>1, <2>2, StillExcused
<1>3. ASSUME NEW o \in Owners, Dispatch(o)
      PROVE  Excused'
  <2>1. UNCHANGED <<standing, turns, forgiven, untold>>
    BY <1>3 DEF Dispatch, history
  <2>2. PICK d \in doing[o] : runs' = Opened(d.key) \/ runs' = runs
    BY <1>3 DEF Dispatch
  <2>3. d.key \in Keys
    BY DoingFields DEF Hands
  <2>4. ASSUME runs' = Opened(d.key)
        PROVE  Tired(runs)
    <3>1. /\ DOMAIN runs \subseteq DOMAIN runs'
          /\ \A r \in DOMAIN runs : runs'[r].st = runs[r].st
          /\ \A r \in DOMAIN runs' \ DOMAIN runs : runs'[r].st = "open"
      BY <1>0, <2>3, <2>4, OpenedRuns
    <3>2. QED
      BY <1>0, <3>1, SameOutcomes
  <2>5. QED
    BY <2>1, <2>2, <2>4, StillExcused
<1>4. ASSUME NEW r \in posts, Accept(r)
      PROVE  Excused'
  <2>1. UNCHANGED <<standing, forgiven, untold>> /\ turns \subseteq turns' /\ r \in DOMAIN runs
    BY <1>4 DEF Accept, history, Sheet
  <2>2. DOMAIN runs' = DOMAIN runs /\ \A q \in DOMAIN runs : runs'[q].st = runs[q].st
    BY <1>0, <1>4, <2>1, ReachedRuns, SMTT(60) DEF Accept
  <2>3. QED
    BY <1>0, <2>1, <2>2, SameOutcomes, StillExcused
<1>5. ASSUME NEW t \in turns, TurnDies(t)
      PROVE  Excused'
  <2>1. UNCHANGED <<runs, standing, forgiven>> /\ untold' = (untold \/ t.at \in {"counting", "tired"})
        /\ turns' = turns \ {t}
    BY <1>5 DEF TurnDies, Ends
  <2>2. QED
    BY <2>1 DEF Excused
<1>6. CASE Tick
  <2>1. UNCHANGED <<standing, forgiven, untold>>
    BY <1>6 DEF Tick
  <2>2. ASSUME NEW t \in turns, t.at \in {"counting", "tired"}
        PROVE  t \in turns'
    <3>1. ~Live(t)
      BY <2>2 DEF Live
    <3>2. QED
      BY <1>6, <3>1 DEF Tick
  <2>3. DOMAIN runs' = DOMAIN runs /\ \A r \in DOMAIN runs : runs'[r].st = runs[r].st
    BY <1>6 DEF Tick, RunRow
  <2>4. QED
    BY <1>0, <2>1, <2>2, <2>3, SameOutcomes, StillExcused
<1>7. ASSUME UNCHANGED <<runs, standing, turns, forgiven, untold>>
      PROVE  Excused'
  BY <1>7, StillExcused
<1>8. ASSUME NEW o \in Owners,
             \/ Begin(o) \/ Read(o) \/ Answered(o) \/ DispatchFails(o) \/ Finish(o) \/ Release(o)
             \/ Sweep(o) \/ Crash(o)
      PROVE  Excused'
  <2>1. UNCHANGED <<runs, standing, turns, forgiven, untold>>
    BY <1>8 DEF Begin, Read, Answered, DispatchFails, Finish, Release, Sweep, Crash, history
  <2>2. QED
    BY <1>7, <2>1
<1>9. CASE \/ \E k \in Keys : Offer(k)
           \/ \E r \in posts : Lose(r)
           \/ UNCHANGED vars
  <2>1. UNCHANGED <<runs, standing, turns, forgiven, untold>>
    BY <1>9 DEF Offer, Lose, vars, history
  <2>2. QED
    BY <1>7, <2>1
<1>10. QED
  BY <1>1, <1>2, <1>3, <1>4, <1>5, <1>6, <1>8, <1>9, ServedIsExcused DEF Next, Step

-----------------------------------------------------------------------------
(* What the two properties rest on, beside the invariant of the types.     *)
Whole == IInv /\ Once /\ (Tired(runs) => Excused)

LEMMA InitWhole == Init => Whole
<1> SUFFICES ASSUME Init
             PROVE  Whole
  OBVIOUS
<1>1. IInv
  BY InitHolds
<1>2. runs = <<>> /\ doing = [o \in Owners |-> {}]
  BY DEF Init
<1>3. Once
  BY <1>2 DEF Once, Leased, TakenOnce
<1>4. ~Tired(runs)
  <2>1. runs \in Seq(RunType) /\ Since(runs) = {}
    BY <1>2 DEF Since, Decided
  <2>2. Cardinality(Since(runs)) = 0
    BY <2>1, FS_EmptySet
  <2>3. Tired(runs) <=> Cardinality(Since(runs)) >= FatigueLimit
    BY <2>1, SinceIsFinite
  <2>4. QED
    BY <2>2, <2>3
<1>5. QED
  BY <1>1, <1>3, <1>4 DEF Whole

LEMMA NextWhole == Whole /\ [Next]_vars => Whole'
<1> SUFFICES ASSUME Whole, [Next]_vars
             PROVE  Whole'
  OBVIOUS
<1>1. Desk /\ Hands /\ Sheet /\ IInv
  BY Parts DEF Whole
<1>2. IInv' /\ Sheet'
  BY <1>1, NextHolds, PartsNext
<1>3. Once'
  BY <1>1, OnceKept DEF Whole
<1>4. Tired(runs') => Excused'
  BY <1>1, <1>2, ExcusedKept DEF Whole
<1>5. Tired(runs)' <=> Tired(runs')
  BY DEF Tired, Streak, Decided
<1>6. QED
  BY <1>2, <1>3, <1>4, <1>5 DEF Whole

LEMMA WholeHolds == Spec => []Whole
  BY InitWhole, NextWhole, PTL DEF Spec

(* A second turn runs for an occurrence only if its lease lapsed under a   *)
(* sweep, the sweep died or a call of it failed: claim, renew and finish   *)
(* of work/queue.ts and the order of routines/sweep.ts see to the rest,    *)
(* for any number of sweeps, of occurrences and of attempts.               *)
THEOREM DuplicatesHaveCauses == Spec => []DuplicateHasACause
<1>1. Whole => DuplicateHasACause
  BY OnceIsEnough DEF Whole
<1>2. QED
  BY WholeHolds, <1>1, PTL

(* A routine that has failed FatigueLimit times in a row is not on, unless *)
(* a person switched it on since, the rule is still to be applied, or the  *)
(* server died before applying it: whatever the reaper, later runs or a    *)
(* removal do to the rows that consecutiveFailures reads.                  *)
THEOREM TiredRoutinesAreOff == Spec => []TiredIsSwitchedOff
<1>1. Whole => TiredIsSwitchedOff
  BY TiredIsExcused DEF Whole
<1>2. QED
  BY WholeHolds, <1>1, PTL
=============================================================================
