------------------------- MODULE AgentComputerProofs --------------------------
(***************************************************************************)
(* What holds inside one agent computer. Of its browsers, for any number   *)
(* of Bots and of calls that race, fail and close each other's browsers:   *)
(* one per Bot, none that no stop reaches, and the cap. Of one Bot's live  *)
(* screen, for any number of watchers and of attaches in flight, however   *)
(* often the browser is stopped, dies and opens windows: one watcher is    *)
(* cast to at a time, no loop outlives a browser that was closed, and the  *)
(* wheel is not taken under a watcher. A socket whose session was dropped  *)
(* before its claim has a slot of its own, and is the exception.           *)
(***************************************************************************)
EXTENDS BrowserProfiles, LiveScreen, FiniteSetTheorems, SequenceTheorems, TLAPS

USE ProfilesAssumption
USE DEF vars, table, waits, history, Sound, Goto, Kind, BotOf

-----------------------------------------------------------------------------
(* The order of use.                                                       *)

\* Only the place of a Bot with a record is looked up, and it has one place.
LEMMA PlaceOfRecord ==
  ASSUME OrderOfUse, NEW b \in Bots, live[b] # None
  PROVE  Place(b) \in 1..Len(recent) /\ recent[Place(b)] = b
BY DEF OrderOfUse, Place

\* What a dropped record leaves of the order: the same Bots but one, each once.
LEMMA WithoutRest ==
  ASSUME OrderOfUse, NEW b \in Bots
  PROVE  /\ Without(b) \in Seq(Bots)
         /\ Len(Without(b)) = IF live[b] = None THEN Len(recent) ELSE Len(recent) - 1
         /\ \A x \in Bots : x # b /\ live[x] # None <=> \E i \in DOMAIN Without(b) : Without(b)[i] = x
         /\ \A i, j \in DOMAIN Without(b) : Without(b)[i] = Without(b)[j] => i = j
<1>1. CASE live[b] = None
  BY <1>1 DEF Without, OrderOfUse
<1>2. CASE live[b] # None
  <2>. DEFINE n == Len(recent) - 1
              e(i) == recent[IF i < Place(b) THEN i ELSE i + 1]
              w == [i \in 1..n |-> e(i)]
  <2>1. /\ Place(b) \in 1..Len(recent) /\ recent[Place(b)] = b
        /\ n \in Nat /\ \A i \in 1..n : e(i) \in Bots /\ e(i) # b
    <3>1. Place(b) \in 1..Len(recent) /\ recent[Place(b)] = b
      BY <1>2, PlaceOfRecord
    <3>2. Len(recent) \in Nat /\ \A i \in 1..Len(recent) : recent[i] \in Bots
      BY DEF OrderOfUse
    <3>. QED BY <3>1, <3>2 DEF OrderOfUse
  <2>2. Without(b) = w
    BY <1>2 DEF Without
  <2>3. w \in Seq(Bots) /\ Len(w) = n /\ DOMAIN w = 1..n
    BY <2>1
  <2>4. \A i, j \in 1..n : w[i] = w[j] => i = j
    BY <2>1 DEF OrderOfUse
  <2>5. ASSUME NEW x \in Bots
        PROVE  x # b /\ live[x] # None <=> \E i \in 1..n : w[i] = x
    <3>1. ASSUME x # b, live[x] # None PROVE \E i \in 1..n : w[i] = x
      <4>1. PICK i \in 1..Len(recent) : recent[i] = x
        BY <3>1 DEF OrderOfUse
      <4>2. i # Place(b)
        BY <3>1, <4>1, <2>1
      <4>3. CASE i < Place(b)
        <5>1. i \in 1..n /\ w[i] = x
          BY <4>1, <4>3, <2>1
        <5>. QED BY <5>1
      <4>4. CASE i > Place(b)
        <5>1. i - 1 \in 1..n /\ w[i - 1] = x
          BY <4>1, <4>4, <2>1
        <5>. QED BY <5>1
      <4>. QED BY <4>2, <4>3, <4>4, <2>1
    <3>2. ASSUME NEW i \in 1..n, w[i] = x PROVE x # b /\ live[x] # None
      <4>1. x = e(i)
        BY <3>2
      <4>2. \E j \in DOMAIN recent : recent[j] = x
        BY <4>1, <2>1 DEF OrderOfUse
      <4>. QED BY <4>1, <4>2, <2>1 DEF OrderOfUse
    <3>. QED BY <3>1, <3>2
  <2>. HIDE DEF w, e
  <2>. QED BY <1>2, <2>2, <2>3, <2>4, <2>5
<1>. QED BY <1>1, <1>2

\* The record of one Bot goes.
LEMMA OrderWithout ==
  ASSUME OrderOfUse, live \in [Bots -> Requests \union {None}], NEW b \in Bots,
         recent' = Without(b), live' = [live EXCEPT ![b] = None]
  PROVE  /\ OrderOfUse'
         /\ Len(recent') = IF live[b] = None THEN Len(recent) ELSE Len(recent) - 1
  BY WithoutRest DEF OrderOfUse

\* A Bot that is used goes to the end, with a record from then on if it had none.
LEMMA OrderAppended ==
  ASSUME OrderOfUse, live \in [Bots -> Requests \union {None}], NEW b \in Bots,
         recent' = Append(Without(b), b), live' \in [Bots -> Requests \union {None}], live'[b] # None,
         \A x \in Bots \ {b} : live'[x] = live[x]
  PROVE  /\ OrderOfUse'
         /\ Len(recent') = IF live[b] = None THEN Len(recent) + 1 ELSE Len(recent)
<1>. DEFINE w == Without(b)
<1>1. /\ w \in Seq(Bots) /\ Len(w) \in Nat /\ DOMAIN w = 1..Len(w)
      /\ Len(w) = IF live[b] = None THEN Len(recent) ELSE Len(recent) - 1
      /\ \A x \in Bots : x # b /\ live[x] # None <=> \E i \in 1..Len(w) : w[i] = x
      /\ \A i, j \in 1..Len(w) : w[i] = w[j] => i = j
  <2>1. /\ w \in Seq(Bots)
        /\ Len(w) = IF live[b] = None THEN Len(recent) ELSE Len(recent) - 1
        /\ \A x \in Bots : x # b /\ live[x] # None <=> \E i \in DOMAIN w : w[i] = x
        /\ \A i, j \in DOMAIN w : w[i] = w[j] => i = j
    BY WithoutRest
  <2>. HIDE DEF w
  <2>2. Len(w) \in Nat /\ DOMAIN w = 1..Len(w)
    BY <2>1
  <2>. QED BY <2>1, <2>2
<1>2. /\ recent' \in Seq(Bots) /\ Len(recent') = Len(w) + 1 /\ DOMAIN recent' = 1..(Len(w) + 1)
      /\ \A i \in 1..Len(w) : recent'[i] = w[i]
      /\ recent'[Len(w) + 1] = b
  BY <1>1
<1>3. Len(recent) \in Nat
  BY DEF OrderOfUse
<1>4. \A i \in 1..Len(w) : w[i] \in Bots /\ w[i] # b
  BY <1>1
<1>5. \A i, j \in DOMAIN recent' : recent'[i] = recent'[j] => i = j
  BY <1>1, <1>2, <1>4
<1>6. ASSUME NEW x \in Bots
      PROVE  live'[x] # None <=> \E i \in DOMAIN recent' : recent'[i] = x
  <2>1. CASE x = b
    BY <2>1, <1>1, <1>2
  <2>2. CASE x # b
    <3>1. (\E i \in 1..(Len(w) + 1) : recent'[i] = x) <=> \E i \in 1..Len(w) : w[i] = x
      BY <2>2, <1>1, <1>2
    <3>. QED BY <2>2, <3>1, <1>1, <1>2
  <2>. QED BY <2>1, <2>2
<1>7. OrderOfUse'
  BY <1>2, <1>5, <1>6 DEF OrderOfUse
<1>8. Len(recent') = IF live[b] = None THEN Len(recent) + 1 ELSE Len(recent)
  <2>. HIDE DEF w
  <2>. QED BY <1>1, <1>2, <1>3
<1>. QED BY <1>7, <1>8

-----------------------------------------------------------------------------
(* Closes.                                                                 *)

\* A close goes on while another call moves, or while it moves from one stage to the next.
LEMMA ClosingGoesOn ==
  ASSUME TypeOK, NEW p \in Requests, NEW c \in Requests, BeingClosed(c),
         leaving \subseteq leaving',
         \A q \in Requests \ {p} : at'[q] = at[q] /\ ctx'[q] = ctx[q],
         at[p] \in {"announcing", "closing"} =>
           at'[p] \in {"announcing", "closing"} /\ ctx'[p] = ctx[p]
  PROVE  BeingClosed(c)'
BY DEF BeingClosed

\* Everything else stays as it is while browsers are told to go, go, or die.
LEMMA BrowsersGo ==
  ASSUME IInv, TypeOK', ~Exited, UNCHANGED <<table, leaving, ask, waits, victims, ctx, history>>,
         \A q \in Requests : \/ at'[q] = at[q]
                             \/ at[q] = "announcing" /\ at'[q] = "closing"
                             \/ at[q] = "leaving" /\ at'[q] = "exiting",
         \A c \in Requests : \/ chrome'[c] = chrome[c]
                             \/ chrome[c] = "up" /\ chrome'[c] \in {"crashed", "pageless"}
                             \/ chrome[c] \in {"up", "pageless"} /\ chrome'[c] = "ending"
                             \/ chrome[c] = "ending" /\ chrome'[c] = "gone"
  PROVE  (ChromeIsLaunched /\ TableIsTrue /\ LaunchIsKnown /\ DroppedIsOver /\ RunningIsOnRecord
            /\ LeavingIsLast /\ OwedIsFound /\ ExcessIsLeaving)'
<1>1. \A q \in Requests :
        /\ at'[q] \in {"launching", "evicting", "announcing", "closing"}
             <=> at[q] \in {"launching", "evicting", "announcing", "closing"}
        /\ at'[q] \in {"idle", "held", "launching", "dropping", "redropping"} => at'[q] = at[q]
        /\ at[q] \in {"idle", "held", "launching", "dropping", "redropping"} => at'[q] = at[q]
  OBVIOUS
<1>2. ASSUME NEW x \in Requests, BeingClosed(x) PROVE BeingClosed(x)'
  BY <1>2 DEF BeingClosed
<1>3. ChromeIsLaunched'
  BY <1>1 DEF IInv, ChromeIsLaunched, Launches
<1>4. TableIsTrue' /\ LaunchIsKnown'
  <2>1. TableIsTrue'
    <3>1. /\ starting \in [Bots -> Requests \union {None}] /\ live \in [Bots -> Requests \union {None}]
          /\ TableIsTrue
      BY DEF IInv, TypeOK
    <3>2. \A c \in Requests : chrome[c] \notin {"none", "opening"} => chrome'[c] \notin {"none", "opening"}
      OBVIOUS
    <3>. QED BY <1>1, <3>1, <3>2 DEF TableIsTrue, Launches
  <2>2. LaunchIsKnown'
    BY <1>1 DEF IInv, LaunchIsKnown, Launches
  <2>. QED BY <2>1, <2>2
<1>5. DroppedIsOver'
  <2>1. ASSUME NEW q \in Requests, at'[q] \in {"dropping", "redropping"}
        PROVE  at[q] \in {"dropping", "redropping"} /\ ctx[q] \in Requests
    BY <1>1, <2>1 DEF IInv, TypeOK, CallsAreWhole
  <2>. QED BY <1>1, <2>1 DEF IInv, DroppedIsOver, Launches
<1>6. RunningIsOnRecord' /\ LeavingIsLast'
  BY <1>2 DEF IInv, TypeOK, RunningIsOnRecord, LeavingIsLast, ShuttingDown
<1>7. OwedIsFound'
  <2>1. ASSUME NEW b, NEW c \in Kept(b)' PROVE c \in Kept(b)
    BY <1>2 DEF Kept
  <2>2. \A c \in Requests : (chrome'[c] = "none" => chrome[c] = "none")
                         /\ (chrome'[c] = "opening" => chrome[c] = "opening")
    OBVIOUS
  <2>3. OwedIsFound /\ \A q \in Requests : owed[q] \subseteq Requests
    BY DEF IInv, TypeOK
  <2>. QED BY <2>1, <2>2, <2>3 DEF OwedIsFound
<1>8. ExcessIsLeaving'
  BY DEF IInv, TypeOK, ExcessIsLeaving
<1>. QED BY <1>3, <1>4, <1>5, <1>6, <1>7, <1>8

\* What a launch, a record and a half-dead browser depend on stays as it is while one
\* call goes on that changes no table and no browser and neither begins nor ends a launch.
LEMMA OneMoves ==
  ASSUME IInv, TypeOK', NEW p \in Requests, ~Exited,
         UNCHANGED <<table, chrome, leaving, ask, raced>>,
         \A q \in Requests \ {p} : at'[q] = at[q] /\ ctx'[q] = ctx[q],
         at[p] # "launching",
         at'[p] \notin {"idle", "held", "dropping", "redropping", "launching"},
         Kind(p) = "page" => (at[p] \in {"evicting", "announcing", "closing"}
                                <=> at'[p] \in {"evicting", "announcing", "closing"}),
         \A x \in Requests : BeingClosed(x) /\ chrome[x] \in {"up", "pageless"} => BeingClosed(x)'
  PROVE  (ChromeIsLaunched /\ TableIsTrue /\ LaunchIsKnown /\ DroppedIsOver /\ RunningIsOnRecord
            /\ LeavingIsLast)'
<1>1. \A c \in Requests : Kind(c) = "page" =>
        (at'[c] \in {"launching", "evicting", "announcing", "closing"}
           <=> at[c] \in {"launching", "evicting", "announcing", "closing"})
  OBVIOUS
<1>2. ChromeIsLaunched'
  BY <1>1 DEF IInv, TypeOK, ChromeIsLaunched, Launches
<1>3. TableIsTrue'
  BY <1>1 DEF IInv, TypeOK, TableIsTrue, Launches
<1>4. LaunchIsKnown'
  BY <1>1 DEF IInv, TypeOK, LaunchIsKnown, Launches
<1>5. DroppedIsOver'
  <2>1. ASSUME NEW q \in Requests, at'[q] \in {"dropping", "redropping"}
        PROVE  at[q] \in {"dropping", "redropping"} /\ ctx'[q] = ctx[q] /\ ctx[q] \in Requests
    BY <2>1 DEF IInv, TypeOK, CallsAreWhole
  <2>. QED BY <1>1, <2>1 DEF IInv, DroppedIsOver, Launches
<1>6. RunningIsOnRecord' /\ LeavingIsLast'
  BY DEF IInv, TypeOK, RunningIsOnRecord, LeavingIsLast, ShuttingDown
<1>. QED BY <1>2, <1>3, <1>4, <1>5, <1>6

-----------------------------------------------------------------------------
(* Calls: a call that is made has no browser yet, and whoever closed one   *)
(* goes on closing it.                                                     *)

LEMMA PageKeeps ==
  ASSUME IInv, NEW p \in Requests, NEW b \in Bots, Page(p, b)
  PROVE  IInv'
<1>. USE DEF Page, Called
<1>0. ASSUME NEW x \in Requests, BeingClosed(x) PROVE BeingClosed(x)'
  BY <1>0, ClosingGoesOn DEF IInv, TypeOK
<1>1. TypeOK'
  BY DEF IInv, TypeOK, OrderOfUse, Stage
<1>2. CallsAreWhole'
  BY DEF IInv, TypeOK, CallsAreWhole
<1>3. ChromeIsLaunched'
  BY DEF IInv, TypeOK, ChromeIsLaunched, Launches, Exited
<1>4. TableIsTrue'
  BY DEF IInv, TypeOK, TableIsTrue, ChromeIsLaunched, Launches
<1>5. LaunchIsKnown'
  BY DEF IInv, TypeOK, LaunchIsKnown, Launches
<1>6. DroppedIsOver'
  BY DEF IInv, TypeOK, DroppedIsOver, ChromeIsLaunched, Launches
<1>7. RunningIsOnRecord'
  BY <1>0 DEF IInv, TypeOK, RunningIsOnRecord, ChromeIsLaunched
<1>8. LeavingIsLast'
  BY DEF IInv, TypeOK, LeavingIsLast, ShuttingDown, CallsAreWhole
<1>9. OwedIsFound'
  BY <1>0 DEF IInv, TypeOK, OwedIsFound, CallsAreWhole, Kept
<1>10. ExcessIsLeaving'
  BY DEF IInv, TypeOK, ExcessIsLeaving
<1>. QED BY <1>1, <1>2, <1>3, <1>4, <1>5, <1>6, <1>7, <1>8, <1>9, <1>10 DEF IInv

\* What a stop owes is in the record, or is the launch it will wait for.
LEMMA StopKeeps ==
  ASSUME IInv, NEW p \in Requests, NEW b \in Bots, Stop(p, b)
  PROVE  IInv'
<1>. USE DEF Stop, Called, Awaited, Standing
<1>0. ASSUME NEW x \in Requests, BeingClosed(x) PROVE BeingClosed(x)'
  BY <1>0, ClosingGoesOn DEF IInv, TypeOK
<1>1. TypeOK'
  BY DEF IInv, TypeOK, ChromeIsLaunched, OrderOfUse, Stage
<1>2. CallsAreWhole'
  BY DEF IInv, TypeOK, CallsAreWhole
<1>3. ChromeIsLaunched'
  BY DEF IInv, TypeOK, ChromeIsLaunched, Launches, Exited
<1>4. TableIsTrue'
  BY DEF IInv, TypeOK, TableIsTrue, ChromeIsLaunched, Launches
<1>5. LaunchIsKnown'
  BY DEF IInv, TypeOK, LaunchIsKnown, Launches
<1>6. DroppedIsOver'
  BY DEF IInv, TypeOK, DroppedIsOver, ChromeIsLaunched, Launches
<1>7. RunningIsOnRecord'
  BY <1>0 DEF IInv, TypeOK, RunningIsOnRecord, ChromeIsLaunched
<1>8. LeavingIsLast'
  BY DEF IInv, TypeOK, LeavingIsLast, ShuttingDown, CallsAreWhole
<1>9. OwedIsFound'
  BY <1>0 DEF IInv, TypeOK, OwedIsFound, ChromeIsLaunched, TableIsTrue, Kept
<1>10. ExcessIsLeaving'
  BY DEF IInv, TypeOK, ExcessIsLeaving
<1>. QED BY <1>1, <1>2, <1>3, <1>4, <1>5, <1>6, <1>7, <1>8, <1>9, <1>10 DEF IInv

\* A reset owes the same, and holds the profile from now on.
LEMMA ResetKeeps ==
  ASSUME IInv, NEW p \in Requests, NEW b \in Bots, Reset(p, b)
  PROVE  IInv'
<1>. USE DEF Reset, Called, Awaited, Standing
<1>0. ASSUME NEW x \in Requests, BeingClosed(x) PROVE BeingClosed(x)'
  BY <1>0, ClosingGoesOn DEF IInv, TypeOK
<1>1. TypeOK'
  <2>1. closing' \in [Bots -> SUBSET Works]
    BY DEF IInv, TypeOK, Works
  <2>2. owed' \in [Requests -> SUBSET Requests]
    BY DEF IInv, TypeOK
  <2>. QED BY <2>1, <2>2 DEF IInv, TypeOK, OrderOfUse, ChromeIsLaunched, Stage
<1>2. CallsAreWhole'
  BY DEF IInv, TypeOK, CallsAreWhole
<1>3. ChromeIsLaunched'
  BY DEF IInv, TypeOK, ChromeIsLaunched, Launches, Exited
<1>4. TableIsTrue'
  BY DEF IInv, TypeOK, TableIsTrue, ChromeIsLaunched, Launches
<1>5. LaunchIsKnown'
  BY DEF IInv, TypeOK, LaunchIsKnown, Launches
<1>6. DroppedIsOver'
  BY DEF IInv, TypeOK, DroppedIsOver, ChromeIsLaunched, Launches
<1>7. RunningIsOnRecord'
  BY <1>0 DEF IInv, TypeOK, RunningIsOnRecord, ChromeIsLaunched
<1>8. LeavingIsLast'
  BY DEF IInv, TypeOK, LeavingIsLast, ShuttingDown, CallsAreWhole
<1>9. OwedIsFound'
  BY <1>0 DEF IInv, TypeOK, OwedIsFound, ChromeIsLaunched, TableIsTrue, Kept
<1>10. ExcessIsLeaving'
  BY DEF IInv, TypeOK, ExcessIsLeaving
<1>. QED BY <1>1, <1>2, <1>3, <1>4, <1>5, <1>6, <1>7, <1>8, <1>9, <1>10 DEF IInv

\* What the sweep is to close are Bots of the order of use.
LEMMA SweepIdleKeeps ==
  ASSUME IInv, NEW p \in Requests, SweepIdle(p)
  PROVE  IInv'
<1>. USE DEF SweepIdle, Called
<1>0. ASSUME NEW x \in Requests, BeingClosed(x) PROVE BeingClosed(x)'
  BY <1>0, ClosingGoesOn DEF IInv, TypeOK
<1>1. TypeOK'
  BY DEF IInv, TypeOK, ChromeIsLaunched, OrderOfUse, Stage
<1>2. CallsAreWhole'
  BY DEF IInv, TypeOK, CallsAreWhole
<1>3. ChromeIsLaunched'
  BY DEF IInv, TypeOK, ChromeIsLaunched, Launches, Exited
<1>4. TableIsTrue'
  BY DEF IInv, TypeOK, TableIsTrue, ChromeIsLaunched, Launches
<1>5. LaunchIsKnown'
  BY DEF IInv, TypeOK, LaunchIsKnown, Launches
<1>6. DroppedIsOver'
  BY DEF IInv, TypeOK, DroppedIsOver, ChromeIsLaunched, Launches
<1>7. RunningIsOnRecord'
  BY <1>0 DEF IInv, TypeOK, RunningIsOnRecord, ChromeIsLaunched
<1>8. LeavingIsLast'
  BY DEF IInv, TypeOK, LeavingIsLast
<1>9. OwedIsFound'
  BY <1>0 DEF IInv, TypeOK, OwedIsFound, CallsAreWhole, Kept
<1>10. ExcessIsLeaving'
  BY DEF IInv, TypeOK, ExcessIsLeaving
<1>. QED BY <1>1, <1>2, <1>3, <1>4, <1>5, <1>6, <1>7, <1>8, <1>9, <1>10 DEF IInv

\* Every record is cleared, and every browser of a record is leaving.
LEMMA CloseAllKeeps ==
  ASSUME IInv, NEW p \in Requests, CloseAll(p)
  PROVE  IInv'
<1>. USE DEF CloseAll, Called
<1>0. ASSUME NEW x \in Requests, BeingClosed(x) PROVE BeingClosed(x)'
  BY <1>0, ClosingGoesOn DEF IInv, TypeOK, LeavingIsLast
<1>1. TypeOK'
  BY DEF IInv, TypeOK, ChromeIsLaunched, OrderOfUse, Stage
<1>2. CallsAreWhole'
  BY DEF IInv, TypeOK, CallsAreWhole
<1>3. ChromeIsLaunched'
  BY DEF IInv, TypeOK, ChromeIsLaunched, Launches, Exited
<1>4. TableIsTrue'
  BY DEF IInv, TypeOK, TableIsTrue, Launches
<1>5. LaunchIsKnown'
  BY DEF IInv, TypeOK, LaunchIsKnown, CallsAreWhole, Launches
<1>6. DroppedIsOver'
  BY DEF IInv, TypeOK, DroppedIsOver, ChromeIsLaunched, Launches
<1>7. RunningIsOnRecord'
  <2>1. ASSUME NEW c \in Requests, chrome[c] \in {"up", "pageless"}, BotOf(c) \notin raced,
               ~BeingClosed(c)'
        PROVE  FALSE
    <3>1. live[BotOf(c)] = c /\ BotOf(c) \in Bots
      BY <1>0, <2>1 DEF IInv, TypeOK, CallsAreWhole, RunningIsOnRecord
    <3>2. c \in leaving'
      BY <3>1
    <3>. QED BY <2>1, <3>2 DEF BeingClosed
  <2>2. ASSUME NEW c \in Requests, chrome[c] \in {"up", "pageless"}
        PROVE  BotOf(c)' = BotOf(c)
    BY <2>2 DEF IInv, TypeOK, ChromeIsLaunched
  <2>. QED BY <2>1, <2>2 DEF RunningIsOnRecord
<1>8. LeavingIsLast'
  BY DEF IInv, TypeOK, LeavingIsLast, ShuttingDown
<1>9. OwedIsFound'
  BY <1>0 DEF IInv, TypeOK, OwedIsFound, CallsAreWhole, Kept
<1>10. ExcessIsLeaving'
  BY DEF IInv, TypeOK, ExcessIsLeaving
<1>. QED BY <1>1, <1>2, <1>3, <1>4, <1>5, <1>6, <1>7, <1>8, <1>9, <1>10 DEF IInv

-----------------------------------------------------------------------------
(* A page: what a call does when the close it waited for is over.          *)

\* It joins a launch that is still going.
LEMMA JoinKeeps ==
  ASSUME IInv, NEW p \in Requests, Join(p, BotOf(p)),
         at[p] = "held", ~Exited, UNCHANGED <<closing, leaving, ask, held, victims, history, mishaps>>
  PROVE  IInv'
<1>. USE DEF Join, Joined
<1>a. Kind(p) = "page" /\ BotOf(p) \in Bots
  BY DEF IInv, CallsAreWhole
<1>0. ASSUME NEW x \in Requests, BeingClosed(x) PROVE BeingClosed(x)'
  BY <1>0, ClosingGoesOn DEF IInv, TypeOK
<1>1. TypeOK'
  BY <1>a DEF IInv, TypeOK, OrderOfUse, Stage
<1>2. CallsAreWhole'
  BY <1>a DEF IInv, TypeOK, CallsAreWhole
<1>3. (ChromeIsLaunched /\ TableIsTrue /\ LaunchIsKnown /\ DroppedIsOver /\ RunningIsOnRecord
         /\ LeavingIsLast)'
  <2>1. /\ at[p] = "held" /\ at'[p] = "joined" /\ ~Exited
        /\ UNCHANGED <<table, chrome, leaving, ask, raced>>
        /\ \A q \in Requests \ {p} : at'[q] = at[q] /\ ctx'[q] = ctx[q]
    BY <1>a DEF IInv, TypeOK
  <2>. QED BY <1>0, <1>1, <2>1, OneMoves
<1>4. OwedIsFound'
  BY <1>0, <1>a DEF IInv, TypeOK, OwedIsFound, Kept
<1>5. ExcessIsLeaving'
  BY <1>a DEF IInv, TypeOK, ExcessIsLeaving
<1>. QED BY <1>1, <1>2, <1>3, <1>4, <1>5 DEF IInv

\* It is handed the browser, whose Bot is used last from now on.
LEMMA HandKeeps ==
  ASSUME IInv, NEW p \in Requests, Hand(p, BotOf(p)),
         at[p] = "held", ~Exited, UNCHANGED <<closing, leaving, ask, held, victims, history, mishaps>>
  PROVE  IInv'
<1>. DEFINE b == BotOf(p)
<1>a. /\ Kind(p) = "page" /\ b \in Bots /\ live[b] # None
      /\ recent' = Append(Without(b), b)
      /\ ctx' = [ctx EXCEPT ![p] = live[b]] /\ at' = [at EXCEPT ![p] = "done"]
      /\ UNCHANGED <<live, starting, chrome, on, closing, leaving, ask, held, victims, history, mishaps>>
  BY DEF Hand, IInv, CallsAreWhole
<1>b. OrderOfUse' /\ Len(recent') = Len(recent)
  BY <1>a, OrderAppended DEF IInv, TypeOK
<1>0. ASSUME NEW x \in Requests, BeingClosed(x) PROVE BeingClosed(x)'
  BY <1>0, <1>a, ClosingGoesOn DEF IInv, TypeOK
<1>1. TypeOK'
  BY <1>a, <1>b DEF IInv, TypeOK, Stage
<1>2. CallsAreWhole'
  BY <1>a DEF IInv, TypeOK, CallsAreWhole
<1>3. ChromeIsLaunched'
  BY <1>a DEF IInv, TypeOK, ChromeIsLaunched, Launches
<1>4. TableIsTrue'
  BY <1>a DEF IInv, TypeOK, TableIsTrue, Launches
<1>5. LaunchIsKnown'
  BY <1>a DEF IInv, TypeOK, LaunchIsKnown, Launches
<1>6. DroppedIsOver'
  BY <1>a DEF IInv, TypeOK, DroppedIsOver, Launches
<1>7. RunningIsOnRecord'
  BY <1>0, <1>a DEF IInv, TypeOK, RunningIsOnRecord
<1>8. LeavingIsLast'
  BY <1>a DEF IInv, TypeOK, LeavingIsLast, ShuttingDown
<1>9. OwedIsFound'
  BY <1>0, <1>a DEF IInv, TypeOK, OwedIsFound, Kept
<1>10. ExcessIsLeaving'
  BY <1>a, <1>b DEF IInv, TypeOK, ExcessIsLeaving
<1>. QED BY <1>1, <1>2, <1>3, <1>4, <1>5, <1>6, <1>7, <1>8, <1>9, <1>10 DEF IInv

\* It drops a browser that is no page any more; nobody launches it.
LEMMA DropHalfDeadKeeps ==
  ASSUME IInv, NEW p \in Requests, DropHalfDead(p, BotOf(p)),
         at[p] = "held", ~Exited, UNCHANGED <<closing, leaving, ask, held, victims, history, mishaps>>
  PROVE  IInv'
<1>. DEFINE b == BotOf(p)
<1>a. PICK s \in {"dropping", "redropping"} :
        /\ Kind(p) = "page" /\ b \in Bots /\ starting[b] = None /\ live[b] # None /\ chrome[live[b]] # "up"
        /\ chrome' = [chrome EXCEPT ![live[b]] = IF @ = "pageless" THEN "ending" ELSE @]
        /\ ctx' = [ctx EXCEPT ![p] = live[b]] /\ at' = [at EXCEPT ![p] = s]
        /\ UNCHANGED <<table, on, closing, leaving, ask, held, victims, history, mishaps>>
  BY DEF DropHalfDead, Joined, IInv, CallsAreWhole
<1>b. /\ live[b] \in Requests /\ live[b] # p /\ BotOf(live[b]) = b
      /\ chrome[live[b]] \in {"pageless", "crashed", "ending", "gone"}
  BY <1>a DEF IInv, TypeOK, ChromeIsLaunched, TableIsTrue
<1>c. \A x \in Requests :
        /\ chrome'[x] = chrome[x] \/ (chrome[x] = "pageless" /\ chrome'[x] = "ending")
        /\ x # p => at'[x] = at[x] /\ ctx'[x] = ctx[x]
  BY <1>a, <1>b DEF IInv, TypeOK
<1>e. /\ at'[p] \in {"dropping", "redropping"} /\ ctx'[p] = live[b]
      /\ chrome'[live[b]] \in {"ending", "crashed", "gone"}
  BY <1>a, <1>b DEF IInv, TypeOK
<1>d. UNCHANGED <<live, starting, leaving, ask, victims, owed, raced, on>>
  BY <1>a
<1>0. ASSUME NEW x \in Requests, BeingClosed(x) PROVE BeingClosed(x)'
  BY <1>0, <1>a, ClosingGoesOn DEF IInv, TypeOK
<1>1. TypeOK'
  <2>1. /\ chrome' \in [Requests -> {"none", "opening", "up", "pageless", "crashed", "ending", "gone"}]
        /\ at' \in [Requests -> Stage] /\ ctx' \in [Requests -> Requests \union {None}]
    BY <1>a, <1>b DEF IInv, TypeOK, Stage
  <2>2. OrderOfUse'
    BY <1>a DEF IInv, TypeOK, OrderOfUse
  <2>3. \A x \in Requests : chrome'[x] # "none" => Kind(x) = "page"
    BY <1>c DEF IInv, TypeOK
  <2>. QED BY <1>a, <2>1, <2>2, <2>3 DEF IInv, TypeOK
<1>2. CallsAreWhole'
  BY <1>a, <1>b DEF IInv, TypeOK, CallsAreWhole
<1>3. ChromeIsLaunched'
  BY <1>c, <1>d, <1>e DEF IInv, ChromeIsLaunched, Launches, Exited
<1>4. TableIsTrue'
  <2>1. ASSUME NEW x \in Bots, starting[x] # None
        PROVE  Launches(starting[x])' /\ BotOf(starting[x]) = x
    <3>1. starting[x] \in Requests /\ Launches(starting[x]) /\ BotOf(starting[x]) = x
      BY <2>1 DEF IInv, TypeOK, TableIsTrue
    <3>2. starting[x] # p
      BY <3>1 DEF Launches
    <3>. QED BY <1>c, <1>d, <3>1, <3>2 DEF Launches
  <2>2. ASSUME NEW x \in Bots, live[x] # None
        PROVE  BotOf(live[x]) = x /\ chrome'[live[x]] \notin {"none", "opening"}
    <3>1. live[x] \in Requests /\ BotOf(live[x]) = x /\ chrome[live[x]] \notin {"none", "opening"}
      BY <2>2 DEF IInv, TypeOK, TableIsTrue
    <3>. QED BY <1>c, <3>1
  <2>. QED BY <1>d, <2>1, <2>2 DEF TableIsTrue
<1>5. LaunchIsKnown'
  BY <1>a, <1>b DEF IInv, TypeOK, LaunchIsKnown, Launches
<1>6. DroppedIsOver'
  <2>1. ASSUME NEW q \in Requests, at'[q] \in {"dropping", "redropping"}
        PROVE  /\ chrome'[ctx'[q]] \in {"ending", "crashed", "gone"} /\ BotOf(ctx'[q]) = BotOf(q)
               /\ BotOf(q) \notin raced => ~Launches(ctx'[q])
    <3>1. CASE q = p
      BY <1>a, <1>b, <1>e, <3>1 DEF IInv, LaunchIsKnown
    <3>2. CASE q # p
      <4>1. ctx'[q] = ctx[q] /\ at'[q] = at[q] /\ ctx[q] \in Requests
        BY <1>c, <2>1, <3>2 DEF IInv, TypeOK, CallsAreWhole
      <4>. QED BY <1>c, <2>1, <4>1 DEF IInv, DroppedIsOver
    <3>. QED BY <3>1, <3>2
  <2>2. \A x \in Requests : Launches(x)' => Launches(x)
    BY <1>c, <1>d, <1>e DEF Launches
  <2>3. \A q \in Requests : at'[q] \in {"dropping", "redropping"} => ctx'[q] \in Requests
    <3>1. ASSUME NEW q \in Requests \ {p}, at[q] \in {"dropping", "redropping"} PROVE ctx[q] \in Requests
      BY <3>1 DEF IInv, TypeOK, CallsAreWhole
    <3>. QED BY <1>b, <1>c, <1>e, <3>1
  <2>. QED BY <1>d, <2>1, <2>2, <2>3 DEF DroppedIsOver
<1>7. RunningIsOnRecord'
  BY <1>0, <1>a, <1>b DEF IInv, TypeOK, RunningIsOnRecord
<1>8. LeavingIsLast'
  BY <1>a, <1>b DEF IInv, TypeOK, LeavingIsLast, ShuttingDown
<1>9. OwedIsFound'
  <2>1. \A x \in Bots \union {None} : Kept(x)' \subseteq Kept(x)
    BY <1>0, <1>c, <1>d DEF Kept
  <2>2. \A q \in Requests : BotOf(q) \in Bots \union {None}
    BY DEF IInv, TypeOK
  <2>3. ASSUME NEW q \in Requests, NEW c \in owed[q]
        PROVE  /\ chrome'[c] # "none"
               /\ chrome'[c] = "opening" => at'[q] = "awaiting" /\ on'[q] = c
    BY <1>c, <1>d DEF IInv, TypeOK, OwedIsFound
  <2>4. \A q \in Requests : at'[q] \in {"announcing", "closing", "deleting", "done", "evicting"}
                             => at'[q] = at[q]
    BY <1>c, <1>e
  <2>. QED BY <1>d, <2>1, <2>2, <2>3, <2>4 DEF IInv, OwedIsFound
<1>10. ExcessIsLeaving'
  BY <1>a, <1>b DEF IInv, TypeOK, ExcessIsLeaving
<1>. QED BY <1>1, <1>2, <1>3, <1>4, <1>5, <1>6, <1>7, <1>8, <1>9, <1>10 DEF IInv

\* It launches: nothing of this Bot launches, and nothing is in the record.
LEMMA StartKeeps ==
  ASSUME IInv, NEW p \in Requests, Start(p, BotOf(p)),
         at[p] = "held", ~Exited, UNCHANGED <<closing, leaving, ask, held, victims, history, mishaps>>
  PROVE  IInv'
<1>. USE DEF Start, Joined, Launch
<1>a. Kind(p) = "page" /\ BotOf(p) \in Bots
  BY DEF IInv, CallsAreWhole
<1>0. ASSUME NEW x \in Requests, BeingClosed(x) PROVE BeingClosed(x)'
  BY <1>0, ClosingGoesOn DEF IInv, TypeOK
<1>1. TypeOK'
  BY <1>a DEF IInv, TypeOK, OrderOfUse, Stage
<1>2. CallsAreWhole'
  BY <1>a DEF IInv, TypeOK, CallsAreWhole
<1>3. ChromeIsLaunched'
  BY <1>a DEF IInv, TypeOK, ChromeIsLaunched, Launches
<1>4. TableIsTrue'
  BY <1>a DEF IInv, TypeOK, TableIsTrue, Launches
<1>5. LaunchIsKnown'
  BY <1>a DEF IInv, TypeOK, LaunchIsKnown, Launches
<1>6. DroppedIsOver'
  BY <1>a DEF IInv, TypeOK, DroppedIsOver, ChromeIsLaunched, Launches
<1>7. RunningIsOnRecord'
  BY <1>0, <1>a DEF IInv, TypeOK, RunningIsOnRecord
<1>8. LeavingIsLast'
  BY <1>a DEF IInv, TypeOK, LeavingIsLast, ShuttingDown
<1>9. OwedIsFound'
  BY <1>0, <1>a DEF IInv, TypeOK, OwedIsFound, ChromeIsLaunched, Kept
<1>10. ExcessIsLeaving'
  <2>1. UNCHANGED <<recent, live, victims>> /\ \A q \in Requests : at[q] = "evicting" => at'[q] = "evicting"
    BY DEF IInv, TypeOK
  <2>. QED BY <2>1 DEF IInv, ExcessIsLeaving
<1>. QED BY <1>1, <1>2, <1>3, <1>4, <1>5, <1>6, <1>7, <1>8, <1>9, <1>10 DEF IInv

\* A replacement beside another browser is what makes a Bot raced; alone, it is a launch.
LEMMA ReplaceKeeps ==
  ASSUME IInv, NEW p \in Requests, Replace(p)
  PROVE  IInv'
<1>. DEFINE b == BotOf(p)
<1>a. /\ at[p] \in {"dropping", "redropping"} /\ ~Exited
      /\ Kind(p) = "page" /\ b \in Bots
      /\ live' = [live EXCEPT ![b] = None] /\ starting' = [starting EXCEPT ![b] = p]
      /\ chrome' = [chrome EXCEPT ![p] = "opening"] /\ at' = [at EXCEPT ![p] = "launching"]
      /\ raced \subseteq raced' /\ raced' \subseteq raced \union {b}
      /\ b \notin raced' => live[b] \in {None, ctx[p]} /\ starting[b] \in {None, ctx[p]}
      /\ UNCHANGED <<closing, leaving, ask, waits, victims, ctx, owed, mishaps>>
  BY DEF Replace, Launch, Standing, IInv, CallsAreWhole
<1>b. OrderOfUse' /\ Len(recent') = IF live[b] = None THEN Len(recent) ELSE Len(recent) - 1
  BY <1>a, OrderWithout DEF Replace, IInv, TypeOK
<1>0. ASSUME NEW x \in Requests, BeingClosed(x) PROVE BeingClosed(x)'
  BY <1>0, <1>a, ClosingGoesOn DEF IInv, TypeOK
<1>1. TypeOK'
  BY <1>a, <1>b DEF IInv, TypeOK, Stage
<1>2. CallsAreWhole'
  BY <1>a DEF IInv, TypeOK, CallsAreWhole
<1>3. ChromeIsLaunched'
  BY <1>a DEF IInv, TypeOK, ChromeIsLaunched, Launches
<1>4. TableIsTrue'
  BY <1>a DEF IInv, TypeOK, TableIsTrue, Launches
<1>5. LaunchIsKnown'
  BY <1>a DEF IInv, TypeOK, LaunchIsKnown, DroppedIsOver, Launches
<1>6. DroppedIsOver'
  BY <1>a DEF IInv, TypeOK, DroppedIsOver, ChromeIsLaunched, Launches
<1>7. RunningIsOnRecord'
  <2>1. ASSUME NEW c \in Requests, chrome[c] \in {"up", "pageless"}, live[b] = c PROVE b \in raced'
    BY <1>a, <2>1 DEF IInv, DroppedIsOver
  <2>. QED BY <1>0, <1>a, <2>1 DEF IInv, TypeOK, RunningIsOnRecord
<1>8. LeavingIsLast'
  BY <1>a DEF IInv, TypeOK, LeavingIsLast, ShuttingDown
<1>9. OwedIsFound'
  BY <1>0, <1>a DEF IInv, TypeOK, OwedIsFound, ChromeIsLaunched, Kept
<1>10. ExcessIsLeaving'
  <2>1. CASE live[b] = None
    <3>1. live' = live /\ Len(recent') = Len(recent)
      BY <1>a, <1>b, <2>1 DEF IInv, TypeOK
    <3>2. \A q \in Requests : at[q] = "evicting" => at'[q] = "evicting"
      BY <1>a DEF IInv, TypeOK
    <3>. QED BY <1>a, <3>1, <3>2 DEF IInv, ExcessIsLeaving
  <2>2. CASE live[b] # None
    BY <1>a, <1>b, <2>2 DEF IInv, TypeOK, ExcessIsLeaving
  <2>. QED BY <2>1, <2>2
<1>. QED BY <1>1, <1>2, <1>3, <1>4, <1>5, <1>6, <1>7, <1>8, <1>9, <1>10 DEF IInv

\* A call that joined a launch ends as the launch did.
LEMMA JoinReturnsKeeps ==
  ASSUME IInv, NEW p \in Requests, JoinReturns(p)
  PROVE  IInv'
<1>. USE DEF JoinReturns, Runnable, Over
<1>0. ASSUME NEW x \in Requests, BeingClosed(x) PROVE BeingClosed(x)'
  BY <1>0, ClosingGoesOn DEF IInv, TypeOK
<1>1. TypeOK'
  BY DEF IInv, TypeOK, CallsAreWhole, OrderOfUse
<1>2. CallsAreWhole'
  BY DEF IInv, TypeOK, CallsAreWhole
<1>3. (ChromeIsLaunched /\ TableIsTrue /\ LaunchIsKnown /\ DroppedIsOver /\ RunningIsOnRecord
         /\ LeavingIsLast)'
  <2>1. /\ at[p] = "joined" /\ at'[p] \in {"done", "failed"} /\ ~Exited
        /\ UNCHANGED <<table, chrome, leaving, ask, raced>>
        /\ \A q \in Requests \ {p} : at'[q] = at[q] /\ ctx'[q] = ctx[q]
    BY DEF IInv, TypeOK, CallsAreWhole
  <2>. QED BY <1>0, <1>1, <2>1, OneMoves
<1>4. OwedIsFound'
  BY <1>0 DEF IInv, TypeOK, OwedIsFound, CallsAreWhole, Kept
<1>5. ExcessIsLeaving'
  BY DEF IInv, TypeOK, ExcessIsLeaving
<1>. QED BY <1>1, <1>2, <1>3, <1>4, <1>5 DEF IInv

\* The launch a stop waited for is over: if it came up, it is in the record, and is closed next.
LEMMA StopWaitingKeeps ==
  ASSUME IInv, NEW p \in Requests, StopWaiting(p)
  PROVE  IInv'
<1>a. /\ at[p] = "awaiting" /\ at'[p] = "evicting" /\ ~Exited
      /\ Kind(p) \in {"stop", "reset"} /\ BotOf(p) \in Bots
      /\ \A q \in Requests \ {p} : at'[q] = at[q]
      /\ at' \in [Requests -> Stage]
      /\ victims' = [victims EXCEPT ![p] = <<BotOf(p)>>]
      /\ owed' = owed \/ owed' = [owed EXCEPT ![p] = {}]
      /\ mishaps' \in 0..MaxMishaps
      /\ UNCHANGED <<table, closing, chrome, leaving, ask, waits, ctx, raced>>
  BY DEF StopWaiting, Fault, Quiet, IInv, TypeOK, CallsAreWhole, Stage
<1>0. ASSUME NEW x \in Requests, BeingClosed(x) PROVE BeingClosed(x)'
  BY <1>0, <1>a, ClosingGoesOn DEF IInv, TypeOK
<1>1. TypeOK'
  <2>1. victims' \in [Requests -> Seq(Bots)]
    BY <1>a DEF IInv, TypeOK
  <2>2. owed' \in [Requests -> SUBSET Requests]
    <3>1. CASE owed' = owed
      BY <3>1 DEF IInv, TypeOK
    <3>2. CASE owed' = [owed EXCEPT ![p] = {}]
      BY <3>2 DEF IInv, TypeOK
    <3>. QED BY <1>a, <3>1, <3>2
  <2>. QED BY <1>a, <2>1, <2>2 DEF IInv, TypeOK, OrderOfUse
<1>2. CallsAreWhole'
  BY <1>a DEF IInv, TypeOK, CallsAreWhole
<1>3. (ChromeIsLaunched /\ TableIsTrue /\ LaunchIsKnown /\ DroppedIsOver /\ RunningIsOnRecord
         /\ LeavingIsLast)'
  BY <1>0, <1>a, <1>1, OneMoves DEF IInv, TypeOK
<1>4. OwedIsFound'
  BY <1>0 DEF IInv, TypeOK, OwedIsFound, ChromeIsLaunched, Kept, StopWaiting, Runnable, Fault, Over
<1>5. ExcessIsLeaving'
  BY <1>a DEF IInv, TypeOK, ExcessIsLeaving
<1>. QED BY <1>1, <1>2, <1>3, <1>4, <1>5 DEF IInv

\* The launched browser takes the record; one record too many is the head of what it evicts.
LEMMA LaunchedKeeps ==
  ASSUME IInv, NEW p \in Requests, Launched(p)
  PROVE  IInv'
<1>. DEFINE b == BotOf(p)
<1>a. /\ at[p] = "launching" /\ ~Exited /\ Kind(p) = "page" /\ b \in Bots
      /\ chrome' = [chrome EXCEPT ![p] = "up"] /\ live' = [live EXCEPT ![b] = p]
      /\ ctx' = [ctx EXCEPT ![p] = None] /\ at' = [at EXCEPT ![p] = "evicting"]
      /\ victims' = [victims EXCEPT ![p] = Overfull(recent')]
      /\ UNCHANGED <<starting, closing, leaving, ask, waits, history, mishaps>>
  BY DEF Launched, IInv, CallsAreWhole, Quiet
<1>b. OrderOfUse' /\ Len(recent') \in {Len(recent), Len(recent) + 1}
  <2>1. recent' = Append(Without(b), b)
    BY DEF Launched
  <2>2. live' \in [Bots -> Requests \union {None}] /\ live'[b] # None
        /\ \A x \in Bots \ {b} : live'[x] = live[x]
    BY <1>a DEF IInv, TypeOK
  <2>. QED BY <1>a, <2>1, <2>2, OrderAppended DEF IInv, TypeOK
<1>c. Len(recent') <= MaxBrowsers + 1
  BY <1>b DEF IInv, TypeOK, ExcessIsLeaving, Launched, Quiet, Runnable
<1>d. /\ Overfull(recent') \in Seq(Bots)
      /\ Len(recent') = MaxBrowsers + 1 =>
           /\ Overfull(recent') # <<>> /\ Head(Overfull(recent')) = recent'[1]
           /\ live'[recent'[1]] # None
  <2>. DEFINE r == recent'
  <2>1. /\ r \in Seq(Bots) /\ Len(r) \in Nat /\ Len(r) - MaxBrowsers \in Int
        /\ \A i \in 1..Len(r) : r[i] \in Bots /\ live'[r[i]] # None
    BY <1>b DEF OrderOfUse
  <2>2. \A i \in 1..(Len(r) - MaxBrowsers) : r[i] \in Bots
    BY <2>1
  <2>. HIDE DEF r
  <2>3. /\ SubSeq(r, 1, Len(r) - MaxBrowsers) \in Seq(Bots)
        /\ Len(r) = MaxBrowsers + 1 => /\ Len(SubSeq(r, 1, 1)) = 1 /\ SubSeq(r, 1, 1)[1] = r[1]
                                      /\ SubSeq(r, 1, 1) \in Seq(Bots)
    BY <2>1, <2>2, SubSeqProperties, Z3
  <2>4. Len(r) = MaxBrowsers + 1 => SubSeq(r, 1, Len(r) - MaxBrowsers) = SubSeq(r, 1, 1)
    <3>1. Len(r) = MaxBrowsers + 1 => Len(r) - MaxBrowsers = 1
      BY <2>1
    <3>. QED BY <3>1, Zenon
  <2>5. Overfull(r) = SubSeq(r, 1, Len(r) - MaxBrowsers)
    BY DEF Overfull
  <2>6. ASSUME Len(r) = MaxBrowsers + 1 PROVE Overfull(r) # <<>> /\ Head(Overfull(r)) = r[1]
    BY <2>3, <2>4, <2>5, <2>6
  <2>7. 1 \in 1..Len(r) \/ Len(r) # MaxBrowsers + 1
    BY <2>1
  <2>. QED BY <2>1, <2>3, <2>5, <2>6, <2>7 DEF r
<1>0. ASSUME NEW x \in Requests, BeingClosed(x) PROVE BeingClosed(x)'
  BY <1>0, <1>a, ClosingGoesOn DEF IInv, TypeOK
<1>1. TypeOK'
  BY <1>a, <1>b, <1>d DEF IInv, TypeOK, Stage
<1>2. CallsAreWhole'
  BY <1>a DEF IInv, TypeOK, CallsAreWhole
<1>3. ChromeIsLaunched'
  BY <1>a DEF IInv, TypeOK, ChromeIsLaunched, Launches
<1>4. TableIsTrue'
  BY <1>a DEF IInv, TypeOK, TableIsTrue, Launches
<1>5. LaunchIsKnown'
  BY <1>a DEF IInv, TypeOK, LaunchIsKnown, Launches
<1>6. DroppedIsOver'
  BY <1>a DEF IInv, TypeOK, DroppedIsOver, ChromeIsLaunched, Launches
<1>7. RunningIsOnRecord'
  BY <1>0, <1>a DEF IInv, TypeOK, RunningIsOnRecord, LaunchIsKnown, Launches
<1>8. LeavingIsLast'
  BY <1>a DEF IInv, TypeOK, LeavingIsLast, ShuttingDown
<1>9. OwedIsFound'
  BY <1>0, <1>a DEF IInv, TypeOK, OwedIsFound, ChromeIsLaunched, Kept
<1>10. ExcessIsLeaving'
  <2>1. CASE Len(recent') <= MaxBrowsers
    BY <2>1 DEF ExcessIsLeaving
  <2>2. CASE Len(recent') = MaxBrowsers + 1
    <3>1. at'[p] = "evicting" /\ victims'[p] # <<>> /\ live'[Head(victims'[p])] # None
      BY <1>a, <1>d, <2>2 DEF IInv, TypeOK
    <3>. QED BY <2>2, <3>1 DEF ExcessIsLeaving
  <2>. QED BY <1>b, <1>c, <2>1, <2>2
<1>. QED BY <1>1, <1>2, <1>3, <1>4, <1>5, <1>6, <1>7, <1>8, <1>9, <1>10 DEF IInv

\* A launch that failed leaves neither a browser nor an entry.
LEMMA LaunchFailedKeeps ==
  ASSUME IInv, NEW p \in Requests, LaunchFailed(p)
  PROVE  IInv'
<1>. USE DEF LaunchFailed, Fault, Unstarted
<1>0. ASSUME NEW x \in Requests, BeingClosed(x) PROVE BeingClosed(x)'
  BY <1>0, ClosingGoesOn DEF IInv, TypeOK
<1>1. TypeOK'
  BY DEF IInv, TypeOK, CallsAreWhole, OrderOfUse, Stage
<1>2. CallsAreWhole'
  BY DEF IInv, TypeOK, CallsAreWhole
<1>3. ChromeIsLaunched'
  BY DEF IInv, TypeOK, ChromeIsLaunched, Launches, Exited
<1>4. TableIsTrue'
  BY DEF IInv, TypeOK, TableIsTrue, Launches
<1>5. LaunchIsKnown'
  BY DEF IInv, TypeOK, LaunchIsKnown, CallsAreWhole, Launches
<1>6. DroppedIsOver'
  BY DEF IInv, TypeOK, DroppedIsOver, Launches
<1>7. RunningIsOnRecord'
  BY <1>0 DEF IInv, TypeOK, RunningIsOnRecord
<1>8. LeavingIsLast'
  BY DEF IInv, TypeOK, LeavingIsLast, ShuttingDown
<1>9. OwedIsFound'
  BY <1>0 DEF IInv, TypeOK, OwedIsFound, Kept
<1>10. ExcessIsLeaving'
  BY DEF IInv, TypeOK, ExcessIsLeaving, Quiet, Runnable
<1>. QED BY <1>1, <1>2, <1>3, <1>4, <1>5, <1>6, <1>7, <1>8, <1>9, <1>10 DEF IInv

-----------------------------------------------------------------------------
(* A close.                                                                *)

\* A victim without a record: nothing of its Bot is kept that was owed.
LEMMA EvictNothingKeeps ==
  ASSUME IInv, NEW p \in Requests, Evict(p), live[Head(victims[p])] = None
  PROVE  IInv'
<1>a. /\ at[p] = "evicting" /\ victims[p] # <<>> /\ ~Exited
      /\ victims' = [victims EXCEPT ![p] = Tail(@)] /\ live[Head(victims[p])] = None
      /\ UNCHANGED <<table, closing, at, ctx, chrome, leaving, ask, waits, history, mishaps>>
  BY DEF Evict
<1>b. /\ victims' \in [Requests -> Seq(Bots)]
      /\ Kind(p) \in {"stop", "reset"} => Head(victims[p]) = BotOf(p) /\ victims'[p] = <<>>
  <2>1. victims[p] \in Seq(Bots) /\ Tail(victims[p]) \in Seq(Bots)
    BY <1>a DEF IInv, TypeOK
  <2>2. Kind(p) \in {"stop", "reset"} => victims[p] = <<BotOf(p)>>
    BY <1>a DEF IInv, CallsAreWhole
  <2>3. \A x : Head(<<x>>) = x /\ Tail(<<x>>) = <<>>
    OBVIOUS
  <2>. QED BY <1>a, <2>1, <2>2, <2>3 DEF IInv, TypeOK
<1>0. ASSUME NEW x \in Requests, BeingClosed(x) PROVE BeingClosed(x)'
  BY <1>0, <1>a, ClosingGoesOn DEF IInv, TypeOK
<1>1. TypeOK'
  BY <1>a DEF IInv, TypeOK, OrderOfUse
<1>2. CallsAreWhole'
  BY <1>a, <1>b DEF IInv, CallsAreWhole
<1>3. (ChromeIsLaunched /\ TableIsTrue /\ LaunchIsKnown /\ DroppedIsOver /\ RunningIsOnRecord
         /\ LeavingIsLast)'
  BY <1>0, <1>a, <1>1, OneMoves DEF IInv, TypeOK
<1>4. OwedIsFound'
  <2>1. ASSUME NEW c \in owed[p] \intersect Kept(BotOf(p)), BotOf(p) \notin raced PROVE FALSE
    <3>1. c \in Requests /\ Kind(p) \in {"stop", "reset"} /\ BotOf(c) = BotOf(p)
      BY DEF IInv, TypeOK, OwedIsFound
    <3>2. chrome[c] \in {"up", "pageless"} /\ ~BeingClosed(c)
      BY <1>a DEF IInv, OwedIsFound, Kept
    <3>3. live[BotOf(p)] = c
      BY <2>1, <3>1, <3>2 DEF IInv, RunningIsOnRecord
    <3>. QED BY <1>a, <1>b, <3>1, <3>3
  <2>2. \A b : Kept(b)' = Kept(b)
    BY <1>a DEF Kept, BeingClosed
  <2>3. OwedIsFound
    BY DEF IInv
  <2>. QED BY <1>a, <2>1, <2>2, <2>3 DEF OwedIsFound
<1>5. ExcessIsLeaving'
  <2>1. \A q \in Requests \ {p} : victims'[q] = victims[q]
    BY <1>a DEF IInv, TypeOK
  <2>. QED BY <1>a, <2>1 DEF IInv, ExcessIsLeaving
<1>. QED BY <1>1, <1>2, <1>3, <1>4, <1>5 DEF IInv

\* A victim with one: from now on the browser is being closed, and the record is free.
LEMMA EvictOneKeeps ==
  ASSUME IInv, NEW p \in Requests, Evict(p), live[Head(victims[p])] # None
  PROVE  IInv'
<1>. DEFINE b == Head(victims[p])
<1>a. /\ at[p] = "evicting" /\ victims[p] # <<>> /\ ~Exited
      /\ b \in Bots /\ live[b] # None
      /\ ctx' = [ctx EXCEPT ![p] = live[b]] /\ live' = [live EXCEPT ![b] = None]
      /\ closing' = [closing EXCEPT ![b] = @ \union {<<p, "close">>}]
      /\ at' = [at EXCEPT ![p] = "announcing"]
      /\ UNCHANGED <<victims, starting, chrome, leaving, ask, waits, history, mishaps>>
  BY DEF Evict, IInv, TypeOK
<1>b. OrderOfUse' /\ Len(recent') = Len(recent) - 1
  BY <1>a, OrderWithout DEF Evict, IInv, TypeOK
<1>c. ASSUME NEW c \in Requests, live[b] = c PROVE BeingClosed(c)'
  BY <1>a, <1>c DEF IInv, TypeOK, BeingClosed
<1>0. ASSUME NEW x \in Requests, BeingClosed(x) PROVE BeingClosed(x)'
  BY <1>0, <1>a, ClosingGoesOn DEF IInv, TypeOK
<1>1. TypeOK'
  <2>1. closing' \in [Bots -> SUBSET Works]
    BY <1>a DEF IInv, TypeOK, Works
  <2>. QED BY <1>a, <1>b, <2>1 DEF IInv, TypeOK, Stage
<1>2. CallsAreWhole'
  BY <1>a DEF IInv, TypeOK, CallsAreWhole
<1>3. ChromeIsLaunched'
  BY <1>a DEF IInv, TypeOK, ChromeIsLaunched, Launches
<1>4. TableIsTrue'
  BY <1>a DEF IInv, TypeOK, TableIsTrue, Launches
<1>5. LaunchIsKnown'
  BY <1>a DEF IInv, TypeOK, LaunchIsKnown, Launches
<1>6. DroppedIsOver'
  BY <1>a DEF IInv, TypeOK, DroppedIsOver, Launches
<1>7. RunningIsOnRecord'
  BY <1>0, <1>a, <1>c DEF IInv, TypeOK, RunningIsOnRecord
<1>8. LeavingIsLast'
  BY <1>a DEF IInv, TypeOK, LeavingIsLast, ShuttingDown
<1>9. OwedIsFound'
  <2>1. ASSUME NEW c \in owed[p] \intersect Kept(BotOf(p))', BotOf(p) \notin raced PROVE FALSE
    <3>1. c \in Requests /\ Kind(p) \in {"stop", "reset"} /\ BotOf(c) = BotOf(p)
      BY DEF IInv, TypeOK, OwedIsFound
    <3>2. chrome[c] \in {"up", "pageless"} /\ ~BeingClosed(c)'
      BY <1>a DEF IInv, OwedIsFound, Kept
    <3>3. live[BotOf(p)] = c
      BY <1>0, <2>1, <3>1, <3>2 DEF IInv, RunningIsOnRecord
    <3>4. b = BotOf(p)
      <4>1. victims[p] = <<BotOf(p)>>
        BY <1>a, <3>1 DEF IInv, CallsAreWhole
      <4>. QED BY <4>1
    <3>. QED BY <1>c, <3>1, <3>2, <3>3, <3>4
  <2>2. ASSUME NEW x, NEW c \in Kept(x)' PROVE c \in Kept(x)
    BY <1>0, <1>a DEF Kept
  <2>3. OwedIsFound /\ owed' = owed /\ \A q \in Requests \ {p} : at'[q] = at[q] /\ victims'[q] = victims[q]
    BY <1>a DEF IInv, TypeOK
  <2>. QED BY <1>a, <2>1, <2>2, <2>3 DEF OwedIsFound
<1>10. ExcessIsLeaving'
  BY <1>a, <1>b DEF IInv, TypeOK, ExcessIsLeaving
<1>. QED BY <1>1, <1>2, <1>3, <1>4, <1>5, <1>6, <1>7, <1>8, <1>9, <1>10 DEF IInv

\* Chromium is told to go, by the call that took it out of its record.
LEMMA AnnouncedKeeps ==
  ASSUME IInv, NEW p \in Requests, Announced(p)
  PROVE  IInv'
<1>. USE DEF Announced
<1>1. TypeOK'
  BY DEF IInv, TypeOK, CallsAreWhole, OrderOfUse, Stage
<1>2. CallsAreWhole'
  BY DEF IInv, TypeOK, CallsAreWhole
<1>3. (ChromeIsLaunched /\ TableIsTrue /\ LaunchIsKnown /\ DroppedIsOver /\ RunningIsOnRecord
         /\ LeavingIsLast /\ OwedIsFound /\ ExcessIsLeaving)'
  <2>1. /\ UNCHANGED <<table, leaving, ask, waits, victims, ctx, history>> /\ ~Exited
        /\ \A q \in Requests : \/ at'[q] = at[q]
                               \/ at[q] = "announcing" /\ at'[q] = "closing"
                               \/ at[q] = "leaving" /\ at'[q] = "exiting"
        /\ \A c \in Requests : \/ chrome'[c] = chrome[c]
                               \/ chrome[c] = "up" /\ chrome'[c] \in {"crashed", "pageless"}
                               \/ chrome[c] \in {"up", "pageless"} /\ chrome'[c] = "ending"
                               \/ chrome[c] = "ending" /\ chrome'[c] = "gone"
    BY DEF IInv, TypeOK, CallsAreWhole, Quiet
  <2>. QED BY <1>1, <2>1, BrowsersGo
<1>. QED BY <1>1, <1>2, <1>3 DEF IInv

\* The close is over: what it closed does not run.
LEMMA ClosedKeeps ==
  ASSUME IInv, NEW p \in Requests, Closed(p)
  PROVE  IInv'
<1>. USE DEF Closed
<1>0. ASSUME NEW x \in Requests, BeingClosed(x), chrome[x] \in {"opening", "up", "pageless"}
      PROVE  BeingClosed(x)'
  BY <1>0 DEF IInv, TypeOK, BeingClosed
<1>1. TypeOK'
  BY DEF IInv, TypeOK, CallsAreWhole, OrderOfUse, Stage
<1>2. CallsAreWhole'
  BY DEF IInv, TypeOK, CallsAreWhole
<1>3. (ChromeIsLaunched /\ TableIsTrue /\ LaunchIsKnown /\ DroppedIsOver /\ RunningIsOnRecord
         /\ LeavingIsLast)'
  <2>1. /\ at[p] = "closing" /\ at'[p] = "evicting" /\ ~Exited
        /\ UNCHANGED <<table, chrome, leaving, ask, raced>>
        /\ \A q \in Requests \ {p} : at'[q] = at[q] /\ ctx'[q] = ctx[q]
    BY DEF IInv, TypeOK, CallsAreWhole, Quiet
  <2>. QED BY <1>0, <1>1, <2>1, OneMoves
<1>4. OwedIsFound'
  BY <1>0 DEF IInv, TypeOK, OwedIsFound, ChromeIsLaunched, Kept
<1>5. ExcessIsLeaving'
  BY DEF IInv, TypeOK, ExcessIsLeaving, Quiet, Runnable
<1>. QED BY <1>1, <1>2, <1>3, <1>4, <1>5 DEF IInv

\* A launch answers: its entry goes, and the browser stays in the record.
LEMMA AnswerKeeps ==
  ASSUME IInv, NEW p \in Requests, Finish(p), Kind(p) = "page"
  PROVE  IInv'
<1>a. /\ at[p] = "evicting" /\ victims[p] = <<>> /\ ~Exited
      /\ Kind(p) = "page" /\ BotOf(p) \in Bots
      /\ starting' = [starting EXCEPT ![BotOf(p)] = None]
      /\ ctx' = [ctx EXCEPT ![p] = p] /\ at' = [at EXCEPT ![p] = "done"]
      /\ UNCHANGED <<live, recent, closing, chrome, leaving, ask, waits, victims, history, mishaps>>
  BY DEF Finish, Unstarted, IInv, CallsAreWhole
<1>0. ASSUME NEW x \in Requests, BeingClosed(x) PROVE BeingClosed(x)'
  BY <1>0, <1>a, ClosingGoesOn DEF IInv, TypeOK
<1>1. TypeOK'
  BY <1>a DEF IInv, TypeOK, OrderOfUse, Stage
<1>2. CallsAreWhole'
  BY <1>a DEF IInv, TypeOK, CallsAreWhole
<1>3. ChromeIsLaunched'
  BY <1>a DEF IInv, TypeOK, ChromeIsLaunched, Launches
<1>4. TableIsTrue'
  BY <1>a DEF IInv, TypeOK, TableIsTrue, Launches
<1>5. LaunchIsKnown'
  BY <1>a DEF IInv, TypeOK, LaunchIsKnown, Launches
<1>6. DroppedIsOver'
  BY <1>a DEF IInv, TypeOK, DroppedIsOver, Launches
<1>7. RunningIsOnRecord'
  BY <1>0, <1>a DEF IInv, TypeOK, RunningIsOnRecord
<1>8. LeavingIsLast'
  BY <1>a DEF IInv, TypeOK, LeavingIsLast, ShuttingDown
<1>9. OwedIsFound'
  BY <1>0, <1>a DEF IInv, TypeOK, OwedIsFound, Kept
<1>10. ExcessIsLeaving'
  <2>1. \A q \in Requests : at[q] = "evicting" /\ victims[q] # <<>> => at'[q] = "evicting"
    BY <1>a DEF IInv, TypeOK
  <2>2. UNCHANGED <<live, recent, victims>>
    BY <1>a
  <2>. QED BY <2>1, <2>2 DEF IInv, ExcessIsLeaving
<1>. QED BY <1>1, <1>2, <1>3, <1>4, <1>5, <1>6, <1>7, <1>8, <1>9, <1>10 DEF IInv

\* A stop, a reset or a sweep has nothing left to close.
LEMMA FinishKeeps ==
  ASSUME IInv, NEW p \in Requests, Finish(p), Kind(p) # "page"
  PROVE  IInv'
<1>a. PICK s \in {"done", "deleting"} :
        /\ at[p] = "evicting" /\ victims[p] = <<>> /\ ~Exited
        /\ Kind(p) \in {"stop", "reset", "idle"}
        /\ s = "deleting" => Kind(p) = "reset"
        /\ at' = [at EXCEPT ![p] = s]
        /\ UNCHANGED <<table, ctx, closing, chrome, leaving, ask, waits, victims, history, mishaps>>
  BY DEF Finish, IInv, CallsAreWhole
<1>0. ASSUME NEW x \in Requests, BeingClosed(x) PROVE BeingClosed(x)'
  BY <1>0, <1>a, ClosingGoesOn DEF IInv, TypeOK
<1>1. TypeOK'
  BY <1>a DEF IInv, TypeOK, OrderOfUse, Stage
<1>2. CallsAreWhole'
  BY <1>a DEF IInv, TypeOK, CallsAreWhole
<1>3. (ChromeIsLaunched /\ TableIsTrue /\ LaunchIsKnown /\ DroppedIsOver /\ RunningIsOnRecord
         /\ LeavingIsLast)'
  <2>1. /\ at[p] = "evicting" /\ at'[p] \in {"done", "deleting"} /\ Kind(p) # "page" /\ ~Exited
        /\ UNCHANGED <<table, chrome, leaving, ask, raced>>
        /\ \A q \in Requests \ {p} : at'[q] = at[q] /\ ctx'[q] = ctx[q]
    BY <1>a DEF IInv, TypeOK
  <2>. QED BY <1>0, <1>1, <2>1, OneMoves
<1>4. OwedIsFound'
  BY <1>0, <1>a DEF IInv, TypeOK, OwedIsFound, ChromeIsLaunched, Kept
<1>5. ExcessIsLeaving'
  BY <1>a DEF IInv, TypeOK, ExcessIsLeaving
<1>. QED BY <1>1, <1>2, <1>3, <1>4, <1>5 DEF IInv

\* A reset lets go of the profile.
LEMMA DeletedKeeps ==
  ASSUME IInv, NEW p \in Requests, Deleted(p)
  PROVE  IInv'
<1>. USE DEF Deleted
<1>0. ASSUME NEW x \in Requests, BeingClosed(x) PROVE BeingClosed(x)'
  BY <1>0, ClosingGoesOn DEF IInv, TypeOK
<1>1. TypeOK'
  BY DEF IInv, TypeOK, CallsAreWhole, OrderOfUse, Stage
<1>2. CallsAreWhole'
  BY DEF IInv, TypeOK, CallsAreWhole
<1>3. (ChromeIsLaunched /\ TableIsTrue /\ LaunchIsKnown /\ DroppedIsOver /\ RunningIsOnRecord
         /\ LeavingIsLast)'
  <2>1. /\ at[p] = "deleting" /\ at'[p] = "done" /\ Kind(p) = "reset" /\ ~Exited
        /\ UNCHANGED <<table, chrome, leaving, ask, raced>>
        /\ \A q \in Requests \ {p} : at'[q] = at[q] /\ ctx'[q] = ctx[q]
    BY DEF IInv, TypeOK, CallsAreWhole, Quiet
  <2>. QED BY <1>0, <1>1, <2>1, OneMoves
<1>4. OwedIsFound'
  BY <1>0 DEF IInv, TypeOK, OwedIsFound, Kept
<1>5. ExcessIsLeaving'
  BY DEF IInv, TypeOK, ExcessIsLeaving, Quiet, Runnable
<1>. QED BY <1>1, <1>2, <1>3, <1>4, <1>5 DEF IInv

\* Shutdown tells every Chromium it took out of the records.
LEMMA AllAnnouncedKeeps ==
  ASSUME IInv, NEW p \in Requests, AllAnnounced(p)
  PROVE  IInv'
<1>. USE DEF AllAnnounced
<1>1. TypeOK'
  BY DEF IInv, TypeOK, OrderOfUse, Stage
<1>2. CallsAreWhole'
  BY DEF IInv, TypeOK, CallsAreWhole
<1>3. (ChromeIsLaunched /\ TableIsTrue /\ LaunchIsKnown /\ DroppedIsOver /\ RunningIsOnRecord
         /\ LeavingIsLast /\ OwedIsFound /\ ExcessIsLeaving)'
  <2>1. /\ UNCHANGED <<table, leaving, ask, waits, victims, ctx, history>> /\ ~Exited
        /\ \A q \in Requests : \/ at'[q] = at[q]
                               \/ at[q] = "announcing" /\ at'[q] = "closing"
                               \/ at[q] = "leaving" /\ at'[q] = "exiting"
        /\ \A c \in Requests : \/ chrome'[c] = chrome[c]
                               \/ chrome[c] = "up" /\ chrome'[c] \in {"crashed", "pageless"}
                               \/ chrome[c] \in {"up", "pageless"} /\ chrome'[c] = "ending"
                               \/ chrome[c] = "ending" /\ chrome'[c] = "gone"
    BY DEF IInv, TypeOK, CallsAreWhole, Quiet
  <2>. QED BY <1>1, <2>1, BrowsersGo
<1>. QED BY <1>1, <1>2, <1>3 DEF IInv

\* The process is gone, and every Chromium with it.
LEMMA ExitKeeps ==
  ASSUME IInv, NEW p \in Requests, Exit(p)
  PROVE  IInv'
<1>. USE DEF Exit
<1>0. ASSUME NEW x \in Requests, BeingClosed(x) PROVE BeingClosed(x)'
  BY <1>0, ClosingGoesOn DEF IInv, TypeOK
<1>1. TypeOK'
  BY DEF IInv, TypeOK, OrderOfUse, Stage
<1>2. CallsAreWhole'
  BY DEF IInv, TypeOK, CallsAreWhole
<1>3. ChromeIsLaunched'
  BY DEF IInv, TypeOK, ChromeIsLaunched, CallsAreWhole, Launches, Exited
<1>4. TableIsTrue'
  BY DEF IInv, TypeOK, TableIsTrue, Launches
<1>5. LaunchIsKnown'
  BY DEF IInv, TypeOK, LaunchIsKnown, Launches
<1>6. DroppedIsOver'
  <2>1. ASSUME NEW q \in Requests, at'[q] \in {"dropping", "redropping"}
        PROVE  /\ at[q] \in {"dropping", "redropping"} /\ ctx[q] \in Requests
               /\ chrome[ctx[q]] \in {"ending", "crashed", "gone"}
    BY <2>1 DEF IInv, TypeOK, CallsAreWhole, DroppedIsOver
  <2>. QED BY <2>1 DEF IInv, TypeOK, DroppedIsOver, Launches
<1>7. RunningIsOnRecord'
  BY <1>0 DEF IInv, TypeOK, RunningIsOnRecord
<1>8. LeavingIsLast'
  BY DEF IInv, TypeOK, LeavingIsLast, ShuttingDown
<1>9. OwedIsFound'
  BY <1>0 DEF IInv, TypeOK, OwedIsFound, Kept
<1>10. ExcessIsLeaving'
  BY DEF IInv, TypeOK, ExcessIsLeaving
<1>. QED BY <1>1, <1>2, <1>3, <1>4, <1>5, <1>6, <1>7, <1>8, <1>9, <1>10 DEF IInv

-----------------------------------------------------------------------------
(* Chromium.                                                               *)

\* One that was told to go goes.
LEMMA ChromeExitsKeeps ==
  ASSUME IInv, NEW p \in Requests, ChromeExits(p)
  PROVE  IInv'
<1>. USE DEF ChromeExits
<1>1. TypeOK'
  BY DEF IInv, TypeOK, OrderOfUse
<1>2. CallsAreWhole'
  BY DEF IInv, TypeOK, CallsAreWhole
<1>3. (ChromeIsLaunched /\ TableIsTrue /\ LaunchIsKnown /\ DroppedIsOver /\ RunningIsOnRecord
         /\ LeavingIsLast /\ OwedIsFound /\ ExcessIsLeaving)'
  <2>1. /\ UNCHANGED <<table, leaving, ask, waits, victims, ctx, history>> /\ ~Exited
        /\ \A q \in Requests : \/ at'[q] = at[q]
                               \/ at[q] = "announcing" /\ at'[q] = "closing"
                               \/ at[q] = "leaving" /\ at'[q] = "exiting"
        /\ \A c \in Requests : \/ chrome'[c] = chrome[c]
                               \/ chrome[c] = "up" /\ chrome'[c] \in {"crashed", "pageless"}
                               \/ chrome[c] \in {"up", "pageless"} /\ chrome'[c] = "ending"
                               \/ chrome[c] = "ending" /\ chrome'[c] = "gone"
    BY DEF IInv, TypeOK, CallsAreWhole, Quiet
  <2>. QED BY <1>1, <2>1, BrowsersGo
<1>. QED BY <1>1, <1>2, <1>3 DEF IInv

\* One dies, or loses its page: its record stays, and it was in one.
LEMMA ChromeDiesKeeps ==
  ASSUME IInv, NEW p \in Requests, ChromeDies(p)
  PROVE  IInv'
<1>a. /\ chrome[p] = "up" /\ chrome'[p] \in {"crashed", "pageless"}
      /\ \A x \in Requests \ {p} : chrome'[x] = chrome[x]
      /\ chrome' \in [Requests -> {"none", "opening", "up", "pageless", "crashed", "ending", "gone"}]
      /\ ~Exited /\ mishaps' \in 0..MaxMishaps
      /\ UNCHANGED <<table, closing, leaving, ask, at, waits, victims, ctx, history>>
  <2>1. /\ \/ chrome' = [chrome EXCEPT ![p] = "crashed"] \/ chrome' = [chrome EXCEPT ![p] = "pageless"]
        /\ chrome[p] = "up" /\ ~Exited /\ mishaps < MaxMishaps /\ mishaps' = mishaps + 1
        /\ UNCHANGED <<table, closing, leaving, ask, at, waits, victims, ctx, history>>
    BY DEF ChromeDies, Fault, Quiet
  <2>2. /\ chrome \in [Requests -> {"none", "opening", "up", "pageless", "crashed", "ending", "gone"}]
        /\ mishaps \in 0..MaxMishaps
    BY DEF IInv, TypeOK
  <2>. QED BY <2>1, <2>2
<1>1. TypeOK'
  BY <1>a DEF IInv, TypeOK, OrderOfUse
<1>2. CallsAreWhole'
  BY <1>a DEF IInv, TypeOK, CallsAreWhole
<1>3. (ChromeIsLaunched /\ TableIsTrue /\ LaunchIsKnown /\ DroppedIsOver /\ RunningIsOnRecord
         /\ LeavingIsLast /\ OwedIsFound /\ ExcessIsLeaving)'
  <2>1. /\ UNCHANGED <<table, leaving, ask, waits, victims, ctx, history>> /\ ~Exited
        /\ \A q \in Requests : \/ at'[q] = at[q]
                               \/ at[q] = "announcing" /\ at'[q] = "closing"
                               \/ at[q] = "leaving" /\ at'[q] = "exiting"
        /\ \A c \in Requests : \/ chrome'[c] = chrome[c]
                               \/ chrome[c] = "up" /\ chrome'[c] \in {"crashed", "pageless"}
                               \/ chrome[c] \in {"up", "pageless"} /\ chrome'[c] = "ending"
                               \/ chrome[c] = "ending" /\ chrome'[c] = "gone"
    BY <1>a DEF IInv, TypeOK, CallsAreWhole, Quiet
  <2>. QED BY <1>1, <2>1, BrowsersGo
<1>. QED BY <1>1, <1>2, <1>3 DEF IInv

-----------------------------------------------------------------------------
(* What holds of the browsers of one computer.                             *)

\* Before the first call nothing runs and nothing is in the table.
LEMMA NothingStarted == Init => IInv
<1>. SUFFICES ASSUME Init PROVE IInv
  OBVIOUS
<1>. USE DEF Init
<1>1. OrderOfUse
  BY DEF OrderOfUse
<1>2. TypeOK
  BY <1>1 DEF TypeOK, Stage
<1>3. CallsAreWhole /\ ChromeIsLaunched /\ TableIsTrue /\ LaunchIsKnown /\ DroppedIsOver
  BY DEF CallsAreWhole, ChromeIsLaunched, TableIsTrue, LaunchIsKnown, DroppedIsOver, Launches
<1>4. RunningIsOnRecord /\ LeavingIsLast /\ OwedIsFound
  BY DEF RunningIsOnRecord, LeavingIsLast, OwedIsFound
<1>5. ExcessIsLeaving
  BY DEF ExcessIsLeaving
<1>. QED BY <1>2, <1>3, <1>4, <1>5 DEF IInv

\* A call whose close is over joins, is handed the browser, drops it, or starts one.
LEMMA ResumeKeeps ==
  ASSUME IInv, NEW p \in Requests, Resume(p)
  PROVE  IInv'
<1>. at[p] = "held" /\ ~Exited /\ UNCHANGED <<closing, leaving, ask, held, victims, history, mishaps>>
  BY DEF Resume
<1>1. CASE Join(p, BotOf(p))
  BY <1>1, JoinKeeps
<1>2. CASE Hand(p, BotOf(p))
  BY <1>2, HandKeeps
<1>3. CASE DropHalfDead(p, BotOf(p))
  BY <1>3, DropHalfDeadKeeps
<1>4. CASE Start(p, BotOf(p))
  BY <1>4, StartKeeps
<1>. QED BY <1>1, <1>2, <1>3, <1>4 DEF Resume

\* Every step of a call, a close or a Chromium keeps the invariant.
LEMMA StepKeeps == IInv /\ [Next]_vars => IInv'
<1>. SUFFICES ASSUME IInv, [Next]_vars PROVE IInv'
  OBVIOUS
<1>1. CASE UNCHANGED vars
  <2>. USE <1>1
  <2>1. TypeOK'
    BY DEF IInv, TypeOK, OrderOfUse
  <2>2. (CallsAreWhole /\ ChromeIsLaunched /\ TableIsTrue /\ LaunchIsKnown /\ DroppedIsOver)'
    BY DEF IInv, CallsAreWhole, ChromeIsLaunched, TableIsTrue, LaunchIsKnown, DroppedIsOver,
           Launches, Exited
  <2>3. (RunningIsOnRecord /\ LeavingIsLast /\ OwedIsFound /\ ExcessIsLeaving)'
    BY DEF IInv, RunningIsOnRecord, LeavingIsLast, ShuttingDown, OwedIsFound, ExcessIsLeaving,
           Kept, BeingClosed
  <2>. QED BY <2>1, <2>2, <2>3 DEF IInv
<1>2. ASSUME NEW p \in Requests, NEW b \in Bots, Page(p, b) \/ Stop(p, b) \/ Reset(p, b) PROVE IInv'
  BY <1>2, PageKeeps, StopKeeps, ResetKeeps
<1>3. ASSUME NEW p \in Requests, SweepIdle(p) \/ CloseAll(p) \/ LaunchFailed(p) PROVE IInv'
  BY <1>3, SweepIdleKeeps, CloseAllKeeps, LaunchFailedKeeps
<1>4. ASSUME NEW p \in Requests, Serve(p) PROVE IInv'
  <2>1. CASE Resume(p) \/ Replace(p) \/ Launched(p) \/ JoinReturns(p) \/ StopWaiting(p)
    BY <2>1, ResumeKeeps, ReplaceKeeps, LaunchedKeeps, JoinReturnsKeeps, StopWaitingKeeps
  <2>2. CASE Evict(p)
    BY <2>2, EvictNothingKeeps, EvictOneKeeps
  <2>3. CASE Announced(p) \/ Closed(p) \/ Deleted(p) \/ AllAnnounced(p) \/ Exit(p)
    BY <2>3, AnnouncedKeeps, ClosedKeeps, DeletedKeeps, AllAnnouncedKeeps, ExitKeeps
  <2>4. CASE Finish(p)
    BY <2>4, AnswerKeeps, FinishKeeps
  <2>. QED BY <1>4, <2>1, <2>2, <2>3, <2>4 DEF Serve
<1>5. ASSUME NEW c \in Requests, ChromeExits(c) \/ ChromeDies(c) PROVE IInv'
  BY <1>5, ChromeExitsKeeps, ChromeDiesKeeps
<1>6. CASE Rest
  BY <1>1, <1>6 DEF Rest
<1>. QED BY <1>1, <1>2, <1>3, <1>4, <1>5, <1>6 DEF Next

(* The inductive invariant of the browsers: who launches is in the table,  *)
(* who runs has the record, who is dropped is past its launch, and who is  *)
(* owed to a stop is in sight of it (profiles.ts).                         *)
THEOREM RecordsHold == Spec => []IInv
BY NothingStarted, StepKeeps, PTL DEF Spec

(* Every variable keeps its type, and the order of use names the records.  *)
THEOREM BrowserTypesHold == Spec => []TypeOK
<1>1. IInv => TypeOK
  BY DEF IInv
<1>. QED BY RecordsHold, <1>1, PTL

(* The table of launches names no launch that is over, and a record names  *)
(* a browser that was launched for its Bot: the finally of the launch in   *)
(* page, and the records dropped at closes, replacements and shutdown.     *)
THEOREM TableHolds == Spec => []TableIsTrue
<1>1. IInv => TableIsTrue
  BY DEF IInv
<1>. QED BY RecordsHold, <1>1, PTL

\* Who runs, and is not being closed, launches and is in the table, or has the record.
LEMMA KeptIsKnown ==
  ASSUME IInv, NEW c \in Requests, NEW b \in Bots \ raced, c \in Kept(b)
  PROVE  \/ chrome[c] = "opening" /\ starting[b] = c /\ live[b] = None
         \/ chrome[c] # "opening" /\ live[b] = c
<1>1. CASE chrome[c] = "opening"
  BY <1>1 DEF IInv, TypeOK, ChromeIsLaunched, LaunchIsKnown, Launches, Kept
<1>2. CASE chrome[c] # "opening"
  BY <1>2 DEF IInv, RunningIsOnRecord, Kept
<1>. QED BY <1>1, <1>2

(* A Bot keeps one browser at most, the one its record or the launch in    *)
(* flight names, but where two calls replaced one half-dead browser: page, *)
(* closeOnRequest, evict and reset of profiles.ts.                         *)
THEOREM OneBrowser == Spec => []OneBrowserPerBot
<1>1. ASSUME IInv PROVE OneBrowserPerBot
  <2>. USE <1>1
  <2>1. ASSUME NEW b \in Bots \ raced, NEW c \in Kept(b)
        PROVE  Kept(b) = {c} /\ c \in {live[b], starting[b]}
    <3>1. c \in Requests /\ \A d \in Kept(b) : d \in Requests
      BY DEF Kept
    <3>2. ASSUME NEW d \in Kept(b) PROVE d = c
      <4>1. c # None /\ d # None
        BY <3>1
      <4>2. \/ starting[b] = c /\ live[b] = None
            \/ live[b] = c
        BY <3>1, KeptIsKnown
      <4>3. \/ starting[b] = d /\ live[b] = None
            \/ live[b] = d
        BY <3>1, KeptIsKnown
      <4>. QED BY <4>1, <4>2, <4>3
    <3>. QED BY <3>1, <3>2, KeptIsKnown
  <2>. QED BY <2>1 DEF OneBrowserPerBot
<1>. QED BY RecordsHold, <1>1, PTL

(* What ran or was starting when a stop or a reset was asked is closed by  *)
(* the time it answers: closeOnRequest and reset await the launch.         *)
THEOREM StopsClose == Spec => []StoppedIsClosed
<1>1. IInv => StoppedIsClosed
  BY DEF IInv, OwedIsFound, StoppedIsClosed
<1>. QED BY RecordsHold, <1>1, PTL

(* No more browsers run between two turns of the event loop than the cap   *)
(* allows: the eviction that every launch ends with.                       *)
THEOREM CapHolds == Spec => []RunningIsCapped
<1>1. ASSUME IInv, Quiet, raced = {}
      PROVE  Cardinality({ c \in Requests : chrome[c] \in {"up", "pageless"} /\ ~BeingClosed(c) })
               <= MaxBrowsers
  <2>. USE <1>1
  <2>. DEFINE Running == { c \in Requests : chrome[c] \in {"up", "pageless"} /\ ~BeingClosed(c) }
              n == Len(recent)
              place == [c \in Running |-> Place(BotOf(c))]
  <2>1. OrderOfUse /\ n \in Nat /\ n <= MaxBrowsers
    BY DEF IInv, TypeOK, ExcessIsLeaving, Quiet, Runnable
  <2>2. ASSUME NEW c \in Running PROVE BotOf(c) \in Bots /\ live[BotOf(c)] = c /\ c # None
    BY DEF IInv, TypeOK, CallsAreWhole, RunningIsOnRecord
  <2>3. ASSUME NEW c \in Running PROVE Place(BotOf(c)) \in 1..n /\ recent[Place(BotOf(c))] = BotOf(c)
    BY <2>1, <2>2, PlaceOfRecord
  <2>4. place \in Injection(Running, 1..n)
    <3>1. place \in [Running -> 1..n]
      BY <2>3
    <3>2. ASSUME NEW c \in Running, NEW d \in Running, place[c] = place[d] PROVE c = d
      <4>1. BotOf(c) = BotOf(d)
        BY <2>3, <3>2
      <4>. QED BY <2>2, <4>1
    <3>. QED BY <3>1, <3>2 DEF Injection, IsInjective
  <2>5. IsFiniteSet(1..n) /\ Cardinality(1..n) = n
    <3>. HIDE DEF n
    <3>1. IsFiniteSet(1..n) /\ Cardinality(1..n) = IF 1 > n THEN 0 ELSE n - 1 + 1
      BY <2>1, FS_Interval
    <3>. QED BY <2>1, <3>1
  <2>6. Cardinality(Running) <= n /\ Cardinality(Running) \in Nat
    <3>. HIDE DEF Running, place
    <3>. QED BY <2>4, <2>5, FS_Injection, FS_CardinalityType
  <2>. QED BY <2>1, <2>6
<1>2. IInv => RunningIsCapped
  BY <1>1 DEF RunningIsCapped
<1>. QED BY RecordsHold, <1>2, PTL

-----------------------------------------------------------------------------
(* The live screen of one Bot.                                             *)
HIDE ProfilesAssumption
HIDE DEF vars, table, waits, history, Sound, Goto, Kind, BotOf
USE ScreenAssumption
USE DEF screenVars, context, slot, steps, Turn, Even

\* As much of the types as the arguments below ask for.
SlotType ==
  /\ current \in Sockets \union {Nothing} /\ castOf \in [Sockets -> Attaches \union {Nothing}]
  /\ sock \in [Sockets -> {"unopened", "open", "closed"}]
  /\ phase \in [Attaches -> {"idle", "held", "joined", "starting", "swapping"}]
  /\ of \in [Attaches -> Sockets \union {Nothing}]
  /\ follow \subseteq Sockets /\ dropped \subseteq Sockets

\* A socket that was opened has a slot, or was told that it lost it.
OpenedIsTold ==
  /\ \A s \in Sockets : sock[s] # "unopened" => s = current \/ s \in revoked \union dropped
  /\ \A a \in Attaches : phase[a] # "idle" => of[a] \in Sockets /\ sock[of[a]] # "unopened"
  /\ \A s \in Sockets : phase[s] # "idle" => of[s] = s
  /\ \A s \in revoked \union dropped : s \in Sockets /\ sock[s] # "unopened"

\* Windows are those of a browser that runs or is being closed, and nothing
\* that starts while it is being closed has the screen.
WindowsAreUp ==
  /\ browser \notin {"up", "closing"} => pages = {}
  /\ browser = "closing" => \A a \in Attaches : phase[a] = "starting" => of[a] \in revoked \union dropped

ScreenInv == SlotType /\ OpenedIsTold /\ WindowsAreUp /\ OneScreen /\ LoopEndsWithBrowser

-----------------------------------------------------------------------------
(* What each change of the slots leaves.                                   *)

LEMMA HoldersAreSockets ==
  ASSUME SlotType
  PROVE  Holder \subseteq Sockets /\ Owners \subseteq Sockets
  BY DEF SlotType, Holder, Owners

LEMMA UntornIsNobody ==
  ASSUME SlotType, Untorn
  PROVE  TornDown({})
<1>1. castOf = [s \in Sockets |-> castOf[s]]
  BY DEF SlotType
<1>2. QED
  BY <1>1 DEF Untorn, TornDown

\* Nothing of a socket that is torn down goes on, and nothing else is lost.
LEMMA TearingDown ==
  ASSUME SlotType, NEW S \in SUBSET Sockets, TornDown(S)
  PROVE  /\ castOf' \in [Sockets -> Attaches \union {Nothing}]
         /\ \A x \in Sockets : castOf'[x] = IF x \in S THEN Nothing ELSE castOf[x]
         /\ revoked' = revoked \union S /\ follow' = follow \ S
         /\ rolling' = rolling \ { castOf[s] : s \in S }
  BY DEF SlotType, TornDown

LEMMA StillOwned ==
  ASSUME SlotType, OneScreen, NEW S \in SUBSET Sockets, TornDown(S), Owners \ S \subseteq Owners'
  PROVE  /\ \A c \in rolling' : \E s \in Owners' : castOf'[s] = c
         /\ follow' \subseteq Owners'
<1>0. /\ \A x \in Sockets : castOf'[x] = IF x \in S THEN Nothing ELSE castOf[x]
      /\ follow' = follow \ S /\ rolling' = rolling \ { castOf[s] : s \in S }
      /\ Owners \subseteq Sockets
  BY TearingDown, HoldersAreSockets
<1>1. ASSUME NEW c \in rolling' PROVE \E s \in Owners' : castOf'[s] = c
  <2>1. PICK s \in Owners : castOf[s] = c
    BY <1>0 DEF OneScreen
  <2>2. s \notin S
    BY <1>0, <2>1
  <2>3. QED
    BY <1>0, <2>1, <2>2
<1>2. QED
  BY <1>0, <1>1 DEF OneScreen

\* Whoever had the screen is told.
LEMMA Emptied ==
  ASSUME SlotType, OneScreen, ReleaseAll, UNCHANGED <<sock, dropped>>
  PROVE  /\ OneScreen' /\ current' = Nothing /\ follow' \subseteq dropped
         /\ castOf' \in [Sockets -> Attaches \union {Nothing}]
         /\ revoked' = revoked \union Holder
<1>1. /\ Holder \in SUBSET Sockets /\ TornDown(Holder) /\ current' = Nothing
  BY HoldersAreSockets DEF ReleaseAll
<1>2. /\ castOf' \in [Sockets -> Attaches \union {Nothing}]
      /\ revoked' = revoked \union Holder /\ follow' = follow \ Holder
  BY <1>1, TearingDown
<1>3. Holder' = {} /\ Owners' = Owners \ Holder
  BY <1>1, <1>2 DEF Holder, Owners
<1>4. OneScreen'
  BY <1>1, <1>3, StillOwned DEF OneScreen
<1>5. QED
  BY <1>1, <1>2, <1>4 DEF OneScreen, Owners

\* The socket that opens has a slot, the Bot's or one of its own.
LEMMA Claiming ==
  ASSUME SlotType, OpenedIsTold, OneScreen, NEW s \in Sockets,
         sock[s] = "unopened", sock' = [sock EXCEPT ![s] = "open"],
         (Claim(s) /\ UNCHANGED dropped) \/ ClaimDropped(s)
  PROVE  /\ OneScreen' /\ current' \in {s, current} /\ follow' \subseteq follow
         /\ castOf' \in [Sockets -> Attaches \union {Nothing}]
         /\ dropped \subseteq dropped' /\ dropped' \subseteq dropped \union {s}
         /\ revoked \subseteq revoked' /\ revoked' \subseteq revoked \union Holder
         /\ s = current' \/ s \in dropped'
         /\ Holder \subseteq Holder' \union revoked'
<1>0. /\ Holder \subseteq Sockets /\ s \notin revoked \union dropped /\ s # Nothing
      /\ \A x \in Sockets : sock'[x] = IF x = s THEN "open" ELSE sock[x]
      /\ \A x \in Holder : x # s
  BY HoldersAreSockets DEF OpenedIsTold, SlotType, OneScreen
<1>1. CASE Claim(s) /\ UNCHANGED dropped
  <2>1. TornDown(Holder) /\ Holder' = {s} /\ current' = s
    BY <1>0, <1>1 DEF Claim, Holder
  <2>2. /\ castOf' \in [Sockets -> Attaches \union {Nothing}]
        /\ revoked' = revoked \union Holder /\ follow' = follow \ Holder
    BY <1>0, <2>1, TearingDown
  <2>3. Owners \ Holder \subseteq Owners'
    BY <1>1, <2>1, <2>2 DEF Owners
  <2>4. /\ \A c \in rolling' : \E x \in Owners' : castOf'[x] = c
        /\ follow' \subseteq Owners'
    BY <1>0, <2>1, <2>3, StillOwned
  <2>5. \A x \in Holder' : sock'[x] = "open" /\ x \notin revoked' \union dropped'
    BY <1>0, <1>1, <2>1, <2>2
  <2>6. OneScreen'
    BY <2>4, <2>5 DEF OneScreen
  <2>7. QED
    BY <1>1, <2>1, <2>2, <2>6
<1>2. CASE ClaimDropped(s)
  <2>1. TornDown({}) /\ current' = current /\ dropped' = dropped \union {s} /\ Holder' = Holder
    BY <1>2, UntornIsNobody DEF ClaimDropped, Holder
  <2>2. /\ castOf' \in [Sockets -> Attaches \union {Nothing}]
        /\ revoked' = revoked /\ follow' = follow
    BY <2>1, TearingDown
  <2>3. Owners \ {} \subseteq Owners'
    BY <2>1, <2>2 DEF Owners
  <2>4. /\ \A c \in rolling' : \E x \in Owners' : castOf'[x] = c
        /\ follow' \subseteq Owners'
    BY <2>1, <2>3, StillOwned
  <2>5. \A x \in Holder' : sock'[x] = "open" /\ x \notin revoked' \union dropped'
    BY <1>0, <2>1, <2>2 DEF OneScreen
  <2>6. OneScreen'
    BY <2>4, <2>5 DEF OneScreen
  <2>7. QED
    BY <2>1, <2>2, <2>6
<1>3. QED
  BY <1>1, <1>2

\* An attach that fails costs only its own socket its slot.
LEMMA Failed ==
  ASSUME ScreenInv, NEW A \in SUBSET Attaches, \A a \in A : phase[a] # "idle",
         Failing(A), UNCHANGED of
  PROVE  /\ SlotType' /\ OpenedIsTold' /\ OneScreen' /\ follow' \subseteq follow
         /\ revoked \subseteq revoked' /\ dropped' = dropped
<1> DEFINE S == (A \intersect Sockets) \ revoked
<1>0. /\ SlotType /\ OpenedIsTold /\ OneScreen /\ Sockets \subseteq Attaches
      /\ Nothing \notin A /\ S \in SUBSET Sockets
  BY DEF ScreenInv, Attaches
<1>1. \A s \in Sockets \intersect A : sock[s] # "unopened"
  BY <1>0 DEF OpenedIsTold
<1>2. /\ \A a \in Attaches : phase'[a] \in {phase[a], "idle"}
      /\ \A s \in Sockets : sock'[s] = IF s \in A THEN "closed" ELSE sock[s]
      /\ phase' \in [Attaches -> {"idle", "held", "joined", "starting", "swapping"}]
      /\ sock' \in [Sockets -> {"unopened", "open", "closed"}]
      /\ current' = IF current \in A THEN Nothing ELSE current
      /\ TornDown(S) /\ dropped' = dropped
  BY <1>0 DEF Failing, SlotType
<1>3. /\ castOf' \in [Sockets -> Attaches \union {Nothing}]
      /\ revoked' = revoked \union S /\ follow' = follow \ S
  <2> HIDE DEF S
  <2>1. QED
    BY <1>0, <1>2, TearingDown
<1>4. Holder' = Holder \ A
  BY <1>0, <1>2 DEF Holder
<1>5. Owners \ S \subseteq Owners' /\ Holder \intersect A \subseteq S
  BY <1>0, <1>2, <1>3, <1>4, HoldersAreSockets DEF Owners, OneScreen
<1>6. /\ \A c \in rolling' : \E x \in Owners' : castOf'[x] = c
      /\ follow' \subseteq Owners'
  <2> HIDE DEF S
  <2>1. QED
    BY <1>0, <1>2, <1>5, StillOwned
<1>7. \A x \in Holder' : sock'[x] = "open" /\ x \notin revoked' \union dropped'
  BY <1>0, <1>2, <1>3, <1>4, HoldersAreSockets DEF OneScreen
<1>8. SlotType'
  BY <1>0, <1>2, <1>3 DEF SlotType
<1>9. OpenedIsTold'
  <2>1. \A s \in Sockets : sock'[s] # "unopened" <=> sock[s] # "unopened"
    BY <1>1, <1>2
  <2>2. \A s \in Sockets : sock'[s] # "unopened" => s = current' \/ s \in revoked' \union dropped'
    BY <1>0, <1>2, <1>3, <2>1 DEF OpenedIsTold
  <2>3. \A a \in Attaches : phase'[a] # "idle" => of'[a] \in Sockets /\ sock'[of'[a]] # "unopened"
    BY <1>0, <1>2, <2>1 DEF OpenedIsTold
  <2>4. \A s \in Sockets : phase'[s] # "idle" => of'[s] = s
    BY <1>0, <1>2 DEF OpenedIsTold
  <2>5. \A s \in revoked' \union dropped' : s \in Sockets /\ sock'[s] # "unopened"
    BY <1>0, <1>1, <1>2, <1>3, <2>1 DEF OpenedIsTold
  <2>6. QED
    BY <2>2, <2>3, <2>4, <2>5 DEF OpenedIsTold
<1>10. QED
  BY <1>2, <1>3, <1>6, <1>7, <1>8, <1>9 DEF OneScreen

\* Asking for the page starts no cast but on a running browser, and closes none.
LEMMA Asking ==
  ASSUME SlotType, NEW a \in Attaches, NEW s \in Sockets, Asked(a, s)
  PROVE  /\ phase' \in [Attaches -> {"idle", "held", "joined", "starting", "swapping"}]
         /\ of' \in [Attaches -> Sockets \union {Nothing}] /\ of'[a] = s
         /\ \A b \in Attaches \ {a} : phase'[b] = phase[b] /\ of'[b] = of[b]
         /\ phase'[a] = "starting" => browser = "up"
         /\ pages' = pages
         /\ browser \in {"up", "closing"} => browser' = browser
         /\ browser' \in {"up", "closing"} => browser' = browser
         /\ browser' \in {"down", "launching"} => browser \in {"down", "launching"}
<1>1. CASE browser \in {"up", "closing"}
  BY <1>1 DEF Asked, SlotType
<1>2. CASE browser \notin {"up", "closing"}
  <2>1. browser' = Launching /\ phase' = [phase EXCEPT ![a] = "joined"]
        /\ of' = [of EXCEPT ![a] = s] /\ pages' = pages
    BY <1>2 DEF Asked
  <2>2. /\ browser = "down" => Launching = "launching"
        /\ browser \in {"dead", "lost"} => Launching = "relaunching"
        /\ browser \notin {"down", "dead", "lost"} => Launching = browser
    BY DEF Launching
  <2>3. QED
    BY <1>2, <2>1, <2>2 DEF SlotType
<1>3. QED
  BY <1>1, <1>2

\* Who was told what does not change with how far an attach got.
LEMMA ToldAsBefore ==
  ASSUME OpenedIsTold, UNCHANGED <<sock, current, dropped, revoked, of>>,
         \A a \in Attaches : phase'[a] # "idle" => phase[a] # "idle"
  PROVE  OpenedIsTold'
<1>1. \A a \in Attaches : phase'[a] # "idle" => of'[a] \in Sockets /\ sock'[of'[a]] # "unopened"
  BY DEF OpenedIsTold
<1>2. \A s \in Sockets : phase'[s] # "idle" => of'[s] = s
  BY DEF OpenedIsTold, Attaches
<1>3. QED
  BY <1>1, <1>2 DEF OpenedIsTold

LEMMA OpenKeeps ==
  ASSUME ScreenInv, NEW s \in Sockets, Open(s)
  PROVE  ScreenInv'
<1>0. /\ SlotType /\ OpenedIsTold /\ WindowsAreUp /\ OneScreen /\ LoopEndsWithBrowser
      /\ s \in Attaches /\ Asked(s, s)
      /\ (Claim(s) /\ UNCHANGED dropped) \/ ClaimDropped(s)
      /\ sock' = [sock EXCEPT ![s] = "open"] /\ sock[s] = "unopened"
  BY DEF ScreenInv, Open, Attaches
<1>1. /\ OneScreen' /\ current' \in {s, current} /\ follow' \subseteq follow
      /\ castOf' \in [Sockets -> Attaches \union {Nothing}]
      /\ dropped \subseteq dropped' /\ dropped' \subseteq dropped \union {s}
      /\ revoked \subseteq revoked' /\ revoked' \subseteq revoked \union Holder
      /\ s = current' \/ s \in dropped'
      /\ Holder \subseteq Holder' \union revoked'
  BY <1>0, Claiming
<1>2. /\ phase' \in [Attaches -> {"idle", "held", "joined", "starting", "swapping"}]
      /\ of' \in [Attaches -> Sockets \union {Nothing}] /\ of'[s] = s
      /\ \A b \in Attaches \ {s} : phase'[b] = phase[b] /\ of'[b] = of[b]
      /\ phase'[s] = "starting" => browser = "up"
      /\ pages' = pages
      /\ browser \in {"up", "closing"} => browser' = browser
      /\ browser' \in {"up", "closing"} => browser' = browser
      /\ browser' \in {"down", "launching"} => browser \in {"down", "launching"}
  BY <1>0, Asking
<1>3. SlotType'
  BY <1>0, <1>1, <1>2 DEF SlotType
<1>4. OpenedIsTold'
  <2>1. \A x \in Sockets : /\ sock'[x] # "unopened" => x = s \/ sock[x] # "unopened"
                           /\ sock[x] # "unopened" => sock'[x] # "unopened"
                           /\ sock'[s] = "open"
    BY <1>0 DEF SlotType
  <2>2. \A x \in Sockets : x = current => x = current' \/ x \in revoked'
    BY <1>0, <1>1 DEF Holder, SlotType
  <2>3. \A x \in Sockets : sock'[x] # "unopened" => x = current' \/ x \in revoked' \union dropped'
    BY <1>0, <1>1, <2>1, <2>2 DEF OpenedIsTold
  <2>4. \A b \in Attaches : phase'[b] # "idle" => of'[b] \in Sockets /\ sock'[of'[b]] # "unopened"
    BY <1>0, <1>2, <2>1 DEF OpenedIsTold
  <2>5. \A x \in Sockets : phase'[x] # "idle" => of'[x] = x
    BY <1>0, <1>2 DEF OpenedIsTold, Attaches
  <2>6. \A x \in Holder : x \in Sockets /\ sock[x] # "unopened"
    BY <1>0, HoldersAreSockets DEF OneScreen
  <2>7. \A x \in revoked' \union dropped' : x \in Sockets /\ sock'[x] # "unopened"
    BY <1>0, <1>1, <2>1, <2>6 DEF OpenedIsTold
  <2>8. QED
    BY <2>3, <2>4, <2>5, <2>7 DEF OpenedIsTold
<1>5. WindowsAreUp'
  BY <1>0, <1>1, <1>2 DEF WindowsAreUp
<1>6. LoopEndsWithBrowser'
  BY <1>0, <1>1, <1>2 DEF LoopEndsWithBrowser
<1>7. QED
  BY <1>1, <1>3, <1>4, <1>5, <1>6 DEF ScreenInv

LEMMA TickKeeps ==
  ASSUME ScreenInv, NEW s \in Sockets, Tick(s)
  PROVE  ScreenInv'
<1>0. SlotType /\ OpenedIsTold /\ WindowsAreUp /\ OneScreen /\ LoopEndsWithBrowser
  BY DEF ScreenInv
<1>1. PICK a \in Free : Asked(a, s)
  BY DEF Tick
<1>2. /\ a \in Attaches /\ a \notin Sockets /\ sock[s] # "unopened"
      /\ UNCHANGED <<sock, slot, casting, rolling>> /\ Owners' = Owners /\ Holder' = Holder
  <2>1. s \in Owners /\ UNCHANGED <<sock, slot, casting, rolling>>
    BY <1>0 DEF Tick, OneScreen
  <2>2. \A x \in Owners : sock[x] # "unopened"
    BY <1>0 DEF Owners, OneScreen, OpenedIsTold
  <2>3. QED
    BY <2>1, <2>2 DEF Free, Attaches, Owners, Holder
<1>3. /\ phase' \in [Attaches -> {"idle", "held", "joined", "starting", "swapping"}]
      /\ of' \in [Attaches -> Sockets \union {Nothing}] /\ of'[a] = s
      /\ \A b \in Attaches \ {a} : phase'[b] = phase[b] /\ of'[b] = of[b]
      /\ phase'[a] = "starting" => browser = "up"
      /\ pages' = pages
      /\ browser \in {"up", "closing"} => browser' = browser
      /\ browser' \in {"up", "closing"} => browser' = browser
      /\ browser' \in {"down", "launching"} => browser \in {"down", "launching"}
  BY <1>0, <1>1, <1>2, Asking
<1>4. SlotType' /\ OneScreen'
  BY <1>0, <1>2, <1>3 DEF SlotType, OneScreen
<1>5. OpenedIsTold'
  BY <1>0, <1>2, <1>3 DEF OpenedIsTold, Attaches
<1>6. WindowsAreUp' /\ LoopEndsWithBrowser'
  BY <1>0, <1>2, <1>3 DEF WindowsAreUp, LoopEndsWithBrowser
<1>7. QED
  BY <1>4, <1>5, <1>6 DEF ScreenInv

\* What casts for its watcher has the screen, and a browser to cast.
LEMMA InstalledKeeps ==
  ASSUME ScreenInv, NEW a \in Attaches, Installed(a)
  PROVE  ScreenInv'
<1>0. SlotType /\ OpenedIsTold /\ WindowsAreUp /\ OneScreen /\ LoopEndsWithBrowser
  BY DEF ScreenInv
<1>1. /\ phase[a] = "starting" /\ target[a] \in pages /\ of[a] \in Sockets
      /\ UNCHANGED <<context, sock, current, dropped, revoked, of>>
      /\ Owners' = Owners /\ Holder' = Holder
  BY <1>0 DEF Installed, OpenedIsTold, Owners, Holder
<1>2. browser \in {"up", "closing"}
  BY <1>0, <1>1 DEF WindowsAreUp
<1>3. /\ phase' \in [Attaches -> {"idle", "held", "joined", "starting", "swapping"}]
      /\ phase'[a] \in {"idle", "swapping"} /\ \A b \in Attaches \ {a} : phase'[b] = phase[b]
  BY <1>0 DEF Installed, SlotType
<1>4. CASE of[a] \in revoked
  <2>1. UNCHANGED <<castOf, follow, rolling>>
    BY <1>4 DEF Installed, Refused
  <2>2. SlotType' /\ OneScreen' /\ LoopEndsWithBrowser'
    BY <1>0, <1>1, <1>3, <2>1 DEF SlotType, OneScreen, LoopEndsWithBrowser
  <2>3. WindowsAreUp'
    BY <1>0, <1>1, <1>3 DEF WindowsAreUp
  <2>4. OpenedIsTold'
    BY <1>0, <1>1, <1>3, ToldAsBefore
  <2>5. QED
    BY <2>2, <2>3, <2>4 DEF ScreenInv
<1>5. CASE of[a] \notin revoked
  <2>1. of[a] \in Owners /\ (browser = "up" \/ of[a] \in dropped)
    BY <1>0, <1>1, <1>2, <1>5 DEF OpenedIsTold, WindowsAreUp, Owners, Holder, SlotType
  <2>2. /\ castOf' = [castOf EXCEPT ![of[a]] = a]
        /\ rolling' = (rolling \ {castOf[of[a]]}) \union {a}
        /\ follow' = IF a = of[a] THEN follow \union {of[a]} ELSE follow
    BY <1>5 DEF Installed, Refused
  <2>3. SlotType'
    BY <1>0, <1>1, <1>3, <2>2 DEF SlotType
  <2>4. OneScreen'
    <3>1. \A x \in Sockets : castOf'[x] = IF x = of[a] THEN a ELSE castOf[x]
      BY <1>0, <2>2 DEF SlotType
    <3>2. \A c \in rolling' : \E x \in Owners : castOf'[x] = c
      BY <1>0, <2>1, <2>2, <3>1, HoldersAreSockets DEF OneScreen
    <3>3. follow' \subseteq Owners
      BY <1>0, <2>1, <2>2 DEF OneScreen
    <3>4. QED
      BY <1>0, <1>1, <3>2, <3>3 DEF OneScreen
  <2>5. OpenedIsTold'
    BY <1>0, <1>1, <1>3, ToldAsBefore
  <2>6. WindowsAreUp' /\ LoopEndsWithBrowser'
    BY <1>0, <1>1, <1>2, <1>3, <2>1, <2>2 DEF WindowsAreUp, LoopEndsWithBrowser
  <2>7. QED
    BY <2>3, <2>4, <2>5, <2>6 DEF ScreenInv
<1>6. QED
  BY <1>4, <1>5

LEMMA CastFailsKeeps ==
  ASSUME ScreenInv, NEW a \in Attaches, CastFails(a)
  PROVE  ScreenInv'
<1>1. SlotType' /\ OpenedIsTold' /\ OneScreen' /\ follow' \subseteq follow
      /\ revoked \subseteq revoked' /\ dropped' = dropped
  <2>1. Failing({a}) /\ UNCHANGED of /\ \A b \in {a} : phase[b] # "idle"
    BY DEF CastFails
  <2>2. QED
    BY <2>1, Failed
<1>2. UNCHANGED <<context, of>> /\ \A b \in Attaches : phase'[b] = "starting" => phase[b] = "starting"
  BY DEF CastFails, Failing, ScreenInv, SlotType
<1>3. QED
  BY <1>1, <1>2 DEF ScreenInv, WindowsAreUp, LoopEndsWithBrowser

LEMMA SettledKeeps ==
  ASSUME ScreenInv, NEW c \in Attaches, Settled(c)
  PROVE  ScreenInv'
<1>1. /\ UNCHANGED <<context, sock, current, dropped, revoked, castOf, follow, of, rolling>>
      /\ Owners' = Owners /\ Holder' = Holder
      /\ phase' \in [Attaches -> {"idle", "held", "joined", "starting", "swapping"}]
      /\ \A b \in Attaches : phase'[b] \in {phase[b], "idle"}
  BY DEF Settled, ScreenInv, SlotType, Owners, Holder
<1>2. SlotType' /\ OneScreen' /\ LoopEndsWithBrowser'
  BY <1>1 DEF ScreenInv, SlotType, OneScreen, LoopEndsWithBrowser
<1>3. OpenedIsTold'
  BY <1>1, ToldAsBefore DEF ScreenInv
<1>4. WindowsAreUp'
  BY <1>1 DEF ScreenInv, WindowsAreUp
<1>5. QED
  BY <1>2, <1>3, <1>4 DEF ScreenInv

\* A socket that goes, and what is torn down with it, leave the others as they are.
LEMMA GoingKeeps ==
  ASSUME ScreenInv, NEW S \in SUBSET Sockets, TornDown(S),
         \A x \in S : sock[x] # "unopened",
         UNCHANGED <<context, dropped, steps>>,
         sock' \in [Sockets -> {"unopened", "open", "closed"}],
         \A x \in Sockets : sock'[x] # "unopened" <=> sock[x] # "unopened",
         Holder' = Holder \ S, current' \in {current, Nothing},
         \A x \in Holder' : sock'[x] = sock[x]
  PROVE  ScreenInv'
<1>0. /\ SlotType /\ OpenedIsTold /\ WindowsAreUp /\ OneScreen /\ LoopEndsWithBrowser
  BY DEF ScreenInv
<1>1. /\ castOf' \in [Sockets -> Attaches \union {Nothing}]
      /\ revoked' = revoked \union S /\ follow' = follow \ S
  BY <1>0, TearingDown
<1>2. SlotType'
  BY <1>0, <1>1 DEF SlotType
<1>3. OneScreen'
  <2>1. Owners \ S \subseteq Owners'
    BY <1>1 DEF Owners
  <2>2. /\ \A c \in rolling' : \E x \in Owners' : castOf'[x] = c
        /\ follow' \subseteq Owners'
    BY <1>0, <2>1, StillOwned
  <2>3. \A x \in Holder' : sock'[x] = "open" /\ x \notin revoked' \union dropped'
    BY <1>0, <1>1 DEF OneScreen
  <2>4. QED
    BY <2>2, <2>3 DEF OneScreen
<1>4. OpenedIsTold'
  <2>1. \A x \in Sockets : x = current => x = current' \/ x \in revoked'
    BY <1>0, <1>1 DEF Holder, SlotType
  <2>2. \A x \in Sockets : sock'[x] # "unopened" => x = current' \/ x \in revoked' \union dropped'
    BY <1>0, <1>1, <2>1 DEF OpenedIsTold
  <2>3. QED
    BY <1>0, <1>1, <2>2 DEF OpenedIsTold
<1>5. WindowsAreUp' /\ LoopEndsWithBrowser'
  BY <1>0, <1>1 DEF WindowsAreUp, LoopEndsWithBrowser
<1>6. QED
  BY <1>2, <1>3, <1>4, <1>5 DEF ScreenInv

LEMMA CloseKeeps ==
  ASSUME ScreenInv, NEW s \in Sockets, Close(s) \/ Undelivered(s)
  PROVE  ScreenInv'
<1>0. /\ SlotType /\ OneScreen
  BY DEF ScreenInv
<1>1. CASE Close(s)
  <2>1. /\ sock[s] = "open" /\ Release(s) /\ UNCHANGED <<context, dropped, steps>>
        /\ sock' \in [Sockets -> {"unopened", "open", "closed"}]
        /\ \A x \in Sockets : sock'[x] = IF x = s THEN "closed" ELSE sock[x]
    BY <1>0, <1>1 DEF Close, SlotType
  <2>2. CASE current = s
    <3>1. TornDown({s}) /\ current' = Nothing /\ Holder' = Holder \ {s} /\ Holder' = {}
      BY <2>1, <2>2 DEF Release, Holder
    <3>2. QED
      BY <2>1, <3>1, GoingKeeps
  <2>3. CASE current # s
    <3>1. TornDown({}) /\ current' = current /\ Holder' = Holder \ {} /\ s \notin Holder' /\ Holder' \subseteq Sockets
      BY <1>0, <2>1, <2>3, UntornIsNobody, HoldersAreSockets DEF Release, Holder
    <3>2. QED
      BY <2>1, <3>1, GoingKeeps
  <2>4. QED
    BY <2>2, <2>3
<1>2. CASE Undelivered(s)
  <2>1. /\ sock[s] = "closed" /\ TornDown({s}) /\ UNCHANGED <<context, sock, current, dropped, steps>>
        /\ Holder' = Holder
    BY <1>2 DEF Undelivered, Holder
  <2>2. Holder' = Holder \ {s}
    BY <1>0, <2>1 DEF OneScreen
  <2>3. QED
    BY <1>0, <2>1, <2>2, GoingKeeps DEF SlotType
<1>3. QED
  BY <1>1, <1>2

\* The browser closes under whoever has the screen.
LEMMA EvictingKeeps ==
  ASSUME ScreenInv, Evicting, sock' = sock, dropped' = dropped, of' = of,
         phase' \in [Attaches -> {"idle", "held", "joined", "starting", "swapping"}],
         \A a \in Attaches : phase'[a] # "idle" => phase[a] # "idle"
  PROVE  ScreenInv'
<1>0. SlotType /\ OpenedIsTold /\ OneScreen
  BY DEF ScreenInv
<1>1. /\ OneScreen' /\ current' = Nothing /\ follow' \subseteq dropped /\ browser' = "closing"
      /\ castOf' \in [Sockets -> Attaches \union {Nothing}]
      /\ revoked' = revoked \union Holder
  BY <1>0, Emptied DEF Evicting
<1>2. SlotType' /\ LoopEndsWithBrowser'
  BY <1>0, <1>1 DEF SlotType, LoopEndsWithBrowser
<1>3. OpenedIsTold'
  <2>1. \A s \in Sockets : sock'[s] # "unopened" => s \in revoked' \union dropped'
    BY <1>0, <1>1 DEF OpenedIsTold, Holder, SlotType
  <2>2. \A a \in Attaches : phase'[a] # "idle" => of'[a] \in Sockets /\ sock'[of'[a]] # "unopened"
    BY <1>0 DEF OpenedIsTold
  <2>3. \A s \in Sockets : phase'[s] # "idle" => of'[s] = s
    BY <1>0 DEF OpenedIsTold, Attaches
  <2>4. \A s \in revoked' \union dropped' : s \in Sockets /\ sock'[s] # "unopened"
    BY <1>0, <1>1, HoldersAreSockets DEF OpenedIsTold, OneScreen
  <2>5. QED
    BY <2>1, <2>2, <2>3, <2>4 DEF OpenedIsTold
<1>4. \A a \in Attaches : phase'[a] = "starting" => of[a] \in revoked' \union dropped'
  BY <1>0, <1>1 DEF OpenedIsTold, Holder, SlotType
<1>5. QED
  BY <1>1, <1>2, <1>3, <1>4 DEF ScreenInv, WindowsAreUp

LEMMA LaunchEndsKeeps ==
  ASSUME ScreenInv, LaunchEnds
  PROVE  ScreenInv'
<1>1. /\ sock' = sock /\ of' = of /\ dropped' = dropped
      /\ phase' \in [Attaches -> {"idle", "held", "joined", "starting", "swapping"}]
      /\ \A a \in Attaches : phase'[a] # "idle" <=> phase[a] # "idle"
  BY DEF LaunchEnds, Waiting, ScreenInv, SlotType
<1>2. CASE asked # "none"
  BY <1>1, <1>2, EvictingKeeps DEF LaunchEnds
<1>3. CASE asked = "none"
  <2>1. /\ UNCHANGED <<current, revoked, follow, castOf, rolling>> /\ browser' = "up"
        /\ Owners' = Owners /\ Holder' = Holder
    BY <1>1, <1>3 DEF LaunchEnds, Untorn, Owners, Holder
  <2>2. SlotType' /\ OneScreen'
    BY <1>1, <2>1 DEF ScreenInv, SlotType, OneScreen
  <2>3. OpenedIsTold'
    BY <1>1, <2>1, ToldAsBefore DEF ScreenInv
  <2>4. WindowsAreUp' /\ LoopEndsWithBrowser'
    BY <2>1 DEF WindowsAreUp, LoopEndsWithBrowser
  <2>5. QED
    BY <2>2, <2>3, <2>4 DEF ScreenInv
<1>4. QED
  BY <1>2, <1>3

LEMMA LaunchFailsKeeps ==
  ASSUME ScreenInv, LaunchFails
  PROVE  ScreenInv'
<1>1. SlotType' /\ OpenedIsTold' /\ OneScreen' /\ follow' \subseteq follow
      /\ revoked \subseteq revoked' /\ dropped' = dropped
  <2>1. Failing(Waiting) /\ UNCHANGED of /\ Waiting \subseteq Attaches /\ \A b \in Waiting : phase[b] # "idle"
    BY DEF LaunchFails, Waiting
  <2>2. QED
    BY <2>1, Failed
<1>2. /\ browser' \in {"down", "lost"} /\ pages' = pages
      /\ browser' = "down" => browser = "launching" /\ browser \notin {"up", "closing"}
      /\ browser \notin {"up", "closing"}
  BY DEF LaunchFails
<1>3. QED
  BY <1>1, <1>2 DEF ScreenInv, WindowsAreUp, LoopEndsWithBrowser

LEMMA BrowserClosedKeeps ==
  ASSUME ScreenInv, BrowserClosed
  PROVE  ScreenInv'
<1>1. /\ UNCHANGED <<sock, slot, of>> /\ browser = "closing" /\ Owners' = Owners /\ Holder' = Holder
      /\ phase' \in [Attaches -> {"idle", "held", "joined", "starting", "swapping"}]
      /\ \A a \in Attaches : phase'[a] # "idle" <=> phase[a] # "idle"
      /\ browser' \in {"down", "launching"} /\ pages' = {} /\ rolling' = {}
  BY DEF BrowserClosed, ScreenInv, SlotType, Owners, Holder
<1>2. SlotType' /\ OneScreen' /\ LoopEndsWithBrowser'
  BY <1>1 DEF ScreenInv, SlotType, OneScreen, LoopEndsWithBrowser
<1>3. OpenedIsTold'
  BY <1>1, ToldAsBefore DEF ScreenInv
<1>4. WindowsAreUp'
  BY <1>1 DEF WindowsAreUp
<1>5. QED
  BY <1>2, <1>3, <1>4 DEF ScreenInv

\* The steps that touch the browser's windows, or the wheel, only.
LEMMA OthersKeep ==
  ASSUME ScreenInv,
         BotAsks \/ StopLaunching \/ StopGivesUp \/ StopNothing \/ Crash
           \/ WindowOpens \/ WindowCloses \/ Take \/ HandBack \/ Forget
  PROVE  ScreenInv'
<1>0. UNCHANGED <<sock, revoked, castOf, follow, phase, of>> /\ rolling' \subseteq rolling
  BY DEF BotAsks, StopLaunching, StopGivesUp, StopNothing, Crash, WindowOpens, WindowCloses, Take, HandBack, Forget
<1>1. current' = current /\ dropped' = dropped /\ Owners' = Owners /\ Holder' = Holder
  <2>1. current' = current /\ dropped' = dropped
    BY DEF BotAsks, StopLaunching, StopGivesUp, StopNothing, Crash, WindowOpens, WindowCloses, Take, HandBack,
       Forget, Occupied, Holder
  <2>2. QED
    BY <1>0, <2>1 DEF Owners, Holder
<1>2. /\ browser' \notin {"up", "closing"} =>
           (pages' = pages /\ browser \notin {"up", "closing"}) \/ pages' = {}
      /\ browser' = "closing" => browser = "closing"
      /\ browser' \in {"down", "launching"} => browser \in {"down", "launching"}
  BY DEF BotAsks, Launching, StopLaunching, StopGivesUp, StopNothing, Crash, WindowOpens, WindowCloses, Take,
     HandBack, Forget
<1>3. QED
  BY <1>0, <1>1, <1>2 DEF ScreenInv, SlotType, OpenedIsTold, WindowsAreUp, OneScreen, LoopEndsWithBrowser

LEMMA ScreenAtFirst ==
  ASSUME ScreenInit
  PROVE  ScreenInv
<1>1. (\A a \in Attaches : phase[a] = "idle") /\ (\A s \in Sockets : phase[s] = "idle" /\ sock[s] = "unopened")
  BY DEF ScreenInit, Attaches
<1>2. SlotType
  BY DEF ScreenInit, SlotType
<1>3. OpenedIsTold /\ WindowsAreUp /\ OneScreen /\ LoopEndsWithBrowser
  BY <1>1 DEF ScreenInit, OpenedIsTold, WindowsAreUp, OneScreen, LoopEndsWithBrowser, Holder, Owners
<1>4. QED
  BY <1>2, <1>3 DEF ScreenInv

LEMMA ScreenKept ==
  ASSUME ScreenInv, [ScreenNext]_screenVars
  PROVE  ScreenInv'
<1>1. CASE UNCHANGED screenVars
  BY <1>1 DEF ScreenInv, SlotType, OpenedIsTold, WindowsAreUp, OneScreen, LoopEndsWithBrowser, Holder, Owners
<1>2. CASE BrowserEvicted
  BY <1>2, EvictingKeeps DEF BrowserEvicted, ScreenInv, SlotType
<1>3. QED
  BY <1>1, <1>2, OpenKeeps, TickKeeps, InstalledKeeps, CastFailsKeeps, SettledKeeps, CloseKeeps,
     LaunchEndsKeeps, LaunchFailsKeeps, BrowserClosedKeeps, OthersKeep DEF ScreenNext

\* The wheel goes back by a person's word, by a stop, or where nobody watches.
LEMMA WheelStep ==
  ASSUME ScreenInv, ScreenNext, wheel = "human", wheel' = "bot",
         NEW s \in Sockets, sock[s] = "open", s \notin revoked \union dropped
  PROVE  HandBack \/ StopNothing \/ asked = "stop"
<1>1. s = current
  BY DEF ScreenInv, OpenedIsTold
<1>2. ~Forget
  BY <1>1 DEF Forget, Occupied
<1>3. LaunchFails \/ StopGivesUp \/ BrowserClosed => asked = "stop"
  BY DEF LaunchFails, StopGivesUp, BrowserClosed
<1>4. QED
  BY <1>2, <1>3 DEF ScreenNext, Open, Tick, Close, Undelivered, Installed, CastFails, Settled, BotAsks, LaunchEnds, BrowserEvicted,
     StopLaunching, Crash, WindowOpens, WindowCloses, Take

(* The inductive invariant of the screen: whoever opened a socket has the  *)
(* screen, was told, or has a dropped session's slot, and nothing is cast  *)
(* but for who owns a slot.                                                *)
THEOREM ScreenInvariant == ScreenSpec => []ScreenInv
  BY ScreenAtFirst, ScreenKept, PTL DEF ScreenSpec

(* What Chrome casts and what loops ask for belong to one open socket:     *)
(* claim, release and releaseAll in viewer.ts. A socket whose session      *)
(* sessionFor dropped before the claim owns a slot beside it.              *)
THEOREM ScreenIsOne == ScreenSpec => []OneScreen
  BY ScreenInvariant, PTL DEF ScreenInv

(* No follow loop outlives a browser that was closed, but for one on a     *)
(* dropped session: onClosed in index.ts.                                  *)
THEOREM LoopsEnd == ScreenSpec => []LoopEndsWithBrowser
  BY ScreenInvariant, PTL DEF ScreenInv

(* The wheel is not taken under a watcher's screen, one watched through a  *)
(* session the map holds: forgetIdleSessions and the stop of index.ts.     *)
THEOREM WheelStays == ScreenSpec => WheelIsKept
<1>1. ScreenInv /\ [ScreenNext]_screenVars =>
        [wheel = "human" /\ wheel' = "bot" /\ (\E s \in Sockets : sock[s] = "open" /\ s \notin revoked \union dropped)
           => HandBack \/ StopNothing \/ asked = "stop"]_screenVars
  BY WheelStep
<1>2. QED
  BY <1>1, ScreenInvariant, PTL DEF ScreenSpec, WheelIsKept
-----------------------------------------------------------------------------
(* The types: windows are numbered as they are made, and the newest open   *)
(* one is among them; a cast behind an entry is one its own socket began.  *)

\* A set of windows has a newest one.
LEMMA Newest ==
  ASSUME NEW m \in Nat, NEW S, S \subseteq 1..m, S # {}
  PROVE  \E n \in S : \A k \in S : k <= n
<1> DEFINE Above(n) == { k \in S : k > n }
<1> DEFINE T == { Above(n) : n \in S }
<1>1. IsFiniteSet(S)
  <2>1. IsFiniteSet(1..m)
    BY FS_Interval
  <2>2. QED
    BY <2>1, FS_Subset
<1>2. T \subseteq FiniteSubsetsOf(S) /\ T # {}
  <2>1. ASSUME NEW n \in S PROVE Above(n) \in FiniteSubsetsOf(S)
    BY <1>1, FS_Subset DEF FiniteSubsetsOf
  <2>2. QED
    BY <2>1
<1>3. PICK x \in T : \A y \in T : ~(<<y, x>> \in StrictSubsetOrdering(S))
  <2> HIDE DEF T
  <2>1. QED
    BY <1>2, FS_StrictSubsetOrderingWellFounded, WFMin
<1>4. PICK n \in S : x = Above(n)
  BY <1>3
<1>5. ASSUME NEW k \in S, k > n PROVE FALSE
  <2>1. Above(k) \in T /\ k \in Above(n) /\ k \notin Above(k)
    BY <1>5
  <2>2. Above(k) \subseteq Above(n)
    <3>1. k \in 1..m /\ n \in 1..m /\ \A j \in S : j \in 1..m
      OBVIOUS
    <3>2. \A j \in S : j > k => j > n
      BY <3>1, <1>5
    <3>3. QED
      BY <3>2
  <2>3. <<Above(k), x>> \in StrictSubsetOrdering(S)
    BY <2>1, <2>2, <1>4 DEF StrictSubsetOrdering
  <2>4. QED
    BY <2>1, <2>3, <1>3
<1>6. \A k \in S : k <= n
  <2>1. \A k \in S : ~(k > n)
    BY <1>5
  <2>2. n \in 1..m /\ \A k \in S : k \in 1..m
    OBVIOUS
  <2>3. QED
    BY <2>1, <2>2
<1>7. QED
  BY <1>6

WindowType == made \in Nat /\ pages \subseteq 1..made /\ (browser = "up" => pages # {})

LEMMA PageIsOpen ==
  ASSUME WindowType, browser = "up"
  PROVE  LivePage \in pages /\ LivePage \in 0..made
<1>1. \E n \in pages : \A m \in pages : m <= n
  BY Newest DEF WindowType
<1>2. LivePage \in pages
  BY <1>1 DEF LivePage
<1>3. QED
  BY <1>2 DEF WindowType

LEMMA WindowsStayTyped ==
  ASSUME WindowType, [ScreenNext]_screenVars
  PROVE  WindowType' /\ made <= made'
<1>1. CASE LaunchEnds
  BY <1>1 DEF LaunchEnds, WindowType, Evicting
<1>2. CASE WindowOpens
  BY <1>2 DEF WindowOpens, WindowType
<1>3. CASE WindowCloses
  <2>1. pages # {LivePage}
    <3>1. Cardinality({LivePage}) = 1
      BY FS_Singleton
    <3>2. Cardinality(pages) > 1
      BY <1>3 DEF WindowCloses
    <3>3. QED
      BY <3>1, <3>2
  <2>2. pages # {}
    BY <1>3 DEF WindowCloses, WindowType
  <2>3. QED
    <3>1. pages' = pages \ {LivePage} /\ made' = made
      BY <1>3 DEF WindowCloses
    <3>2. pages' # {}
      BY <2>1, <2>2, <3>1
    <3>3. made \in Nat /\ pages' \subseteq 1..made
      BY <3>1 DEF WindowType
    <3>4. QED
      BY <3>1, <3>2, <3>3 DEF WindowType
<1>4. CASE Crash \/ BrowserClosed \/ BrowserEvicted
  BY <1>4 DEF Crash, BrowserClosed, BrowserEvicted, Evicting, WindowType
<1>5. CASE UNCHANGED <<pages, made>> /\ (browser' = "up" => browser = "up")
  BY <1>5 DEF WindowType
<1>6. QED
  BY <1>1, <1>2, <1>3, <1>4, <1>5 DEF ScreenNext, Open, Tick, Asked, Launching, Close, Undelivered, Installed, CastFails, Settled,
     BotAsks, LaunchFails, StopLaunching, StopGivesUp, StopNothing, Take, HandBack, Forget

\* The rest of the types, but what an entry casts.
StepType ==
  /\ browser \in {"down", "launching", "relaunching", "up", "dead", "closing", "lost"}
  /\ asked \in {"none", "stop", "forgotten"} /\ wheel \in {"bot", "human"}
  /\ revoked \subseteq Sockets /\ lapped \subseteq Sockets
  /\ rolling \subseteq Attaches /\ tearing \subseteq Attaches
  /\ casting \in [Sockets -> 0..made] /\ target \in [Attaches -> 0..made]
  /\ swap \in [Attaches -> Attaches \union {Nothing}]
  /\ turns \in 0..MaxTurns

\* Whose attach a cast behind an entry is; a first attach casts for its own socket only.
CastsAreOwn ==
  \A s \in Sockets : castOf[s] # Nothing =>
    /\ of[castOf[s]] = s /\ sock[s] # "unopened"
    /\ castOf[s] \in Sockets => castOf[s] = s

\* A slot that changes hands is torn down for some sockets, or for none.
LEMMA TornForSome ==
  ASSUME SlotType,
         \/ \E s \in Sockets : Claim(s) \/ ClaimDropped(s) \/ Release(s) \/ Undelivered(s)
         \/ ReleaseAll \/ Untorn
         \/ \E A \in SUBSET Attaches : Failing(A)
  PROVE  \E S \in SUBSET Sockets : TornDown(S)
<1>1. CASE Untorn
  BY <1>1, UntornIsNobody
<1>2. ASSUME NEW s \in Sockets, Claim(s) \/ ClaimDropped(s) \/ Release(s) \/ Undelivered(s)
      PROVE  \E S \in SUBSET Sockets : TornDown(S)
  BY <1>1, <1>2, HoldersAreSockets DEF Claim, ClaimDropped, Release, Undelivered
<1>3. CASE ReleaseAll
  BY <1>3, HoldersAreSockets DEF ReleaseAll
<1>4. ASSUME NEW A \in SUBSET Attaches, Failing(A) PROVE \E S \in SUBSET Sockets : TornDown(S)
  <2>1. (A \intersect Sockets) \ revoked \in SUBSET Sockets
    OBVIOUS
  <2>2. QED
    BY <1>4, <2>1 DEF Failing
<1>5. QED
  BY <1>1, <1>2, <1>3, <1>4

LEMMA TearingIsTyped ==
  ASSUME SlotType, StepType, NEW S \in SUBSET Sockets, TornDown(S)
  PROVE  revoked' \subseteq Sockets /\ rolling' \subseteq Attaches /\ tearing' \subseteq Attaches
  BY DEF TornDown, StepType, SlotType

LEMMA StepsStayTyped ==
  ASSUME WindowType, SlotType, OpenedIsTold, StepType, [ScreenNext]_screenVars
  PROVE  StepType'
<1>0. /\ made \in Nat /\ made' \in Nat /\ made <= made' /\ 0..made \subseteq 0..made'
      /\ browser = "up" => LivePage \in 0..made
  BY WindowsStayTyped, PageIsOpen DEF WindowType
<1> DEFINE Steps == /\ casting' \in [Sockets -> 0..made'] /\ target' \in [Attaches -> 0..made']
                    /\ swap' \in [Attaches -> Attaches \union {Nothing}]
           Slots == revoked' \subseteq Sockets /\ rolling' \subseteq Attaches /\ tearing' \subseteq Attaches
           Flags == /\ browser' \in {"down", "launching", "relaunching", "up", "dead", "closing", "lost"}
                    /\ asked' \in {"none", "stop", "forgotten"} /\ wheel' \in {"bot", "human"}
                    /\ lapped' \subseteq Sockets /\ turns' \in 0..MaxTurns
<1>1. Slots
  <2>1. CASE \/ \E s \in Sockets : Open(s) \/ Close(s) \/ Undelivered(s)
             \/ \E a \in Attaches : CastFails(a)
             \/ LaunchEnds \/ LaunchFails \/ BrowserEvicted
    <3>1. \/ \E s \in Sockets : Claim(s) \/ ClaimDropped(s) \/ Release(s) \/ Undelivered(s)
          \/ ReleaseAll \/ Untorn
          \/ \E A \in SUBSET Attaches : Failing(A)
      BY <2>1 DEF Open, Close, CastFails, LaunchEnds, LaunchFails, BrowserEvicted, Evicting, Waiting
    <3>2. QED
      BY <3>1, TornForSome, TearingIsTyped
  <2>2. ASSUME NEW a \in Attaches, Installed(a) PROVE Slots
    <3>1. castOf[of[a]] \in Attaches \union {Nothing}
      BY <2>2 DEF SlotType, OpenedIsTold, Installed
    <3>2. /\ revoked' = revoked /\ rolling' \subseteq rolling \union {a}
          /\ tearing' \subseteq tearing \union {a} \union ({castOf[of[a]]} \ {Nothing})
      BY <2>2 DEF Installed
    <3>3. QED
      BY <2>2, <3>1, <3>2 DEF StepType
  <2>3. ASSUME NEW a \in Attaches, Settled(a) PROVE Slots
    BY <2>3 DEF Settled, StepType
  <2>4. CASE Crash \/ BrowserClosed \/ WindowCloses
    BY <2>4 DEF Crash, BrowserClosed, WindowCloses, StepType
  <2>5. CASE UNCHANGED <<revoked, rolling, tearing>>
    BY <2>5 DEF StepType
  <2>6. QED
    BY <2>1, <2>2, <2>3, <2>4, <2>5 DEF ScreenNext, Tick, BotAsks, StopLaunching, StopGivesUp, StopNothing, WindowOpens,
       Take, HandBack, Forget
<1>2. Flags
  <2>1. ASSUME NEW s \in Sockets, Open(s) \/ Tick(s) \/ Close(s) \/ Undelivered(s) PROVE Flags
    BY <2>1 DEF Open, Tick, Close, Undelivered, Asked, Launching, StepType
  <2>2. ASSUME NEW a \in Attaches, Installed(a) \/ CastFails(a) \/ Settled(a) PROVE Flags
    BY <2>2 DEF Installed, CastFails, Settled, StepType
  <2>3. CASE BotAsks \/ LaunchEnds \/ LaunchFails \/ BrowserEvicted \/ StopLaunching \/ StopGivesUp \/ StopNothing
    BY <2>3 DEF BotAsks, Launching, LaunchEnds, LaunchFails, BrowserEvicted, Evicting, StopLaunching, StopGivesUp, StopNothing,
       StepType
  <2>4. CASE BrowserClosed \/ Crash \/ WindowOpens \/ WindowCloses \/ Take \/ HandBack \/ Forget \/ UNCHANGED screenVars
    BY <2>4 DEF BrowserClosed, Crash, WindowOpens, WindowCloses, Take, HandBack, Forget, StepType
  <2>5. QED
    BY <2>1, <2>2, <2>3, <2>4 DEF ScreenNext
<1>3. Steps
  <2>1. ASSUME NEW a \in Attaches, NEW s \in Sockets, Asked(a, s), UNCHANGED casting PROVE Steps
    BY <1>0, <2>1 DEF Asked, StepType
  <2>2. ASSUME NEW a \in Attaches, Installed(a) PROVE Steps
    <3>1. swap' = [swap EXCEPT ![a] = castOf[of[a]]] \/ swap' = swap
      BY <2>2 DEF Installed
    <3>2. casting' = [casting EXCEPT ![of[a]] = target[a]] \/ casting' = casting
      BY <2>2 DEF Installed
    <3>3. castOf[of[a]] \in Attaches \union {Nothing}
      BY <2>2 DEF SlotType, OpenedIsTold, Installed
    <3>4. target' = target /\ made' = made
      BY <2>2 DEF Installed, Even
    <3>5. swap' \in [Attaches -> Attaches \union {Nothing}]
      BY <3>1, <3>3 DEF StepType
    <3>6. casting' \in [Sockets -> 0..made]
      BY <3>2 DEF StepType
    <3>7. QED
      BY <3>4, <3>5, <3>6 DEF StepType
  <2>3. ASSUME NEW a \in Attaches, Settled(a) PROVE Steps
    <3>1. /\ casting' \in [Sockets -> 0..made] /\ swap' \in [Attaches -> Attaches \union {Nothing}]
          /\ target' = target /\ made' = made
      BY <2>3 DEF Settled, StepType
    <3>2. QED
      BY <3>1 DEF StepType
  <2>4. CASE LaunchEnds
    BY <1>0, <2>4 DEF LaunchEnds, StepType
  <2>5. CASE UNCHANGED <<casting, target, swap>>
    BY <1>0, <2>5 DEF StepType
  <2>6. QED
    BY <2>1, <2>2, <2>3, <2>4, <2>5 DEF ScreenNext, Open, Tick, Free, Attaches, Close, Undelivered, CastFails, BotAsks, LaunchFails, BrowserEvicted,
       StopLaunching, StopGivesUp, StopNothing, BrowserClosed, Crash, WindowOpens, WindowCloses, Take, HandBack, Forget
<1>4. QED
  BY <1>1, <1>2, <1>3 DEF StepType

\* A cast that is put in place was begun by its own socket.
LEMMA CastsStayOwn ==
  ASSUME ScreenInv, CastsAreOwn, [ScreenNext]_screenVars
  PROVE  CastsAreOwn'
<1>0. SlotType /\ OpenedIsTold
  BY DEF ScreenInv
<1>1. ASSUME NEW a \in Attaches, NEW s \in Sockets, Asked(a, s), \A x \in Sockets : castOf[x] # a
      PROVE  \A b \in Attaches : b # a => of'[b] = of[b]
  BY <1>1, <1>0 DEF Asked, SlotType
<1>2. (\A x \in Sockets : castOf'[x] \in {castOf[x], Nothing}) \/ \E a \in Attaches : Installed(a)
  <2>1. ASSUME NEW S \in SUBSET Sockets, TornDown(S)
        PROVE  \A x \in Sockets : castOf'[x] \in {castOf[x], Nothing}
    BY <2>1, <1>0 DEF TornDown, SlotType
  <2>2. \/ \E s \in Sockets : Claim(s) \/ ClaimDropped(s) \/ Release(s) \/ Undelivered(s)
        \/ ReleaseAll \/ Untorn
        \/ \E A \in SUBSET Attaches : Failing(A)
        \/ UNCHANGED castOf \/ \E a \in Attaches : Installed(a)
    BY DEF ScreenNext, Open, Tick, Close, CastFails, Settled, BotAsks, LaunchEnds, LaunchFails, BrowserEvicted, Evicting, Waiting,
       StopLaunching, StopGivesUp, StopNothing, BrowserClosed, Crash, WindowOpens, WindowCloses, Take, HandBack, Forget
  <2>3. QED
    BY <1>0, <2>1, <2>2, TornForSome
<1>3. \A s \in Sockets : sock[s] # "unopened" => sock'[s] # "unopened"
  <2>1. \/ UNCHANGED sock
        \/ \E s \in Sockets : sock' \in { [sock EXCEPT ![s] = "open"], [sock EXCEPT ![s] = "closed"] }
        \/ \E A \in SUBSET Attaches : Failing(A)
    BY DEF ScreenNext, Open, Tick, Close, Undelivered, Installed, CastFails, Settled, BotAsks, LaunchEnds, LaunchFails, BrowserEvicted, Waiting,
       StopLaunching, StopGivesUp, StopNothing, BrowserClosed, Crash, WindowOpens, WindowCloses, Take, HandBack, Forget
  <2>2. QED
    BY <2>1, <1>0 DEF SlotType, Failing
<1>4. ASSUME NEW x \in Sockets, castOf[x] # Nothing PROVE of'[castOf[x]] = of[castOf[x]]
  <2>0. castOf[x] \in Attaches /\ of[castOf[x]] = x /\ (castOf[x] \in Sockets => sock[castOf[x]] # "unopened")
    BY <1>4, <1>0 DEF CastsAreOwn, SlotType
  <2>1. CASE \E s \in Sockets : Open(s)
    BY <2>0, <2>1, <1>0 DEF Open, Asked, SlotType
  <2>2. CASE \E s \in Sockets : Tick(s)
    BY <2>0, <2>2, <1>0 DEF Tick, Free, Asked, SlotType
  <2>3. CASE of' = of
    BY <2>3
  <2>4. QED
    BY <2>1, <2>2, <2>3 DEF ScreenNext, Close, Undelivered, Installed, CastFails, Settled, BotAsks, LaunchEnds, LaunchFails, BrowserEvicted,
       StopLaunching, StopGivesUp, StopNothing, BrowserClosed, Crash, WindowOpens, WindowCloses, Take, HandBack, Forget
<1>5. CASE \A x \in Sockets : castOf'[x] \in {castOf[x], Nothing}
  BY <1>3, <1>4, <1>5 DEF CastsAreOwn
<1>6. ASSUME NEW a \in Attaches, Installed(a) PROVE CastsAreOwn'
  <2>1. /\ phase[a] = "starting" /\ of' = of /\ sock' = sock
        /\ castOf' = castOf \/ castOf' = [castOf EXCEPT ![of[a]] = a]
    BY <1>6 DEF Installed
  <2>2. of[a] \in Sockets /\ sock[of[a]] # "unopened" /\ (a \in Sockets => of[a] = a)
    BY <2>1, <1>0 DEF OpenedIsTold
  <2>3. QED
    BY <2>1, <2>2, <1>0 DEF CastsAreOwn, SlotType
<1>7. QED
  BY <1>2, <1>5, <1>6

(* Every variable of the screen keeps its type (viewer.ts, index.ts).      *)
THEOREM ScreenTypesHold == ScreenSpec => []ScreenTypeOK
<1> DEFINE J == ScreenInv /\ WindowType /\ StepType /\ CastsAreOwn
<1>1. ScreenInit => J
  <2> SUFFICES ASSUME ScreenInit PROVE J
    OBVIOUS
  <2>1. WindowType
    BY DEF ScreenInit, WindowType
  <2>2. StepType
    <3>1. 0 \in 0..made /\ 0 \in 0..MaxTurns
      BY DEF ScreenInit
    <3>2. QED
      BY <3>1 DEF ScreenInit, StepType
  <2>3. CastsAreOwn
    BY DEF ScreenInit, CastsAreOwn
  <2>4. QED
    BY <2>1, <2>2, <2>3, ScreenAtFirst
<1>2. J /\ [ScreenNext]_screenVars => J'
  BY ScreenKept, WindowsStayTyped, StepsStayTyped, CastsStayOwn DEF ScreenInv
<1>3. J => ScreenTypeOK
  BY DEF ScreenTypeOK, ScreenInv, SlotType, WindowType, StepType, CastsAreOwn
<1>4. QED
  <2> HIDE DEF J
  <2>1. QED
    BY <1>1, <1>2, <1>3, PTL DEF ScreenSpec
=============================================================================
