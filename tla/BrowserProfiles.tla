--------------------------- MODULE BrowserProfiles ----------------------------
(***************************************************************************)
(* The browsers of one computer: agent-computer/src/profiles.ts keeps one  *)
(* Chromium per Bot on that Bot's profile directory, started by the first  *)
(* call for a page, closed by a stop, a reset, the cap, the idle sweep or  *)
(* shutdown. All of it runs on one event loop: what a call does between    *)
(* two awaits is one step, and a call whose promise has settled goes on    *)
(* before anything else happens. Which of a browser's windows is the page  *)
(* is left out: a record is healthy or it is not.                          *)
(***************************************************************************)
EXTENDS Integers, Sequences, FiniteSets

CONSTANTS
  Bots,
  Requests,      \* calls made of the module; the browser a call launches bears its name
  None,
  MaxBrowsers,   \* MAX_LIVE_BROWSERS
  Kinds,         \* what is called: "page", "stop", "reset", "idle", "closeAll"
  Faults,        \* "launch": one fails, "wait": one for a launch runs out, "browser", "page": one goes
  MaxMishaps     \* bound on the faults

ASSUME ProfilesAssumption ==
  /\ None \notin Requests \union Bots
  /\ MaxBrowsers \in Nat \ {0}
  /\ Kinds \subseteq {"page", "stop", "reset", "idle", "closeAll"}
  /\ Faults \subseteq {"launch", "wait", "browser", "page"}
  /\ MaxMishaps \in Nat

VARIABLES
  live,          \* per Bot: the browser its record holds
  recent,        \* the Bots with a record, least recently used first
  starting,      \* per Bot: the launch in flight that calls join
  closing,       \* per Bot: the closes and resets in flight
  chrome,        \* per browser: the Chromium behind it
  leaving,       \* the browsers closeAll took out of the records
  ask,           \* per call: what was asked, and for which Bot
  at,            \* per call: how far it got
  held,          \* per page call: the closes it waits for
  on,            \* per call: the launch it waits for
  victims,       \* per call: the Bots whose browsers it is still to close
  ctx,           \* per call: the browser it is closing, or was handed
  owed,          \* per stop or reset: what ran or was starting when it was asked (history)
  raced,         \* the Bots whose half-dead browser was replaced next to another one (history)
  mishaps

table   == <<live, recent, starting>>
waits   == <<held, on>>
history == <<owed, raced>>
vars    == <<table, closing, chrome, leaving, ask, at, waits, victims, ctx, history, mishaps>>

\* A piece of work that holds a Bot's profile: one close, or one reset, of one call.
Works == Requests \X {"close", "reset"}

Kind(p) == ask[p].kind
BotOf(p) == ask[p].bot
Goto(p, stage) == at' = [at EXCEPT ![p] = stage]
Sound == UNCHANGED mishaps
Fault(f) == f \in Faults /\ mishaps < MaxMishaps /\ mishaps' = mishaps + 1

Over(p) == at[p] \in {"done", "failed"}
ShuttingDown == \E p \in Requests : Kind(p) = "closeAll"
Exited == \E p \in Requests : Kind(p) = "closeAll" /\ at[p] = "done"

Init ==
  /\ live = [b \in Bots |-> None] /\ recent = <<>>
  /\ starting = [b \in Bots |-> None] /\ closing = [b \in Bots |-> {}]
  /\ chrome = [c \in Requests |-> "none"] /\ leaving = {}
  /\ ask = [p \in Requests |-> [kind |-> "none", bot |-> None]]
  /\ at = [p \in Requests |-> "idle"]
  /\ held = [p \in Requests |-> {}] /\ on = [p \in Requests |-> None]
  /\ victims = [p \in Requests |-> <<>>] /\ ctx = [p \in Requests |-> None]
  /\ owed = [p \in Requests |-> {}] /\ raced = {}
  /\ mishaps = 0

(* A call whose wait is over: nothing else runs before it does.            *)
Runnable(p) ==
  \/ at[p] = "held" /\ held[p] \intersect closing[BotOf(p)] = {}
  \/ at[p] \in {"dropping", "redropping"} /\ chrome[ctx[p]] \in {"gone", "crashed"}
  \/ at[p] \in {"joined", "awaiting"} /\ on[p] \notin { q \in Requests : ~Over(q) }
  \/ at[p] = "evicting"

Quiet == ~Exited /\ \A p \in Requests : ~Runnable(p)

-----------------------------------------------------------------------------
(* The calls.                                                              *)
Called(p, kind, b) ==
  /\ Quiet /\ at[p] = "idle" /\ kind \in Kinds
  /\ ask' = [ask EXCEPT ![p] = [kind |-> kind, bot |-> b]]

Page(p, b) ==
  /\ Called(p, "page", b) /\ Goto(p, "held")
  /\ held' = [held EXCEPT ![p] = closing[b]]
  /\ UNCHANGED <<table, closing, chrome, leaving, on, victims, ctx, history>> /\ Sound

\* Mutant: a close looks at the records only.
AwaitedNothing(b) == None

\* closeOnRequest: a browser that is still starting is waited for, then closed.
Awaited(b) == starting[b]

Standing(b) == {live[b], starting[b]} \ {None}

Stop(p, b) ==
  /\ Called(p, "stop", b) /\ Goto(p, "awaiting")
  /\ on' = [on EXCEPT ![p] = Awaited(b)]
  /\ owed' = [owed EXCEPT ![p] = Standing(b)]
  /\ UNCHANGED <<table, closing, chrome, leaving, held, victims, ctx, raced>> /\ Sound

(* reset holds the profile from the start, and does not look whether it is *)
(* held already.                                                           *)
Reset(p, b) ==
  /\ Called(p, "reset", b) /\ Goto(p, "awaiting")
  /\ closing' = [closing EXCEPT ![b] = @ \union {<<p, "reset">>}]
  /\ on' = [on EXCEPT ![p] = Awaited(b)]
  /\ owed' = [owed EXCEPT ![p] = Standing(b)]
  /\ UNCHANGED <<table, chrome, leaving, held, victims, ctx, raced>> /\ Sound

\* sweepIdle: the clock is not modelled, any of the longest unused may be past the cutoff.
SweepIdle(p) ==
  /\ Called(p, "idle", None) /\ ~ShuttingDown /\ Goto(p, "evicting")
  /\ \E n \in 1..Len(recent) : victims' = [victims EXCEPT ![p] = SubSeq(recent, 1, n)]
  /\ UNCHANGED <<table, closing, chrome, leaving, waits, ctx, history>> /\ Sound

-----------------------------------------------------------------------------
(* A page.                                                                 *)
\* Mutant: a call launches without looking for a launch in flight.
JoinedNothing(b) == None

Joined(b) == starting[b]

Place(b) == CHOOSE i \in DOMAIN recent : recent[i] = b

Without(b) ==
  IF live[b] = None THEN recent
  ELSE [i \in 1..(Len(recent) - 1) |-> recent[IF i < Place(b) THEN i ELSE i + 1]]

Launch(p, b) ==
  /\ starting' = [starting EXCEPT ![b] = p]
  /\ chrome' = [chrome EXCEPT ![p] = "opening"]
  /\ Goto(p, "launching")

(* The close it waited for is over. It joins the launch in flight, is      *)
(* handed the healthy browser, closes a half-dead one, or launches.        *)
Join(p, b) ==
  /\ Joined(b) # None
  /\ on' = [on EXCEPT ![p] = Joined(b)] /\ Goto(p, "joined")
  /\ UNCHANGED <<table, chrome, ctx>>

Hand(p, b) ==
  /\ Joined(b) = None /\ live[b] # None /\ chrome[live[b]] = "up"
  /\ recent' = Append(Without(b), b)
  /\ ctx' = [ctx EXCEPT ![p] = live[b]] /\ Goto(p, "done")
  /\ UNCHANGED <<live, starting, chrome, on>>

\* Whoever asks second for one context's close is not told when it is over.
DropHalfDead(p, b) ==
  /\ Joined(b) = None /\ live[b] # None /\ chrome[live[b]] # "up"
  /\ Goto(p, IF \E q \in Requests : at[q] \in {"dropping", "redropping"} /\ ctx[q] = live[b]
             THEN "redropping" ELSE "dropping")
  /\ chrome' = [chrome EXCEPT ![live[b]] = IF @ = "pageless" THEN "ending" ELSE @]
  /\ ctx' = [ctx EXCEPT ![p] = live[b]]
  /\ UNCHANGED <<table, on>>

Start(p, b) ==
  /\ Joined(b) = None /\ live[b] = None
  /\ Launch(p, b)
  /\ UNCHANGED <<live, recent, on, ctx>>

Resume(p) ==
  /\ at[p] = "held" /\ Runnable(p) /\ ~Exited
  /\ LET b == BotOf(p) IN Join(p, b) \/ Hand(p, b) \/ DropHalfDead(p, b) \/ Start(p, b)
  /\ UNCHANGED <<closing, leaving, ask, held, victims, history>> /\ Sound

(* The half-dead browser's close answered: the record goes, whatever it    *)
(* holds by now, and a replacement is launched without another look.       *)
Replace(p) ==
  /\ ~Exited
  /\ at[p] \in {"dropping", "redropping"}
  /\ Runnable(p) \/ (at[p] = "redropping" /\ Quiet)
  /\ LET b == BotOf(p) IN
       /\ live' = [live EXCEPT ![b] = None]
       /\ recent' = Without(b)
       /\ Launch(p, b)
       /\ raced' = IF Standing(b) \ {ctx[p]} = {} THEN raced ELSE raced \union {b}
  /\ UNCHANGED <<closing, leaving, ask, waits, victims, ctx, owed>> /\ Sound

\* Mutant: the cap counts what ran before the launch.
OverfullBefore(running) == SubSeq(running, 1, Len(running) - 1 - MaxBrowsers)

\* chooseEvictions, the list already in order of use.
Overfull(running) == SubSeq(running, 1, Len(running) - MaxBrowsers)

Launched(p) ==
  /\ Quiet /\ at[p] = "launching"
  /\ LET b == BotOf(p) IN
       /\ chrome' = [chrome EXCEPT ![p] = "up"]
       /\ live' = [live EXCEPT ![b] = p]
       /\ recent' = Append(Without(b), b)
       /\ victims' = [victims EXCEPT ![p] = Overfull(recent')]
  /\ ctx' = [ctx EXCEPT ![p] = None]
  /\ Goto(p, "evicting")
  /\ UNCHANGED <<starting, closing, leaving, ask, waits, history>> /\ Sound

\* Mutant: a launch that is over stays in the table.
UnstartedNever(b) == UNCHANGED starting

\* finally: whatever the entry is by now, it goes.
Unstarted(b) == starting' = [starting EXCEPT ![b] = None]

LaunchFailed(p) ==
  /\ Quiet /\ at[p] = "launching" /\ Fault("launch")
  /\ chrome' = [chrome EXCEPT ![p] = "gone"]
  /\ Unstarted(BotOf(p)) /\ Goto(p, "failed")
  /\ UNCHANGED <<live, recent, closing, leaving, ask, waits, victims, ctx, history>>

JoinReturns(p) ==
  /\ at[p] = "joined" /\ Runnable(p) /\ ~Exited
  /\ Goto(p, at[on[p]])
  /\ ctx' = [ctx EXCEPT ![p] = on[p]]
  /\ UNCHANGED <<table, closing, chrome, leaving, ask, waits, victims, history>> /\ Sound

-----------------------------------------------------------------------------
(* A close.                                                                *)
\* The launch a stop or a reset waited for is over, or the wait ran out.
StopWaiting(p) ==
  /\ at[p] = "awaiting"
  /\ \/ Runnable(p) /\ ~Exited /\ UNCHANGED owed /\ Sound
     \/ ~Runnable(p) /\ Quiet /\ Fault("wait") /\ owed' = [owed EXCEPT ![p] = {}]
  /\ victims' = [victims EXCEPT ![p] = <<BotOf(p)>>]
  /\ Goto(p, "evicting")
  /\ UNCHANGED <<table, closing, chrome, leaving, ask, waits, ctx, raced>>

\* evict: the record goes first, then the viewers are told, then Chromium is.
Evict(p) ==
  /\ at[p] = "evicting" /\ victims[p] # <<>> /\ ~Exited
  /\ LET b == Head(victims[p]) IN
       \/ /\ live[b] = None
          /\ victims' = [victims EXCEPT ![p] = Tail(@)]
          /\ UNCHANGED <<live, recent, closing, at, ctx>>
       \/ /\ live[b] # None
          /\ ctx' = [ctx EXCEPT ![p] = live[b]]
          /\ live' = [live EXCEPT ![b] = None] /\ recent' = Without(b)
          /\ closing' = [closing EXCEPT ![b] = @ \union {<<p, "close">>}]
          /\ Goto(p, "announcing") /\ UNCHANGED victims
  /\ UNCHANGED <<starting, chrome, leaving, ask, waits, history>> /\ Sound

\* onClosed answered, or its budget ran out.
Announced(p) ==
  /\ Quiet /\ at[p] = "announcing"
  /\ chrome' = [chrome EXCEPT ![ctx[p]] = IF @ \in {"up", "pageless"} THEN "ending" ELSE @]
  /\ Goto(p, "closing")
  /\ UNCHANGED <<table, closing, leaving, ask, waits, victims, ctx, history>> /\ Sound

\* closeAndWait: the settle is taken to outlast what Chromium still writes.
Closed(p) ==
  /\ Quiet /\ at[p] = "closing" /\ chrome[ctx[p]] \in {"gone", "crashed"}
  /\ LET b == Head(victims[p]) IN closing' = [closing EXCEPT ![b] = @ \ {<<p, "close">>}]
  /\ victims' = [victims EXCEPT ![p] = Tail(@)]
  /\ Goto(p, "evicting")
  /\ UNCHANGED <<table, chrome, leaving, ask, waits, ctx, history>> /\ Sound

(* Nothing is left to close: a launch answers, a reset deletes.            *)
Finish(p) ==
  /\ at[p] = "evicting" /\ victims[p] = <<>> /\ ~Exited
  /\ IF Kind(p) = "page"
     THEN Unstarted(BotOf(p)) /\ ctx' = [ctx EXCEPT ![p] = p] /\ Goto(p, "done")
     ELSE /\ Goto(p, IF Kind(p) = "reset" THEN "deleting" ELSE "done")
          /\ UNCHANGED <<starting, ctx>>
  /\ UNCHANGED <<live, recent, closing, chrome, leaving, ask, waits, victims, history>> /\ Sound

Deleted(p) ==
  /\ Quiet /\ at[p] = "deleting"
  /\ closing' = [closing EXCEPT ![BotOf(p)] = @ \ {<<p, "reset">>}]
  /\ Goto(p, "done")
  /\ UNCHANGED <<table, chrome, leaving, ask, waits, victims, ctx, history>> /\ Sound

(* Shutdown: every record is cleared at once, and a launch in flight is    *)
(* not waited for.                                                         *)
CloseAll(p) ==
  /\ Called(p, "closeAll", None) /\ ~ShuttingDown /\ Goto(p, "leaving")
  /\ leaving' = { live[b] : b \in Bots } \ {None}
  /\ live' = [b \in Bots |-> None] /\ recent' = <<>>
  /\ UNCHANGED <<starting, closing, chrome, waits, victims, ctx, history>> /\ Sound

AllAnnounced(p) ==
  /\ Quiet /\ at[p] = "leaving"
  /\ chrome' = [c \in Requests |-> IF c \in leaving /\ chrome[c] \in {"up", "pageless"}
                                   THEN "ending" ELSE chrome[c]]
  /\ Goto(p, "exiting")
  /\ UNCHANGED <<table, closing, leaving, ask, waits, victims, ctx, history>> /\ Sound

Exit(p) ==
  /\ Quiet /\ at[p] = "exiting"
  /\ \A c \in leaving : chrome[c] \in {"gone", "crashed"}
  /\ chrome' = [c \in Requests |-> IF chrome[c] = "none" THEN "none" ELSE "gone"]
  /\ Goto(p, "done")
  /\ UNCHANGED <<table, closing, leaving, ask, waits, victims, ctx, history>> /\ Sound

-----------------------------------------------------------------------------
(* Chromium: it exits once told to, and may go by itself.                  *)
ChromeExits(c) ==
  /\ Quiet /\ chrome[c] = "ending"
  /\ chrome' = [chrome EXCEPT ![c] = "gone"]
  /\ UNCHANGED <<table, closing, leaving, ask, at, waits, victims, ctx, history>> /\ Sound

ChromeDies(c) ==
  /\ Quiet /\ chrome[c] = "up"
  /\ \/ Fault("browser") /\ chrome' = [chrome EXCEPT ![c] = "crashed"]
     \/ Fault("page") /\ chrome' = [chrome EXCEPT ![c] = "pageless"]
  /\ UNCHANGED <<table, closing, leaving, ask, at, waits, victims, ctx, history>>

\* The end of an instance: every call was made and answered, or the process is gone.
Rest ==
  /\ Exited \/ \A p \in Requests : Over(p)
  /\ UNCHANGED vars

Serve(p) ==
  \/ Resume(p) \/ Replace(p) \/ Launched(p) \/ JoinReturns(p)
  \/ StopWaiting(p) \/ Evict(p) \/ Announced(p) \/ Closed(p) \/ Finish(p) \/ Deleted(p)
  \/ AllAnnounced(p) \/ Exit(p)

Next ==
  \/ \E p \in Requests :
       \/ \E b \in Bots : Page(p, b) \/ Stop(p, b) \/ Reset(p, b)
       \/ SweepIdle(p) \/ CloseAll(p)
       \/ Serve(p) \/ LaunchFailed(p)
  \/ \E c \in Requests : ChromeExits(c) \/ ChromeDies(c)
  \/ Rest

Spec == Init /\ [][Next]_vars

-----------------------------------------------------------------------------
Stage == {"idle", "held", "joined", "dropping", "redropping", "launching", "awaiting",
          "evicting", "announcing", "closing", "deleting", "leaving", "exiting", "done", "failed"}

\* The order of use names the Bots with a record, each once.
OrderOfUse ==
  /\ recent \in Seq(Bots)
  /\ \A b \in Bots : live[b] # None <=> \E i \in DOMAIN recent : recent[i] = b
  /\ \A i, j \in DOMAIN recent : recent[i] = recent[j] => i = j

(* Every variable keeps its type, the order of use names the records, and  *)
(* a Chromium exists from its launch on.                                   *)
TypeOK ==
  /\ live \in [Bots -> Requests \union {None}] /\ starting \in [Bots -> Requests \union {None}]
  /\ OrderOfUse
  /\ closing \in [Bots -> SUBSET Works]
  /\ chrome \in [Requests -> {"none", "opening", "up", "pageless", "crashed", "ending", "gone"}]
  /\ leaving \subseteq Requests
  /\ at \in [Requests -> Stage]
  /\ \A p \in Requests : chrome[p] # "none" => Kind(p) = "page"
  /\ ask \in [Requests -> [kind : {"none", "page", "stop", "reset", "idle", "closeAll"},
                            bot : Bots \union {None}]]
  /\ victims \in [Requests -> Seq(Bots)]
  /\ held \in [Requests -> SUBSET Works] /\ owed \in [Requests -> SUBSET Requests]
  /\ on \in [Requests -> Requests \union {None}] /\ ctx \in [Requests -> Requests \union {None}]
  /\ raced \subseteq Bots /\ mishaps \in 0..MaxMishaps

\* Somebody has taken this browser out of its record to close it.
BeingClosed(c) ==
  \/ c \in leaving
  \/ \E p \in Requests : at[p] \in {"announcing", "closing"} /\ ctx[p] = c

\* The browsers of a Bot that run, or will, until somebody closes them.
Kept(b) == { c \in Requests : /\ BotOf(c) = b /\ ~BeingClosed(c)
                              /\ chrome[c] \in {"opening", "up", "pageless"} }

\* A call that is launching a browser, or closing others to make room for it.
Launches(p) == Kind(p) = "page" /\ at[p] \in {"launching", "evicting", "announcing", "closing"}

(* Whatever races, the table of launches names none that is over: nobody   *)
(* joins or awaits one. And a record names a browser this Bot launched.    *)
TableIsTrue ==
  /\ \A b \in Bots : starting[b] # None => Launches(starting[b]) /\ BotOf(starting[b]) = b
  /\ \A b \in Bots : live[b] # None => BotOf(live[b]) = b /\ chrome[live[b]] \notin {"none", "opening"}

(* However calls for a page, stops, resets, evictions and deaths fall, a   *)
(* Bot keeps at most one browser, and it is the one its record or the      *)
(* launch in flight names: none is left running where no stop reaches it.  *)
(* Two calls that replace one half-dead browser are the exception.         *)
OneBrowserPerBot ==
  \A b \in Bots \ raced : \A c \in Kept(b) : Kept(b) = {c} /\ c \in {live[b], starting[b]}

(* A stop or a reset that is past its close has closed what ran, and what  *)
(* was starting, when it was asked, unless its wait for the launch ran out.*)
StoppedIsClosed ==
  \A p \in Requests :
    at[p] \in {"deleting", "done"} /\ Kind(p) \in {"stop", "reset"} /\ BotOf(p) \notin raced
      => owed[p] \intersect Kept(BotOf(p)) = {}

(* Between two turns of the event loop no more browsers have finished      *)
(* launching, and are not being closed, than the cap allows.               *)
RunningIsCapped ==
  Quiet /\ raced = {} =>
    Cardinality({ c \in Requests : chrome[c] \in {"up", "pageless"} /\ ~BeingClosed(c) }) <= MaxBrowsers

(* reset says of itself that "the browser is closed before the directory   *)
(* is deleted": while it deletes, no Chromium of that Bot runs.            *)
DeletedAlone ==
  \A p, c \in Requests :
    at[p] = "deleting" /\ BotOf(c) = BotOf(p) => chrome[c] \notin {"opening", "up", "pageless", "ending"}

-----------------------------------------------------------------------------
(* What keeps those true, a conjunct a reason.                             *)

(* Which calls can be where, and what they have by then.                   *)
CallsAreWhole ==
  \A p \in Requests :
    /\ Kind(p) \in {"page", "stop", "reset"} => BotOf(p) \in Bots
    /\ at[p] = "idle" => Kind(p) = "none" /\ owed[p] = {}
    /\ at[p] \in {"held", "joined", "dropping", "redropping", "launching"} => Kind(p) = "page"
    /\ at[p] = "awaiting" => Kind(p) \in {"stop", "reset"}
    /\ at[p] = "deleting" => Kind(p) = "reset"
    /\ at[p] \in {"evicting", "announcing", "closing"} => Kind(p) \in {"page", "stop", "reset", "idle"}
    /\ at[p] \in {"leaving", "exiting"} => Kind(p) = "closeAll"
    /\ at[p] = "joined" => on[p] # None
    /\ at[p] \in {"dropping", "redropping", "announcing", "closing"} => ctx[p] # None
    /\ at[p] \in {"announcing", "closing"} => victims[p] # <<>>
    /\ at[p] \in {"evicting", "announcing", "closing"} /\ Kind(p) \in {"stop", "reset"}
         => victims[p] \in {<<>>, <<BotOf(p)>>}

\* A Chromium opens while its call launches it, and there is none before.
ChromeIsLaunched ==
  /\ \A c \in Requests : chrome[c] = "opening" => at[c] = "launching"
  /\ \A c \in Requests : at[c] = "launching" => chrome[c] = "opening" \/ Exited
  /\ \A c \in Requests : Launches(c) => chrome[c] # "none"
  /\ \A c \in Requests : at[c] \in {"idle", "held", "dropping", "redropping"} => chrome[c] = "none"

(* Of a Bot that was not raced: who launches is in the table, and nothing  *)
(* is in the record meanwhile; what was dropped is past its launch, and is *)
(* no page any more; what runs, and nobody closes, has the record.         *)
LaunchIsKnown ==
  \A c \in Requests : Launches(c) /\ BotOf(c) \notin raced =>
    starting[BotOf(c)] = c /\ (at[c] = "launching" => live[BotOf(c)] = None)

DroppedIsOver ==
  \A p \in Requests : at[p] \in {"dropping", "redropping"} =>
    /\ chrome[ctx[p]] \in {"ending", "crashed", "gone"} /\ BotOf(ctx[p]) = BotOf(p)
    /\ BotOf(p) \notin raced => ~Launches(ctx[p])

RunningIsOnRecord ==
  \A c \in Requests :
    chrome[c] \in {"up", "pageless"} /\ BotOf(c) \notin raced /\ ~BeingClosed(c)
      => live[BotOf(c)] = c

LeavingIsLast == leaving # {} => ShuttingDown

(* What a stop is to close was launched, or is the launch it waits for;    *)
(* once the stop has looked at the record, nobody keeps it any more.       *)
OwedIsFound ==
  \A p \in Requests :
    /\ \A c \in owed[p] :
         /\ Kind(p) \in {"stop", "reset"} /\ BotOf(c) = BotOf(p) /\ chrome[c] # "none"
         /\ chrome[c] = "opening" => at[p] = "awaiting" /\ on[p] = c
    /\ \/ at[p] \in {"announcing", "closing", "deleting", "done"}
       \/ at[p] = "evicting" /\ victims[p] = <<>>
       => BotOf(p) \in raced \/ owed[p] \intersect Kept(BotOf(p)) = {}

(* One record more than the cap allows is about to be closed, in this turn *)
(* of the event loop.                                                      *)
ExcessIsLeaving ==
  \/ Len(recent) <= MaxBrowsers
  \/ /\ Len(recent) = MaxBrowsers + 1
     /\ \E p \in Requests : at[p] = "evicting" /\ victims[p] # <<>> /\ live[Head(victims[p])] # None

IInv ==
  /\ TypeOK /\ CallsAreWhole /\ ChromeIsLaunched /\ TableIsTrue /\ LaunchIsKnown
  /\ DroppedIsOver /\ RunningIsOnRecord /\ LeavingIsLast /\ OwedIsFound /\ ExcessIsLeaving
=============================================================================
