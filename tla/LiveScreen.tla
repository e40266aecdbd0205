------------------------------ MODULE LiveScreen ------------------------------
(***************************************************************************)
(* One Bot's live screen and wheel. A socket of a watcher claims the       *)
(* screen, waits for the Bot's page, casts it, and follows the page with a *)
(* loop; the next socket supersedes it, its own close releases it, and     *)
(* every close of the browser takes it down (agent-computer/src/viewer.ts, *)
(* the handlers of index.ts). The browser is BrowserProfiles' seen from    *)
(* one Bot: at most one, launching, running or closing. A session is the   *)
(* screen's slot and who holds the wheel, forgotten when nobody watches;   *)
(* slot and wheel below are those of the session the map holds, or would   *)
(* make: one nobody has used is no different from none. A socket may also  *)
(* claim on a session that was dropped before the claim: it then holds a   *)
(* slot of its own, which neither its close nor the browser's finds.       *)
(***************************************************************************)
EXTENDS Integers, FiniteSets

CONSTANTS
  Sockets,       \* each opened once; it is also the name of its first attach
  Latecomers,    \* those that may find more than 32 sessions in the map
  Ticks,         \* re-attaches of follow loops that may be in flight at once
  Nothing,
  MaxTurns       \* bound on windows opened and closed, and on closes and failures of the browser

ASSUME ScreenAssumption ==
  /\ Nothing \notin Sockets \union Ticks /\ Sockets \intersect Ticks = {}
  /\ Latecomers \subseteq Sockets /\ MaxTurns \in Nat

Attaches == Sockets \union Ticks

VARIABLES
  browser,       \* how the Bot's one browser is
  pages, made,   \* its open windows by number, the newest of them the live page; how many were ever made
  asked,         \* the stop waiting for a launch: none, or whether its answer hands the wheel back
  sock,          \* per socket: not opened yet, open, closed
  current,       \* the socket whose entry holds the screen
  dropped,       \* the sockets that claimed on a session the map does not hold
  revoked,       \* the sockets whose entry was revoked
  castOf,        \* per socket: the cast behind its entry
  follow,        \* the sockets whose follow loop ticks
  casting,       \* per socket: the window its attaches take to be cast
  phase, of, target, \* per attach: how far it got, for which socket, of which window
  swap,          \* per attach: the cast it replaced and waits for
  rolling,       \* the casts nobody has stopped
  tearing,       \* the casts whose stop is being waited for
  wheel,         \* who holds it: the Bot or a person
  lapped,        \* the sockets that had two attaches in flight (history)
  turns

context == <<browser, pages, made, asked>>
slot   == <<current, dropped, revoked, castOf, follow, tearing>>
steps  == <<phase, of, target, swap>>
screenVars   == <<context, sock, slot, casting, steps, rolling, wheel, lapped, turns>>

Turn == turns < MaxTurns /\ turns' = turns + 1
Even == UNCHANGED turns

LivePage == CHOOSE n \in pages : \A m \in pages : m <= n
InFlight(s) == { a \in Attaches : of[a] = s /\ phase[a] # "idle" }

ScreenInit ==
  /\ browser = "down" /\ pages = {} /\ made = 0 /\ asked = "none"
  /\ sock = [s \in Sockets |-> "unopened"] /\ current = Nothing /\ dropped = {} /\ revoked = {}
  /\ castOf = [s \in Sockets |-> Nothing] /\ follow = {}
  /\ casting = [s \in Sockets |-> 0]
  /\ phase = [a \in Attaches |-> "idle"] /\ of = [a \in Attaches |-> Nothing]
  /\ target = [a \in Attaches |-> 0] /\ swap = [a \in Attaches |-> Nothing]
  /\ rolling = {} /\ tearing = {} /\ wheel = "bot" /\ lapped = {} /\ turns = 0

-----------------------------------------------------------------------------
(* The slot.                                                               *)
\* Mutant: the slot is emptied, the entry goes on believing it owns the screen.
TornDownUnrevoked(S) ==
  /\ revoked' = revoked
  /\ follow' = follow \ S
  /\ castOf' = [s \in Sockets |-> IF s \in S THEN Nothing ELSE castOf[s]]
  /\ rolling' = rolling \ { castOf[s] : s \in S }
  /\ tearing' = tearing \union ({ castOf[s] : s \in S } \ {Nothing})

\* The entries are revoked, their loops cancelled, their casts stopped; tearDown waits for the stop.
TornDown(S) ==
  /\ revoked' = revoked \union S
  /\ follow' = follow \ S
  /\ castOf' = [s \in Sockets |-> IF s \in S THEN Nothing ELSE castOf[s]]
  /\ rolling' = rolling \ { castOf[s] : s \in S }
  /\ tearing' = tearing \union ({ castOf[s] : s \in S } \ {Nothing})

Untorn == UNCHANGED <<revoked, follow, castOf, rolling, tearing>>

Holder == {current} \ {Nothing}
Owners == Holder \union (dropped \ revoked)

\* claim: the screen is this socket's from here on, before the browser is asked.
Claim(s) == current' = s /\ TornDown(Holder)

\* release: only the socket that holds the screen gives it up.
Release(s) ==
  IF current = s THEN current' = Nothing /\ TornDown({s})
  ELSE UNCHANGED current /\ Untorn

\* Mutant: a browser that closes leaves its watchers to find out.
ReleaseAllNever == UNCHANGED current /\ Untorn

\* releaseAll: the browser went away; whoever watches is torn down, and told why.
ReleaseAll == current' = Nothing /\ TornDown(Holder)

\* Mutant: occupancy is read from the cast.
OccupiedCasting == \E s \in Sockets : current = s /\ castOf[s] # Nothing

Occupied == current # Nothing \/ \E c \in tearing : of[c] \notin dropped

Unused == ~Occupied /\ browser \notin {"up", "dead"} /\ wheel = "bot" /\ asked # "stop"

(* sessionFor made the session and, with more than 32 of them in the map,  *)
(* swept it away again before open could claim on it.                      *)
ClaimDropped(s) ==
  /\ s \in Latecomers /\ Unused
  /\ dropped' = dropped \union {s} /\ UNCHANGED current /\ Untorn

-----------------------------------------------------------------------------
\* Mutant: the record of the browser is there before its launch has answered.
LaunchingAtOnce == "up"

\* profiles.page without a running browser: joins the launch in flight, or starts one.
Launching ==
  CASE browser = "down" -> "launching"
    [] browser \in {"dead", "lost"} -> "relaunching"
    [] OTHER -> browser

(* An attach asks profiles.page: it is handed the live page, joins the     *)
(* launch in flight, waits for a close, or launches. A browser that died   *)
(* is replaced, and nobody is told.                                        *)
Asked(a, s) ==
  /\ of' = [of EXCEPT ![a] = s]
  /\ \/ browser = "up" /\ phase' = [phase EXCEPT ![a] = "starting"]
        /\ target' = [target EXCEPT ![a] = LivePage] /\ UNCHANGED browser
     \/ browser = "closing" /\ phase' = [phase EXCEPT ![a] = "held"] /\ UNCHANGED <<browser, target>>
     \/ /\ browser \notin {"up", "closing"} /\ phase' = [phase EXCEPT ![a] = "joined"]
        /\ browser' = Launching
        /\ UNCHANGED target
  /\ UNCHANGED <<pages, made, asked, swap>>

Open(s) ==
  /\ sock[s] = "unopened" /\ sock' = [sock EXCEPT ![s] = "open"]
  /\ (Claim(s) /\ UNCHANGED dropped) \/ ClaimDropped(s)
  /\ Asked(s, s)
  /\ UNCHANGED <<casting, wheel, lapped>> /\ Even

\* Mutant: a tick that finds anything cast returns.
CastAlreadyOnce(s) == casting[s] # 0

CastAlready(s) == browser = "up" /\ casting[s] = LivePage

Free == { a \in Ticks : phase[a] = "idle" /\ a \notin tearing /\ \A s \in Sockets : castOf[s] # a }

(* A tick of the follow loop; one that finds the live page cast already    *)
(* returns at once. Which free name its attach goes by tells nothing.      *)
Tick(s) ==
  /\ s \in follow /\ ~CastAlready(s)
  /\ Free # {} /\ Asked(CHOOSE a \in Free : TRUE, s)
  /\ lapped' = IF InFlight(s) = {} THEN lapped ELSE lapped \union {s}
  /\ UNCHANGED <<sock, slot, casting, rolling, wheel>> /\ Even

\* An attach that throws: the first one's socket gives up the slot it claimed, and is closed.
Failing(A) ==
  /\ phase' = [a \in Attaches |-> IF a \in A THEN "idle" ELSE phase[a]]
  /\ sock' = [s \in Sockets |-> IF s \in A THEN "closed" ELSE sock[s]]
  /\ current' = IF current \in A THEN Nothing ELSE current
  /\ TornDown((A \intersect Sockets) \ revoked) /\ UNCHANGED dropped

Refused(s) == s \in revoked

(* startScreencast answered: a claim that was revoked meanwhile has the    *)
(* cast stopped and gets no loop, another puts it in place of the one      *)
(* before it.                                                              *)
Installed(a) ==
  /\ phase[a] = "starting" /\ target[a] \in pages
  /\ LET s == of[a] IN
       \/ /\ Refused(s)
          /\ phase' = [phase EXCEPT ![a] = "idle"] /\ tearing' = tearing \union {a}
          /\ UNCHANGED <<castOf, follow, casting, swap, rolling>>
       \/ /\ ~Refused(s)
          /\ castOf' = [castOf EXCEPT ![s] = a]
          /\ rolling' = (rolling \ {castOf[s]}) \union {a}
          /\ tearing' = tearing \union ({castOf[s]} \ {Nothing})
          /\ swap' = [swap EXCEPT ![a] = castOf[s]]
          /\ \/ castOf[s] = Nothing /\ phase' = [phase EXCEPT ![a] = "idle"]
                /\ casting' = [casting EXCEPT ![s] = target[a]]
             \/ castOf[s] # Nothing /\ phase' = [phase EXCEPT ![a] = "swapping"] /\ UNCHANGED casting
          /\ follow' = IF a = s THEN follow \union {s} ELSE follow
  /\ UNCHANGED <<context, sock, current, dropped, revoked, of, target, wheel, lapped>> /\ Even

CastFails(a) ==
  /\ phase[a] = "starting" /\ target[a] \notin pages
  /\ Failing({a})
  /\ UNCHANGED <<context, casting, of, target, swap, wheel, lapped>> /\ Even

(* A stop answered, or its budget ran out: the attach that waited for it   *)
(* notes the window it cast.                                               *)
Settled(c) ==
  /\ c \in tearing /\ tearing' = tearing \ {c}
  /\ LET W == { a \in Attaches : phase[a] = "swapping" /\ swap[a] = c } IN
       /\ phase' = [a \in Attaches |-> IF a \in W THEN "idle" ELSE phase[a]]
       /\ swap' = [a \in Attaches |-> IF a \in W THEN Nothing ELSE swap[a]]
       /\ casting' = [s \in Sockets |-> IF \E a \in W : of[a] = s
                                        THEN target[CHOOSE a \in W : of[a] = s] ELSE casting[s]]
  /\ UNCHANGED <<context, sock, current, dropped, revoked, castOf, follow, of, target, rolling, wheel, lapped>> /\ Even

(* The watcher goes away, or a frame cannot be sent to it: close and       *)
(* release. The close asks the session in the map.                         *)
Close(s) ==
  /\ sock[s] = "open" /\ sock' = [sock EXCEPT ![s] = "closed"]
  /\ Release(s) /\ UNCHANGED dropped
  /\ UNCHANGED <<context, casting, steps, wheel, lapped>> /\ Even

(* A frame for a socket that is closed and whose cast runs on: where the   *)
(* send throws, the slot it claimed is released after all.                 *)
Undelivered(s) ==
  /\ sock[s] = "closed" /\ castOf[s] \in rolling
  /\ TornDown({s})
  /\ UNCHANGED <<context, sock, current, dropped, casting, steps, wheel, lapped>> /\ Even

-----------------------------------------------------------------------------
(* The browser.                                                            *)
\* A call of the Bot needs the page too.
BotAsks ==
  /\ browser \in {"down", "lost", "dead"}
  /\ browser' = Launching
  /\ UNCHANGED <<pages, made, asked, sock, slot, casting, steps, rolling, wheel, lapped>> /\ Even

Waiting == { a \in Attaches : phase[a] = "joined" }

Evicting ==
  /\ browser' = "closing" /\ ReleaseAll

(* A launch ends: those who waited are handed its page; a stop that waited *)
(* closes it in the same turn of the loop.                                 *)
LaunchEnds ==
  /\ browser \in {"launching", "relaunching"}
  /\ made' = made + 1 /\ pages' = {made'}
  /\ phase' = [a \in Attaches |-> IF a \in Waiting THEN "starting" ELSE phase[a]]
  /\ target' = [a \in Attaches |-> IF a \in Waiting THEN made' ELSE target[a]]
  /\ \/ asked = "none" /\ browser' = "up" /\ UNCHANGED current /\ Untorn
     \/ asked # "none" /\ Evicting
  /\ UNCHANGED <<asked, sock, dropped, casting, of, swap, wheel, lapped>> /\ Even

\* A stop that waited finds nothing to close, answers, and the wheel goes back.
LaunchFails ==
  /\ browser \in {"launching", "relaunching"} /\ Turn
  /\ browser' = IF browser = "launching" THEN "down" ELSE "lost"
  /\ Failing(Waiting)
  /\ asked' = "none" /\ wheel' = IF asked = "stop" THEN "bot" ELSE wheel
  /\ UNCHANGED <<pages, made, casting, of, target, swap, lapped>>

(* The cap, the idle sweep, or a stop, which hands the wheel back once it  *)
(* is through. A stop waits for a launch, within bounds; one that finds    *)
(* nothing is done.                                                        *)
BrowserEvicted ==
  /\ browser \in {"up", "dead"} /\ Turn /\ Evicting
  /\ \E how \in {"stop", "none"} : asked' = how
  /\ UNCHANGED <<pages, made, sock, dropped, casting, steps, wheel, lapped>>

StopLaunching ==
  /\ browser \in {"launching", "relaunching"} /\ asked = "none" /\ Turn
  /\ asked' = "stop"
  /\ UNCHANGED <<browser, pages, made, sock, slot, casting, steps, rolling, wheel, lapped>>

StopGivesUp ==
  /\ browser \in {"launching", "relaunching"} /\ asked # "none"
  /\ asked' = "none" /\ wheel' = IF asked = "stop" THEN "bot" ELSE wheel
  /\ UNCHANGED <<browser, pages, made, sock, slot, casting, steps, rolling, lapped>> /\ Even

StopNothing ==
  /\ browser \in {"down", "lost", "closing"} /\ wheel = "human" /\ wheel' = "bot"
  /\ UNCHANGED <<context, sock, slot, casting, steps, rolling, lapped>> /\ Even

(* The context is closed: a stop answers, and whoever waited for the close *)
(* launches the browser again.                                             *)
BrowserClosed ==
  /\ browser = "closing"
  /\ LET Held == { a \in Attaches : phase[a] = "held" } IN
       /\ browser' = IF Held = {} THEN "down" ELSE "launching"
       /\ phase' = [a \in Attaches |-> IF a \in Held THEN "joined" ELSE phase[a]]
  /\ pages' = {} /\ rolling' = {}
  /\ asked' = "none" /\ wheel' = IF asked = "stop" THEN "bot" ELSE wheel
  /\ UNCHANGED <<made, sock, slot, casting, of, target, swap, lapped>> /\ Even

Crash ==
  /\ browser = "up" /\ Turn
  /\ browser' = "dead" /\ pages' = {} /\ rolling' = {}
  /\ UNCHANGED <<made, asked, sock, slot, casting, steps, wheel, lapped>>

\* The site opens a window, or the live page closes and the record goes back to the newest left.
WindowOpens ==
  /\ browser = "up" /\ Turn
  /\ made' = made + 1 /\ pages' = pages \union {made'}
  /\ UNCHANGED <<browser, asked, sock, slot, casting, steps, rolling, wheel, lapped>>

WindowCloses ==
  /\ browser = "up" /\ Cardinality(pages) > 1 /\ Turn
  /\ pages' = pages \ {LivePage} /\ rolling' = { c \in rolling : target[c] # LivePage }
  /\ UNCHANGED <<browser, made, asked, sock, slot, casting, steps, wheel, lapped>>

-----------------------------------------------------------------------------
(* The wheel and the session.                                              *)
Take ==
  /\ wheel = "bot" /\ wheel' = "human"
  /\ UNCHANGED <<context, sock, slot, casting, steps, rolling, lapped>> /\ Even

HandBack ==
  /\ wheel = "human" /\ wheel' = "bot"
  /\ UNCHANGED <<context, sock, slot, casting, steps, rolling, lapped>> /\ Even

(* forgetIdleSessions, when another Bot's session is made: a new session   *)
(* next time. A stop still on its way hands the wheel of the forgotten one *)
(* back; whoever still held its screen would go on holding it.             *)
Forget ==
  /\ ~Occupied /\ browser \notin {"up", "dead"}
  /\ wheel = "human" \/ asked = "stop" \/ current # Nothing
  /\ wheel' = "bot" /\ current' = Nothing /\ dropped' = dropped \union Holder
  /\ asked' = IF asked = "stop" THEN "forgotten" ELSE asked
  /\ UNCHANGED <<browser, pages, made, sock, revoked, castOf, follow, tearing, casting,
                 steps, rolling, lapped>> /\ Even

ScreenNext ==
  \/ \E s \in Sockets : Open(s) \/ Tick(s) \/ Close(s) \/ Undelivered(s)
  \/ \E a \in Attaches : Installed(a) \/ CastFails(a) \/ Settled(a)
  \/ BotAsks \/ LaunchEnds \/ LaunchFails \/ BrowserEvicted \/ StopLaunching \/ StopGivesUp
  \/ StopNothing \/ BrowserClosed \/ Crash \/ WindowOpens \/ WindowCloses
  \/ Take \/ HandBack \/ Forget

ScreenSpec == ScreenInit /\ [][ScreenNext]_screenVars

(* Promises of the browser settle, and an interval that is set keeps       *)
(* firing.                                                                 *)
Fairness ==
  /\ WF_screenVars(LaunchEnds \/ LaunchFails) /\ WF_screenVars(BrowserClosed)
  /\ \A s \in Sockets : WF_screenVars(Tick(s))
  /\ \A a \in Attaches : WF_screenVars(Installed(a) \/ CastFails(a)) /\ WF_screenVars(Settled(a))

FairSpec == ScreenSpec /\ Fairness

-----------------------------------------------------------------------------
(* Every variable keeps its type; a cast behind an entry is one that this  *)
(* socket's attach started.                                                *)
ScreenTypeOK ==
  /\ browser \in {"down", "launching", "relaunching", "up", "dead", "closing", "lost"}
  /\ pages \subseteq 1..made /\ (browser = "up" => pages # {})
  /\ asked \in {"none", "stop", "forgotten"} /\ wheel \in {"bot", "human"}
  /\ sock \in [Sockets -> {"unopened", "open", "closed"}]
  /\ current \in Sockets \union {Nothing}
  /\ dropped \subseteq Sockets /\ revoked \subseteq Sockets /\ follow \subseteq Sockets
  /\ lapped \subseteq Sockets /\ rolling \subseteq Attaches /\ tearing \subseteq Attaches
  /\ castOf \in [Sockets -> Attaches \union {Nothing}]
  /\ \A s \in Sockets : castOf[s] # Nothing => of[castOf[s]] = s
  /\ casting \in [Sockets -> 0..made] /\ target \in [Attaches -> 0..made]
  /\ phase \in [Attaches -> {"idle", "held", "joined", "starting", "swapping"}]
  /\ of \in [Attaches -> Sockets \union {Nothing}] /\ swap \in [Attaches -> Attaches \union {Nothing}]
  /\ turns \in 0..MaxTurns

(* However opens, closes, launches and stops interleave, what Chrome casts *)
(* and what loops ask for the page belong to the one open socket that      *)
(* holds the screen: nothing is left running for a watcher who has gone.   *)
(* The exception is a socket whose session was dropped before its claim:   *)
(* it keeps one cast and one loop of its own until an attach of its own    *)
(* or a frame releases it.                                                 *)
OneScreen ==
  /\ \A c \in rolling : \E s \in Owners : castOf[s] = c
  /\ follow \subseteq Owners
  /\ \A s \in Holder : sock[s] = "open" /\ s \notin revoked \union dropped

(* A follow loop outlives no browser that was closed: what somebody        *)
(* stopped is not asked for again by a screen left open on it. A browser   *)
(* that died is replaced instead, and one whose replacement failed too is  *)
(* an exception: nobody finds it to close. So is a loop whose session was  *)
(* dropped before the claim.                                               *)
LoopEndsWithBrowser ==
  browser \in {"down", "closing", "launching"} => follow \subseteq dropped

(* index.ts says that "with the claim taken first there is always          *)
(* something for that close to release": once a socket has closed, no loop *)
(* of its asks for the page and no cast of its runs. A session dropped     *)
(* before the claim breaks it.                                             *)
CloseFindsItsClaim ==
  \A s \in Sockets : sock[s] = "closed" => s \notin follow /\ castOf[s] \notin rolling

Shown(s) == castOf[s] \in rolling /\ target[castOf[s]] = LivePage

(* A screen that stays open ends up casting the live page, whatever the    *)
(* browser went through, as long as no two of its attaches ever overlapped *)
(* and nobody casts beside it on a dropped session: viewer.ts says that    *)
(* two casts on one page stall each other.                                 *)
ScreenFollows ==
  \A s \in Sockets :
    []<>(current # s \/ s \in lapped \/ ~(dropped \subseteq revoked) \/ (browser = "up" /\ Shown(s)))

(* index.ts says that the cast follows the Bot's current page: when a      *)
(* follow loop has nothing to do, what is cast is the live page.           *)
IdleLoopCastsLivePage ==
  \A s \in follow : CastAlready(s) /\ InFlight(s) = {} => target[castOf[s]] = LivePage

(* Nobody loses the wheel under a screen they are watching: only a release *)
(* or a stop takes it back. Whoever watches on a dropped session watches   *)
(* beside the wheel.                                                       *)
WheelIsKept ==
  [][wheel = "human" /\ wheel' = "bot" /\ (\E s \in Sockets : sock[s] = "open" /\ s \notin revoked \union dropped)
       => HandBack \/ StopNothing \/ asked = "stop"]_screenVars
=============================================================================
