---------------------------- MODULE ComputerActions ----------------------------
(***************************************************************************)
(* What a Bot does on its page passes through the server's gateway         *)
(* (server/src/computer/gateway.ts). A look lists the elements of the page *)
(* under a number the computer counts up, and the gateway stores the list, *)
(* one per computer (snapshot-store.ts). An action cites an element of a   *)
(* list by that number: the gateway resolves it in the stored list, asks   *)
(* the policy about the element, records the decision, and only then sends *)
(* the action to the computer (agent-computer/src/index.ts), which checks  *)
(* the number again. Calls run on any replica, and for several             *)
(* conversations at once; the container may be replaced under all of them, *)
(* and counts from one again. One Bot, whose container the supervisor      *)
(* keeps. A list is named by the document it describes; every element name *)
(* is taken to occur in every list, which is what makes confusion possible.*)
(***************************************************************************)
EXTENDS Integers

CONSTANTS
  Looks,         \* calls that take a snapshot
  Acts,          \* calls that act on an element they cite
  Opens,         \* calls that open a page
  Replicas, Home,\* the servers, and which of them each call is on
  Drills,        \* the calls whose policy may be in dry-run when it is asked
  MaxMoves,      \* bound on replaced containers, documents that go by themselves, and resets
  Faults,        \* "ensure": a computer is not found, "answer": one is lost, "trail": a row is not written
  MaxMishaps     \* bound on the faults

Calls == Looks \union Acts \union Opens
Governed == Acts \union Opens

ASSUME ActionsAssumption ==
  /\ Looks \intersect Acts = {} /\ Looks \intersect Opens = {} /\ Acts \intersect Opens = {}
  /\ Home \in [Calls -> Replicas] /\ Drills \subseteq Governed
  /\ MaxMoves \in Nat /\ MaxMishaps \in Nat
  /\ Faults \subseteq {"ensure", "answer", "trail"}

VARIABLES
  run,           \* which container this is
  count,         \* its session.snapshotId
  doc, made,     \* the document on the page, and how many there ever were
  listed,        \* the document its last list describes; 0 when it has made none
  known,         \* per replica: the run its last ensure reported
  row,           \* the stored list
  wiping,        \* a reset is past the computer and not past the row
  at,            \* per call: how far it got
  on,            \* per call: the run that serves it
  label, list,   \* per look: the number it answers, and the document it describes
  cites,         \* per act: the look whose list it cites
  stored,        \* per act: the row it loaded
  session,       \* per look or act: the run the provider names; 0 when nobody can say
  judged,        \* per act: the document whose element the policy was shown
  hit,           \* per governed call: the document it acted on
  rows,          \* per governed call: its rows on the trail
  lapped,        \* looks that were taken while another was (history)
  crossed,       \* acts during which something was listed or the container replaced (history)
  muddled,       \* the row was last written with a list of another run, or wiped (history)
  moves, mishaps

computer == <<run, count, doc, made, listed>>
looking  == <<label, list>>
acting   == <<cites, stored, judged>>
trail    == <<hit, rows>>
history  == <<lapped, crossed, muddled>>
bounds   == <<moves, mishaps>>
vars     == <<computer, known, row, wiping, at, on, looking, session, acting, trail, history, bounds>>

Goto(c, stage) == at' = [at EXCEPT ![c] = stage]
Fault(f) == f \in Faults /\ mishaps < MaxMishaps /\ mishaps' = mishaps + 1 /\ UNCHANGED moves
Calm == UNCHANGED bounds
Move == moves < MaxMoves /\ moves' = moves + 1 /\ UNCHANGED mishaps

NoRow == [label |-> 0, list |-> 0, session |-> 0, of |-> 0, alone |-> TRUE]

Init ==
  /\ run = 1 /\ count = 0 /\ doc = 1 /\ made = 1 /\ listed = 0
  /\ known = [s \in Replicas |-> 0] /\ row = NoRow /\ wiping = FALSE
  /\ at = [c \in Calls |-> "idle"] /\ on = [c \in Calls |-> 0]
  /\ label = [c \in Looks |-> 0] /\ list = [c \in Looks |-> 0]
  /\ cites \in [Acts -> Looks] /\ stored = [c \in Acts |-> NoRow]
  /\ session = [c \in Looks \union Acts |-> 0] /\ judged = [c \in Acts |-> 0]
  /\ hit = [c \in Governed |-> 0] /\ rows = [c \in Governed |-> {}]
  /\ lapped = {} /\ crossed = {} /\ muddled = FALSE /\ moves = 0 /\ mishaps = 0

(* The calls an act is crossed by: what is under way when a list is made   *)
(* or the container goes.                                                  *)
UnderWay == { c \in Acts : at[c] \notin {"idle", "done", "failed"} }

-----------------------------------------------------------------------------
(* locate: /ensure, which names the run as it gives the address. The       *)
(* address is the container's name, so what is sent there reaches whatever *)
(* run has the name by then.                                               *)
Ensured(c) == known' = [known EXCEPT ![Home[c]] = run]

LookLocates(c) ==
  /\ at[c] = "idle" /\ Ensured(c) /\ Goto(c, "located")
  /\ Calm /\ UNCHANGED <<computer, row, wiping, on, looking, session, acting, trail, history>>

(* snapshotPage: the count first, then the list the browser makes, then    *)
(* the answer, which reads the count once more.                            *)
Listing == { c \in Looks : at[c] \in {"counted", "listed"} }

Count(c) ==
  /\ at[c] = "located" /\ count' = count + 1
  /\ on' = [on EXCEPT ![c] = run] /\ Goto(c, "counted")
  /\ lapped' = IF Listing = {} THEN lapped ELSE lapped \union Listing \union {c}
  /\ Calm
  /\ UNCHANGED <<run, doc, made, listed, known, row, wiping, looking, session, acting, trail, crossed, muddled>>

Served(c) == on[c] = run

List(c) ==
  /\ at[c] = "counted" /\ Served(c)
  /\ listed' = doc /\ list' = [list EXCEPT ![c] = doc] /\ Goto(c, "listed")
  /\ crossed' = crossed \union UnderWay
  /\ Calm /\ UNCHANGED <<run, count, doc, made, known, row, wiping, on, label, session, acting, trail, lapped, muddled>>

Label(c) ==
  /\ at[c] = "listed" /\ Served(c)
  /\ label' = [label EXCEPT ![c] = count] /\ Goto(c, "labelled")
  /\ Calm /\ UNCHANGED <<computer, known, row, wiping, on, list, session, acting, trail, history>>

LookFails(c) ==
  /\ c \in Looks /\ at[c] \in {"counted", "listed"} /\ ~Served(c) /\ Goto(c, "failed")
  /\ Calm /\ UNCHANGED <<computer, known, row, wiping, on, looking, session, acting, trail, history>>

(* sessionOf: what this replica's last ensure said, this call's or a later *)
(* one's.                                                                  *)
Date(c) ==
  /\ at[c] = "labelled" /\ session' = [session EXCEPT ![c] = known[Home[c]]] /\ Goto(c, "dated")
  /\ Calm /\ UNCHANGED <<computer, known, row, wiping, on, looking, acting, trail, history>>

\* Mutant: forward only, whichever run it is.
SavedForward(r, n) == IF r.label < n.label THEN n ELSE r

(* save: forward within a session, and always across one.                  *)
Saved(r, n) == IF r = NoRow \/ r.label < n.label \/ r.session # n.session THEN n ELSE r

RowOf(c) == [label |-> label[c], list |-> list[c], session |-> session[c],
             of |-> on[c], alone |-> c \notin lapped]

Save(c) ==
  /\ at[c] = "dated" /\ row' = Saved(row, RowOf(c)) /\ Goto(c, "done")
  /\ muddled' = IF row' # RowOf(c) THEN muddled
                ELSE on[c] # run \/ session[c] # run \/ (muddled /\ label[c] # count)
  /\ Calm /\ UNCHANGED <<computer, known, wiping, on, looking, session, acting, trail, lapped, crossed>>

-----------------------------------------------------------------------------
(* govern: the stored list is loaded, then the computer located, then its  *)
(* run asked for, and the citation resolved.                               *)
Load(c) ==
  /\ at[c] = "idle" /\ at[cites[c]] = "done"
  /\ stored' = [stored EXCEPT ![c] = row] /\ Goto(c, "loaded")
  /\ Calm /\ UNCHANGED <<computer, known, row, wiping, on, looking, session, cites, judged, trail, history>>

ActLocates(c) ==
  /\ at[c] = "loaded"
  /\ \/ Ensured(c) /\ Goto(c, "located") /\ Calm
     \/ Fault("ensure") /\ Goto(c, "unlocated") /\ UNCHANGED known
  /\ UNCHANGED <<computer, row, wiping, on, looking, session, acting, trail, history>>

\* Mutant: a generation is compared, and not the run it belongs to.
ResolvedByLabel(r, n, s) == IF r = NoRow \/ r.label # n THEN 0 ELSE r.list

Resolved(r, n, s) ==
  IF r = NoRow \/ r.label # n \/ (s # 0 /\ r.session # 0 /\ r.session # s) THEN 0 ELSE r.list

\* The supervisor's list dates a container by its creation, which is no run's start.
Born == -1

(* sessionOf: the run of this replica's last ensure. One that never saw an *)
(* ensure asks the list, remembers what it says, and may get no answer.    *)
Names(c) == IF known[Home[c]] # 0 THEN {known[Home[c]]} ELSE {Born, 0}

(* The policy allows or refuses, and the decision is written down before   *)
(* anything is sent; what cannot be written down is not sent. A refusal in *)
(* dry-run is written down as one that is carried out, and is. An act      *)
(* whose computer was found goes there; for others it is looked for once   *)
(* more.                                                                   *)
Forwarded == {"allowed", "unenforced"}

Decide(c, next) ==
  \/ \E d \in Forwarded :
       /\ d = "unenforced" => c \in Drills
       /\ rows' = [rows EXCEPT ![c] = @ \union {d}] /\ Goto(c, next) /\ Calm
  \/ rows' = [rows EXCEPT ![c] = @ \union {"refused"}] /\ Goto(c, "done") /\ Calm
  \/ Fault("trail") /\ Goto(c, "failed") /\ UNCHANGED rows

GovernAct(c) ==
  /\ at[c] \in {"located", "unlocated"}
  /\ \E s \in Names(c) :
       /\ known' = [known EXCEPT ![Home[c]] = s]
       /\ session' = [session EXCEPT ![c] = s]
       /\ judged' = [judged EXCEPT ![c] = Resolved(stored[c], label[cites[c]], s)]
  /\ Decide(c, IF at[c] = "located" THEN "allowed" ELSE "nowhere")
  /\ UNCHANGED <<computer, row, wiping, on, looking, cites, stored, hit, history>>

GovernOpen(c) ==
  /\ at[c] = "idle" /\ Decide(c, "nowhere")
  /\ UNCHANGED <<computer, known, row, wiping, on, looking, session, acting, hit, history>>

(* A citation that could not be resolved in a list there is.               *)
Stale(c) == c \in Acts /\ stored[c] # NoRow /\ judged[c] = 0

\* Mutant: the refusal of a stale citation is thrown before the attempt.
RefusedOutside(c) == Goto(c, "failed")
RefusedInside(c) == Goto(c, "failing")

RefuseStale(c) ==
  /\ at[c] \in {"allowed", "nowhere"} /\ Stale(c) /\ RefusedInside(c)
  /\ Calm /\ UNCHANGED <<computer, known, row, wiping, on, looking, session, acting, trail, history>>

LocateAgain(c) ==
  /\ at[c] = "nowhere" /\ ~Stale(c)
  /\ \/ Ensured(c) /\ Goto(c, "allowed") /\ Calm
     \/ Fault("ensure") /\ Goto(c, "failing") /\ UNCHANGED known
  /\ UNCHANGED <<computer, row, wiping, on, looking, session, acting, trail, history>>

-----------------------------------------------------------------------------
(* The computer: the number is checked, then the element waited for, which *)
(* the browser looks up in its last list when it acts.                     *)
Arrive(c) ==
  /\ at[c] = "allowed" /\ ~Stale(c)
  /\ on' = [on EXCEPT ![c] = run] /\ Goto(c, "arrived")
  /\ Calm /\ UNCHANGED <<computer, known, row, wiping, looking, session, acting, trail, history>>

Check(c) ==
  /\ c \in Acts /\ at[c] = "arrived" /\ Served(c) /\ label[cites[c]] = count /\ Goto(c, "checked")
  /\ Calm /\ UNCHANGED <<computer, known, row, wiping, on, looking, session, acting, trail, history>>

Hit(c) ==
  /\ at[c] = "checked" /\ Served(c) /\ doc = listed
  /\ hit' = [hit EXCEPT ![c] = doc] /\ Goto(c, "landed")
  /\ Calm /\ UNCHANGED <<computer, known, row, wiping, on, looking, session, acting, rows, history>>

(* navigate: the document goes, and the count after it.                    *)
NewDocument == doc' = made + 1 /\ made' = made + 1

Go(c) ==
  /\ c \in Opens /\ at[c] = "arrived" /\ Served(c) /\ NewDocument
  /\ hit' = [hit EXCEPT ![c] = made + 1] /\ Goto(c, "gone")
  /\ Calm
  /\ UNCHANGED <<run, count, listed, known, row, wiping, on, looking, session, acting, rows, history>>

Bump(c) ==
  /\ at[c] = "gone" /\ Served(c) /\ count' = count + 1 /\ Goto(c, "landed")
  /\ Calm
  /\ UNCHANGED <<run, doc, made, listed, known, row, wiping, on, looking, session, acting, trail, history>>

(* A person has the wheel, the number is another, the element does not     *)
(* come, the page does not load, the container is gone, Stop was pressed.  *)
Miss(c) ==
  /\ c \in Governed /\ at[c] \in {"arrived", "checked", "gone"} /\ Goto(c, "failing")
  /\ Calm /\ UNCHANGED <<computer, known, row, wiping, on, looking, session, acting, trail, history>>

Answer(c) ==
  /\ at[c] = "landed"
  /\ \/ Goto(c, "done") /\ Calm
     \/ Fault("answer") /\ Goto(c, "failing")
  /\ UNCHANGED <<computer, known, row, wiping, on, looking, session, acting, trail, history>>

(* What was allowed and did not happen gets a row of its own.              *)
WriteFailure(c) ==
  /\ at[c] = "failing"
  /\ \/ rows' = [rows EXCEPT ![c] = @ \union {"failed"}] /\ Goto(c, "failed") /\ Calm
     \/ Fault("trail") /\ Goto(c, "untold") /\ UNCHANGED rows
  /\ UNCHANGED <<computer, known, row, wiping, on, looking, session, acting, hit, history>>

-----------------------------------------------------------------------------
(* The container stops, is replaced or restarts, and the next one counts   *)
(* from one; documents also go by themselves.                              *)
NewRun ==
  /\ Move /\ run' = run + 1 /\ count' = 0 /\ listed' = 0 /\ NewDocument
  /\ crossed' = crossed \union UnderWay /\ muddled' = FALSE
  /\ UNCHANGED <<known, row, at, on, looking, session, acting, trail, lapped>>

Replace == NewRun /\ UNCHANGED wiping

SiteMoves ==
  /\ Move /\ NewDocument
  /\ UNCHANGED <<run, count, listed, known, row, wiping, at, on, looking, session, acting, trail, history>>

(* resetComputer: the container first, the row some time after it.         *)
Reset == ~wiping /\ NewRun /\ wiping' = TRUE

Wipe ==
  /\ wiping /\ wiping' = FALSE /\ row' = NoRow /\ muddled' = (muddled \/ row.of = run)
  /\ Calm /\ UNCHANGED <<computer, known, at, on, looking, session, acting, trail, lapped, crossed>>

Look(c) == LookLocates(c) \/ Count(c) \/ List(c) \/ Label(c) \/ LookFails(c) \/ Date(c) \/ Save(c)
Act(c)  == Load(c) \/ ActLocates(c) \/ GovernAct(c)
Attempt(c) == \/ RefuseStale(c) \/ LocateAgain(c) \/ Arrive(c) \/ Check(c) \/ Hit(c) \/ Go(c) \/ Bump(c)
              \/ Miss(c) \/ Answer(c) \/ WriteFailure(c)

Next ==
  \/ \E c \in Looks : Look(c)
  \/ \E c \in Acts : Act(c)
  \/ \E c \in Opens : GovernOpen(c)
  \/ \E c \in Governed : Attempt(c)
  \/ Replace \/ SiteMoves \/ Reset \/ Wipe

Spec == Init /\ [][Next]_vars

-----------------------------------------------------------------------------
Stage == {"idle", "located", "counted", "listed", "labelled", "dated", "loaded", "unlocated", "allowed",
          "nowhere", "arrived", "checked", "gone", "landed", "failing", "done", "failed", "untold"}

Row == [label : Nat, list : 0..made, session : 0..run, of : 0..run, alone : BOOLEAN]

ComputerType == run \in Nat \ {0} /\ count \in Nat /\ made \in Nat /\ doc \in 1..made /\ listed \in 0..made

StoreType == known \in [Replicas -> Born..run] /\ row \in Row

FlagType == wiping \in BOOLEAN /\ muddled \in BOOLEAN

CallsType ==
  /\ at \in [Calls -> Stage] /\ on \in [Calls -> 0..run]
  /\ label \in [Looks -> Nat] /\ list \in [Looks -> 0..made] /\ cites \in [Acts -> Looks]
  /\ stored \in [Acts -> Row] /\ session \in [Looks \union Acts -> Born..run] /\ judged \in [Acts -> 0..made]

TrailType ==
  /\ hit \in [Governed -> 0..made] /\ rows \in [Governed -> SUBSET (Forwarded \union {"refused", "failed"})]
  /\ lapped \subseteq Looks /\ crossed \subseteq Acts
  /\ moves \in 0..MaxMoves /\ mishaps \in 0..MaxMishaps

\* Every variable keeps its type.
TypeOK == ComputerType /\ StoreType /\ FlagType /\ CallsType /\ TrailType

(* The element a Bot acts on is the element its policy was asked about,    *)
(* however old the list it cites and whichever replicas, conversations and *)
(* containers came in between. The windows the code leaves open are named: *)
(* lists made while another was being made, or stored under another run;   *)
(* no list stored at all; a list or a container that came while the act    *)
(* was under way; and a replica that could not ask which run it is.        *)
JudgedIsActed ==
  \A c \in Acts :
    /\ hit[c] # 0 /\ c \notin crossed /\ session[c] = on[c]
    /\ stored[c] # NoRow /\ stored[c].alone /\ stored[c].session = stored[c].of
    => judged[c] = hit[c]

(* A list that is the latest there is, of the page as it is, is honoured:  *)
(* what is left of an earlier container's lists, or comes in late, refuses *)
(* a Bot's citation until its next look at most.                           *)
FreshIsHonoured ==
  \A c \in Looks \ lapped :
    /\ at[c] = "done" /\ on[c] = run /\ session[c] = run /\ label[c] = count /\ list[c] = listed
    /\ doc = listed /\ ~muddled
    => Resolved(row, label[c], run) = list[c]

(* The trail tells what happened: nothing is done without its decision     *)
(* before it, one that lets it be done; and what was let and is over       *)
(* either was done or has its failure beside it, unless the failure itself *)
(* could not be written. A refusal in dry-run lets it be done, and says so.*)
TrailIsWhole ==
  \A c \in Governed :
    /\ hit[c] # 0 => rows[c] \intersect Forwarded # {} /\ "refused" \notin rows[c]
    /\ at[c] \in {"done", "failed"} /\ rows[c] \intersect Forwarded # {}
         => hit[c] # 0 \/ "failed" \in rows[c]

(* What the properties rest on, with TypeOK. A look is dated by an ensure  *)
(* of its own replica, so never by the supervisor's list. A look that is   *)
(* not lapped is the only one under way; its list is the browser's last as *)
(* long as its number is the count, wherever a row carries it; so it is at *)
(* the check, and unless the act is crossed it still is at the click.      *)
LooksAreLocated ==
  \A c \in Looks :
    /\ at[c] \in {"idle", "located", "counted", "listed", "labelled", "dated", "done", "failed"}
    /\ session[c] >= 0
    /\ at[c] \in {"located", "counted", "listed", "labelled", "dated"} => known[Home[c]] > 0
    /\ at[c] \in {"counted", "listed", "labelled", "dated", "done"} => on[c] > 0

LetBe(c) == \E d \in Forwarded : rows[c] = {d}

RowsAreTold ==
  \A c \in Governed :
    /\ at[c] \in {"idle", "loaded", "located", "unlocated"} => rows[c] = {} /\ hit[c] = 0
    /\ at[c] \in {"allowed", "nowhere", "arrived", "checked"} => LetBe(c) /\ hit[c] = 0
    /\ at[c] \in {"gone", "landed"} => LetBe(c) /\ hit[c] # 0
    /\ at[c] \in {"failing", "untold"} => LetBe(c)
    /\ at[c] = "done" => (LetBe(c) /\ hit[c] # 0) \/ (rows[c] = {"refused"} /\ hit[c] = 0)
    /\ at[c] = "failed" => \/ \E d \in Forwarded : rows[c] = {d, "failed"}
                           \/ rows[c] = {} /\ hit[c] = 0
    /\ at[c] \notin {"counted", "listed", "labelled", "dated"}

LooksAreAlone == \A c \in Listing \ lapped : Listing = {c}

Quietly == \A e \in Listing : ~Served(e)

Answered == { c \in Looks : at[c] \in {"labelled", "dated", "done"} }

Stands(r) == /\ r # NoRow => r.of > 0
             /\ r.of = run => r.label <= count
             /\ r.of = run /\ r.alone /\ r.label = count => listed = r.list /\ Quietly

ListsStand ==
  /\ \A c \in Looks :
       /\ c \notin lapped /\ Served(c) /\ at[c] = "listed" => listed = list[c]
       /\ c \in Answered => Stands(RowOf(c))
  /\ Stands(row)
  /\ \A c \in Acts : Stands(stored[c])

CitationsStand ==
  \A c \in Acts :
    /\ at[c] # "idle" => at[cites[c]] = "done"
    /\ at[c] \notin {"idle", "loaded", "located", "unlocated"}
         => judged[c] = Resolved(stored[c], label[cites[c]], session[c])
    /\ at[c] \in {"arrived", "checked", "landed"} \/ hit[c] # 0 => ~Stale(c)

Sure(c) ==
  /\ c \notin crossed /\ session[c] = on[c]
  /\ stored[c] # NoRow /\ stored[c].alone /\ stored[c].session = stored[c].of

CheckedIsListed ==
  \A c \in Acts : at[c] = "checked" /\ Served(c) /\ Sure(c) => judged[c] = listed

(* What FreshIsHonoured rests on besides. The lists about, answered or     *)
(* stored: none bears the number that a look is about to answer, unless it *)
(* is lapped; so those that bear the count with an unlapped answer describe*)
(* the same document. And a row that is not muddled is of this container   *)
(* exactly if it is dated so, and then no earlier than any such answer.    *)
Carried == {row} \union { RowOf(c) : c \in Answered }

NumbersAreNew ==
  \A c \in Listing \ lapped : Served(c) => \A r \in Carried : r.of = run => r.label < count

NumbersAgree ==
  \A c \in Answered \ lapped : Served(c) /\ label[c] = count =>
    \A r \in Carried : r.of = run /\ r.label = count => r.list = list[c]

RowIsCurrent ==
  ~muddled => /\ row.of = run <=> row.session = run
              /\ \A c \in Looks : at[c] = "done" /\ Served(c) /\ session[c] = run
                                   => row.of = run /\ label[c] <= row.label

IInv == /\ TypeOK /\ LooksAreLocated /\ RowsAreTold /\ LooksAreAlone /\ ListsStand
        /\ CitationsStand /\ CheckedIsListed /\ JudgedIsActed
        /\ NumbersAreNew /\ NumbersAgree /\ RowIsCurrent

(* snapshot-store.ts says that the number a list is stamped with increases *)
(* by one per snapshot: no two lists of one container bear the same.       *)
LabelsAreUnique ==
  \A c, d \in Looks :
    c # d /\ on[c] = on[d] /\ label[c] # 0 /\ label[d] # 0 => label[c] # label[d]

(* provider.ts says that sessionOf answers "which run of this Bot's        *)
(* computer is current": an act that cites the list of that run is not     *)
(* refused as stale on the strength of its answer.                         *)
CurrentIsHonoured ==
  \A c \in Acts :
    /\ at[c] = "nowhere" /\ c \notin crossed /\ session[c] \in {Born, run}
    /\ stored[c].of = run /\ stored[c].session = run /\ stored[c].label = label[cites[c]]
    => ~Stale(c)
=============================================================================
