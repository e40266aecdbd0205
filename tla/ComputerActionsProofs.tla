------------------------- MODULE ComputerActionsProofs -------------------------
(***************************************************************************)
(* That a click lands on the element the policy was asked about, that the  *)
(* latest list is honoured, and that the trail tells of every action, for  *)
(* any number of calls, replicas, containers, documents and faults.        *)
(* The invariant follows a list from the browser that makes it to the      *)
(* click that uses it: a list made alone is the browser's last as long as its number is    *)
(* the count (ListsStand), so a citation that passes the computer's check  *)
(* points into it, and still does at the click unless something was listed *)
(* or the container replaced meanwhile (CheckedIsListed). On the way to    *)
(* the store, lists that bear the count are of one document (NumbersAgree),*)
(* and the row is the last of what its container answered (RowIsCurrent).  *)
(***************************************************************************)
EXTENDS ComputerActions, TLAPS

USE ActionsAssumption

\* The steps that touch the computer itself.
LEMMA ComputerMoves ==
  ASSUME [Next]_vars
  PROVE  \/ UNCHANGED computer
         \/ \E c \in Looks : Count(c)
         \/ \E c \in Looks : List(c)
         \/ \E c \in Governed : Go(c)
         \/ \E c \in Governed : Bump(c)
         \/ NewRun
         \/ SiteMoves
  BY DEF Next, Look, Act, Attempt, vars, computer, Replace, Reset, Wipe, LookLocates, Label, LookFails,
     Date, Save, Load, ActLocates, GovernAct, GovernOpen, RefuseStale, LocateAgain, Arrive, Check, Hit, Miss,
     Answer, WriteFailure

\* Containers and documents are only ever added.
LEMMA ComputerTypes ==
  ASSUME ComputerType, [Next]_vars
  PROVE  ComputerType' /\ run <= run' /\ made <= made'
<1>1. CASE UNCHANGED computer
  BY <1>1 DEF ComputerType, computer
<1>2. CASE \E c \in Looks : Count(c) \/ List(c)
  BY <1>2 DEF ComputerType, Count, List
<1>3. CASE \E c \in Governed : Go(c) \/ Bump(c)
  BY <1>3 DEF ComputerType, Go, Bump, NewDocument
<1>4. CASE NewRun \/ SiteMoves
  BY <1>4 DEF ComputerType, NewRun, SiteMoves, NewDocument
<1>5. QED
  BY <1>1, <1>2, <1>3, <1>4, ComputerMoves

\* What was a run, a document or a row stays one.
LEMMA RowsGrow ==
  ASSUME ComputerType, ComputerType', run <= run', made <= made'
  PROVE  Row \subseteq Row' /\ 0..made \subseteq (0..made)' /\ 0..run \subseteq (0..run)'
         /\ Born..run \subseteq (Born..run)' /\ 0..run \subseteq Born..run
  BY DEF Row, ComputerType, Born

\* A replica's run comes from an ensure or from the supervisor's list.
LEMMA KnownMoves ==
  ASSUME [Next]_vars
  PROVE  \/ known' = known
         \/ \E c \in Calls : Ensured(c)
         \/ \E c \in Acts : \E s \in Names(c) : known' = [known EXCEPT ![Home[c]] = s]
  BY DEF Next, Look, Act, Attempt, vars, Calls, Governed, Replace, Reset, NewRun, LookLocates, Count, List,
     Label, LookFails, Date, Save, Load, ActLocates, GovernAct, GovernOpen, RefuseStale, LocateAgain, Arrive,
     Check, Hit, Go, Bump, Miss, Answer, WriteFailure, SiteMoves, Wipe

\* The stored row is written by a save and by a reset alone.
LEMMA RowMoves ==
  ASSUME [Next]_vars
  PROVE  \/ row' = row
         \/ \E c \in Looks : Save(c)
         \/ Wipe
  BY DEF Next, Look, Act, Attempt, vars, Replace, Reset, NewRun, LookLocates, Count, List, Label, LookFails,
     Date, Load, ActLocates, GovernAct, GovernOpen, RefuseStale, LocateAgain, Arrive, Check, Hit, Go, Bump,
     Miss, Answer, WriteFailure, SiteMoves

\* The two flags stay flags.
LEMMA FlagMoves == FlagType /\ [Next]_vars => FlagType'
<1> SUFFICES ASSUME FlagType, [Next]_vars PROVE FlagType'
  OBVIOUS
<1>1. ASSUME NEW c \in Looks, Look(c) PROVE FlagType'
  BY <1>1, Zenon DEF FlagType, Look, history, LookLocates, Count, List, Label, LookFails, Date, Save
<1>2. ASSUME NEW c \in Governed, (c \in Acts /\ Act(c)) \/ (c \in Opens /\ GovernOpen(c)) PROVE FlagType'
  BY <1>2, Zenon DEF FlagType, Act, history, Load, ActLocates, GovernAct, GovernOpen
<1>3. ASSUME NEW c \in Governed, Attempt(c) PROVE FlagType'
  BY <1>3, Zenon DEF FlagType, Attempt, history, RefuseStale, LocateAgain, Arrive, Check, Hit, Go, Bump,
     Miss, Answer, WriteFailure
<1>4. CASE Replace \/ SiteMoves \/ Reset \/ Wipe \/ UNCHANGED vars
  BY <1>4, Zenon DEF FlagType, vars, history, Replace, Reset, NewRun, SiteMoves, Wipe
<1>5. QED
  BY <1>1, <1>2, <1>3, <1>4 DEF Next, Governed

\* A step moves at most one call on, to a stage there is.
LEMMA StagesMove ==
  ASSUME [Next]_vars
  PROVE  at' = at \/ \E c \in Calls : \E stage \in Stage : Goto(c, stage)
<1>1. ASSUME NEW c \in Looks, Look(c) PROVE \E stage \in Stage : Goto(c, stage)
  BY <1>1 DEF Look, Stage, LookLocates, Count, List, Label, LookFails, Date, Save
<1>2. ASSUME NEW c \in Governed, (c \in Acts /\ Act(c)) \/ (c \in Opens /\ GovernOpen(c)) \/ Attempt(c)
      PROVE  \E stage \in Stage : Goto(c, stage)
  BY <1>2 DEF Act, Attempt, Stage, Decide, RefusedInside, Load, ActLocates, GovernAct, GovernOpen,
     RefuseStale, LocateAgain, Arrive, Check, Hit, Go, Bump, Miss, Answer, WriteFailure
<1>3. CASE Replace \/ SiteMoves \/ Reset \/ Wipe \/ UNCHANGED vars
  BY <1>3 DEF vars, Replace, Reset, NewRun, SiteMoves, Wipe
<1>4. QED
  BY <1>1, <1>2, <1>3 DEF Next, Act, Attempt, Calls, Governed

\* What a step that is not a call's own leaves alone of it.
Steady(c) ==
  /\ on'[c] = on[c]
  /\ c \in Looks => label'[c] = label[c] /\ list'[c] = list[c] /\ session'[c] = session[c]
  /\ c \in Acts => /\ cites'[c] = cites[c] /\ stored'[c] = stored[c] /\ session'[c] = session[c]
                   /\ judged'[c] = judged[c]
  /\ c \in Governed => hit'[c] = hit[c] /\ rows'[c] = rows[c]

\* A step that is not a call's own leaves what is the call's alone.
LEMMA CallsMove ==
  ASSUME TypeOK, [Next]_vars, NEW d \in Calls
  PROVE  \/ at'[d] = at[d] /\ Steady(d)
         \/ d \in Looks /\ Look(d)
         \/ d \in Acts /\ Act(d)
         \/ d \in Opens /\ GovernOpen(d)
         \/ d \in Governed /\ Attempt(d)
<1>0. CallsType /\ TrailType
  BY DEF TypeOK
<1>1. ASSUME NEW c \in Looks, Look(c), c # d PROVE at'[d] = at[d] /\ Steady(d)
  BY <1>0, <1>1 DEF CallsType, Steady, Look, Goto, looking, acting, trail, LookLocates, Count, List, Label,
     LookFails, Date, Save, Calls, Governed
<1>2. ASSUME NEW c \in Governed, (c \in Acts /\ Act(c)) \/ (c \in Opens /\ GovernOpen(c)) \/ Attempt(c), c # d
      PROVE  at'[d] = at[d] /\ Steady(d)
  BY <1>0, <1>2 DEF Act, Attempt, CallsType, TrailType, Steady, Goto, looking, acting, trail, Decide,
     RefusedInside, Load, ActLocates, GovernAct, GovernOpen, RefuseStale, LocateAgain, Arrive, Check, Hit, Go,
     Bump, Miss, Answer, WriteFailure, Calls, Governed
<1>3. CASE Replace \/ SiteMoves \/ Reset \/ Wipe \/ UNCHANGED vars
  BY <1>3 DEF vars, Steady, looking, acting, trail, Replace, Reset, NewRun, SiteMoves, Wipe
<1>4. QED
  BY <1>1, <1>2, <1>3 DEF Next, Act, Attempt, Calls, Governed

\* What an act cites it cites throughout.
LEMMA CitesStay == [Next]_vars => cites' = cites
  BY DEF Next, Look, Act, Attempt, vars, acting, Replace, Reset, NewRun, LookLocates, Count, List, Label,
     LookFails, Date, Save, Load, ActLocates, GovernAct, GovernOpen, RefuseStale, LocateAgain, Arrive, Check,
     Hit, Go, Bump, Miss, Answer, WriteFailure, SiteMoves, Wipe

\* The store keeps its type.
LEMMA StoreTypes ==
  ASSUME TypeOK, LooksAreLocated, [Next]_vars
  PROVE  StoreType'
<1>0. ComputerType /\ StoreType /\ CallsType /\ ComputerType' /\ run <= run' /\ made <= made'
  BY ComputerTypes DEF TypeOK
<1>1. Row \subseteq Row' /\ Born..run \subseteq (Born..run)' /\ 0..run \subseteq Born..run /\ run \in Born..run
  BY <1>0, RowsGrow DEF Born, ComputerType
<1>2. known' \in [Replicas -> (Born..run)']
  <2>1. ASSUME NEW c \in Acts, NEW s \in Names(c) PROVE s \in Born..run
    BY <1>0, <1>1 DEF Names, Born, ComputerType, StoreType, Calls
  <2>2. CASE known' = known
    BY <2>2, <1>0, <1>1 DEF StoreType
  <2>3. CASE \E c \in Calls : Ensured(c)
    BY <2>3, <1>0, <1>1 DEF StoreType, Ensured
  <2>4. ASSUME NEW c \in Acts, NEW s \in Names(c), known' = [known EXCEPT ![Home[c]] = s]
        PROVE  known' \in [Replicas -> (Born..run)']
    BY <2>1, <2>4, <1>0, <1>1 DEF StoreType
  <2>5. QED
    BY <2>2, <2>3, <2>4, KnownMoves
<1>3. row' \in Row'
  <2>1. NoRow \in Row
    BY <1>0 DEF NoRow, Row, ComputerType
  <2>2. ASSUME NEW c \in Looks, at[c] = "dated" PROVE RowOf(c) \in Row
    <3>1. session[c] \in 0..run
      BY <1>0 DEF LooksAreLocated, CallsType, ComputerType, Born
    <3>2. QED
      BY <3>1, <1>0 DEF RowOf, Row, CallsType, Calls
  <2>3. QED
    BY <2>1, <2>2, <1>0, <1>1, RowMoves DEF StoreType, Save, Saved, Wipe
<1>4. QED
  BY <1>2, <1>3 DEF StoreType

\* The calls keep their types.
LEMMA CallTypes ==
  ASSUME TypeOK, LooksAreLocated, [Next]_vars
  PROVE  CallsType'
<1>0. ComputerType /\ StoreType /\ CallsType /\ ComputerType' /\ run <= run' /\ made <= made'
  BY ComputerTypes DEF TypeOK
<1>1. Row \subseteq Row' /\ Born..run \subseteq (Born..run)' /\ 0..run \subseteq (0..run)'
      /\ 0..made \subseteq (0..made)' /\ 0..run \subseteq Born..run
      /\ run \in 0..run /\ doc \in 0..made
  BY <1>0, RowsGrow DEF ComputerType
<1>2. at' \in [Calls -> Stage]
  BY <1>0, StagesMove DEF Goto, CallsType
<1>3. \/ UNCHANGED <<on, label, list, stored, session, judged>>
      \/ \E c \in Looks : Count(c) \/ List(c) \/ Label(c) \/ Date(c)
      \/ \E c \in Acts : Load(c) \/ GovernAct(c)
      \/ \E c \in Governed : Arrive(c)
  BY DEF Next, Look, Act, Attempt, vars, looking, acting, Replace, Reset, NewRun, LookLocates, LookFails,
     Save, ActLocates, GovernOpen, RefuseStale, LocateAgain, Check, Hit, Go, Bump, Miss, Answer, WriteFailure,
     SiteMoves, Wipe
<1>4. CASE UNCHANGED <<on, label, list, stored, session, judged>>
  BY <1>0, <1>1, <1>2, <1>4, CitesStay DEF CallsType
<1>5. ASSUME NEW c \in Looks, Count(c) \/ List(c) \/ Label(c) \/ Date(c) PROVE CallsType'
  <2>1. CASE Count(c)
    BY <1>0, <1>1, <1>2, <2>1 DEF CallsType, ComputerType, Count, looking, acting, Calls
  <2>2. CASE List(c)
    BY <1>0, <1>1, <1>2, <2>2 DEF CallsType, ComputerType, List, acting
  <2>3. CASE Label(c)
    BY <1>0, <1>1, <1>2, <2>3 DEF CallsType, ComputerType, Label, acting
  <2>4. CASE Date(c)
    BY <1>0, <1>1, <1>2, <2>4 DEF CallsType, StoreType, Date, looking, acting, Calls
  <2>5. QED
    BY <1>5, <2>1, <2>2, <2>3, <2>4
<1>6. ASSUME NEW c \in Acts, Load(c) PROVE CallsType'
  BY <1>0, <1>1, <1>2, <1>6 DEF CallsType, StoreType, Load, looking, Calls
<1>7. ASSUME NEW c \in Acts, GovernAct(c) PROVE CallsType'
  <2>1. PICK s \in Names(c) : /\ session' = [session EXCEPT ![c] = s]
                              /\ judged' = [judged EXCEPT ![c] = Resolved(stored[c], label[cites[c]], s)]
    BY <1>7 DEF GovernAct
  <2>2. s \in Born..run
    BY <1>0, <1>1 DEF Names, Born, ComputerType, StoreType, Calls
  <2>3. Resolved(stored[c], label[cites[c]], s) \in 0..made
    BY <1>0 DEF Resolved, CallsType, Row, ComputerType
  <2>4. QED
    BY <2>1, <2>2, <2>3, <1>0, <1>1, <1>2, <1>7 DEF CallsType, GovernAct, looking
<1>8. ASSUME NEW c \in Governed, Arrive(c) PROVE CallsType'
  BY <1>0, <1>1, <1>2, <1>8 DEF CallsType, Arrive, looking, acting, Calls, Governed
<1>9. QED
  BY <1>3, <1>4, <1>5, <1>6, <1>7, <1>8

\* The trail and the history keep their types.
LEMMA TrailTypes ==
  ASSUME TypeOK, [Next]_vars
  PROVE  TrailType'
<1>0. ComputerType /\ TrailType /\ ComputerType' /\ run <= run' /\ made <= made'
  BY ComputerTypes DEF TypeOK
<1>1. 0..made \subseteq (0..made)' /\ doc \in 0..made
  BY <1>0, RowsGrow DEF ComputerType
<1>2. hit' \in [Governed -> (0..made)']
  <2>1. \/ hit' = hit \/ \E c \in Governed : Hit(c) \/ Go(c)
    BY DEF Next, Look, Act, Attempt, vars, trail, Replace, Reset, NewRun, LookLocates, Count, List, Label,
       LookFails, Date, Save, Load, ActLocates, GovernAct, GovernOpen, RefuseStale, LocateAgain, Arrive, Check,
       Bump, Miss, Answer, WriteFailure, SiteMoves, Wipe
  <2>2. QED
    BY <2>1, <1>0, <1>1 DEF TrailType, ComputerType, Hit, Go, NewDocument
<1>3. rows' \in [Governed -> SUBSET (Forwarded \union {"refused", "failed"})]
  <2>1. \/ rows' = rows
        \/ \E c \in Governed : \E r \in Forwarded \union {"refused", "failed"} :
             rows' = [rows EXCEPT ![c] = @ \union {r}]
    BY DEF Next, Look, Act, Attempt, vars, trail, Replace, Reset, NewRun, Decide, Governed, LookLocates,
       Count, List, Label, LookFails, Date, Save, Load, ActLocates, GovernAct, GovernOpen, RefuseStale,
       LocateAgain, Arrive, Check, Hit, Go, Bump, Miss, Answer, WriteFailure, SiteMoves, Wipe
  <2>2. QED
    BY <2>1, <1>0 DEF TrailType
<1>4. lapped' \subseteq Looks
  BY <1>0 DEF Next, Look, Act, Attempt, vars, history, TrailType, Listing, Replace, Reset, NewRun,
     LookLocates, Count, List, Label, LookFails, Date, Save, Load, ActLocates, GovernAct, GovernOpen,
     RefuseStale, LocateAgain, Arrive, Check, Hit, Go, Bump, Miss, Answer, WriteFailure, SiteMoves, Wipe
<1>5. crossed' \subseteq Acts
  BY <1>0 DEF Next, Look, Act, Attempt, vars, history, TrailType, UnderWay, Replace, Reset, NewRun,
     LookLocates, Count, List, Label, LookFails, Date, Save, Load, ActLocates, GovernAct, GovernOpen,
     RefuseStale, LocateAgain, Arrive, Check, Hit, Go, Bump, Miss, Answer, WriteFailure, SiteMoves, Wipe
<1>6. moves' \in 0..MaxMoves /\ mishaps' \in 0..MaxMishaps
  <2>1. /\ moves' = moves \/ (moves < MaxMoves /\ moves' = moves + 1)
        /\ mishaps' = mishaps \/ (mishaps < MaxMishaps /\ mishaps' = mishaps + 1)
    BY DEF Next, Look, Act, Attempt, vars, bounds, Calm, Fault, Move, Decide, Replace, Reset, NewRun,
       LookLocates, Count, List, Label, LookFails, Date, Save, Load, ActLocates, GovernAct, GovernOpen,
       RefuseStale, LocateAgain, Arrive, Check, Hit, Go, Bump, Miss, Answer, WriteFailure, SiteMoves, Wipe
  <2>2. QED
    BY <2>1, <1>0 DEF TrailType
<1>7. QED
  BY <1>2, <1>3, <1>4, <1>5, <1>6 DEF TrailType

\* Every variable keeps its type.
LEMMA TypesAreKept == TypeOK /\ LooksAreLocated /\ [Next]_vars => TypeOK'
  BY ComputerTypes, StoreTypes, FlagMoves, CallTypes, TrailTypes DEF TypeOK


-----------------------------------------------------------------------------
(* One lemma per part of the invariant: a step keeps it.                   *)

\* A look goes on being dated by an ensure.
LEMMA LocatingIsKept ==
  ASSUME TypeOK, LooksAreLocated, [Next]_vars
  PROVE  LooksAreLocated'
<1> SUFFICES ASSUME NEW c \in Looks
             PROVE  /\ at'[c] \in {"idle", "located", "counted", "listed", "labelled", "dated", "done", "failed"}
                    /\ session'[c] >= 0
                    /\ at'[c] \in {"located", "counted", "listed", "labelled", "dated"} => known'[Home[c]] > 0
                    /\ at'[c] \in {"counted", "listed", "labelled", "dated", "done"} => on'[c] > 0
  BY DEF LooksAreLocated
<1>0. ComputerType /\ StoreType /\ CallsType /\ c \in Calls /\ c \notin Governed
  BY DEF TypeOK, Calls, Governed
<1>1. known[Home[c]] > 0 => known'[Home[c]] > 0
  BY <1>0, KnownMoves DEF Ensured, Names, StoreType, ComputerType, Calls
<1>2. CASE at'[c] = at[c] /\ Steady(c)
  BY <1>1, <1>2 DEF LooksAreLocated, Steady
<1>3. CASE Look(c)
  BY <1>0, <1>1, <1>3 DEF LooksAreLocated, Look, LookLocates, Count, List, Label, LookFails, Date, Save,
     Ensured, Goto, CallsType, StoreType, ComputerType, Born, looking, acting
<1>4. QED
  BY <1>0, <1>2, <1>3, CallsMove DEF Calls, Governed

\* The rows of a call go on telling its stage.
LEMMA TellingIsKept ==
  ASSUME TypeOK, RowsAreTold, [Next]_vars
  PROVE  RowsAreTold'
<1> DEFINE Told(c) ==
      /\ at[c] \in {"idle", "loaded", "located", "unlocated"} => rows[c] = {} /\ hit[c] = 0
      /\ at[c] \in {"allowed", "nowhere", "arrived", "checked"} => LetBe(c) /\ hit[c] = 0
      /\ at[c] \in {"gone", "landed"} => LetBe(c) /\ hit[c] # 0
      /\ at[c] \in {"failing", "untold"} => LetBe(c)
      /\ at[c] = "done" => (LetBe(c) /\ hit[c] # 0) \/ (rows[c] = {"refused"} /\ hit[c] = 0)
      /\ at[c] = "failed" => \/ \E d \in Forwarded : rows[c] = {d, "failed"}
                             \/ rows[c] = {} /\ hit[c] = 0
      /\ at[c] \notin {"counted", "listed", "labelled", "dated"}
<1> SUFFICES ASSUME NEW c \in Governed PROVE Told(c)'
  BY DEF RowsAreTold
<1>0. ComputerType /\ CallsType /\ TrailType /\ c \in Calls /\ Told(c)
  BY DEF TypeOK, RowsAreTold, Calls, Governed
<1>1. CASE at'[c] = at[c] /\ Steady(c)
  BY <1>0, <1>1 DEF Steady, LetBe
<1>2. CASE c \in Acts /\ Act(c)
  BY <1>0, <1>2 DEF Act, Load, ActLocates, GovernAct, Decide, Goto, CallsType, TrailType, Fault, trail, LetBe, Forwarded
<1>3. CASE c \in Opens /\ GovernOpen(c)
  BY <1>0, <1>3 DEF GovernOpen, Decide, Goto, CallsType, TrailType, trail, LetBe, Forwarded
<1>4. CASE Hit(c) \/ Go(c) \/ Bump(c)
  BY <1>0, <1>4 DEF Hit, Go, Bump, Goto, CallsType, TrailType, ComputerType, trail, LetBe, Forwarded
<1>5. CASE Attempt(c) /\ ~(Hit(c) \/ Go(c) \/ Bump(c) \/ WriteFailure(c))
  BY <1>0, <1>5 DEF Attempt, RefuseStale, RefusedInside, LocateAgain, Arrive, Check, Miss, Answer, Goto,
     CallsType, TrailType, trail, LetBe, Forwarded
<1>6. CASE WriteFailure(c)
  BY <1>0, <1>6 DEF WriteFailure, Goto, CallsType, TrailType, trail, LetBe, Forwarded
<1>7. QED
  BY <1>0, <1>1, <1>2, <1>3, <1>4, <1>5, <1>6, CallsMove DEF Calls, Governed

\* Who is making a list now was before, or has just counted.
LEMMA ListingGoesOn ==
  ASSUME TypeOK, [Next]_vars, NEW e \in Looks, e \in Listing'
  PROVE  (e \in Listing /\ on'[e] = on[e]) \/ Count(e)
<1>0. CallsType /\ e \in Calls /\ e \notin Governed
  BY DEF TypeOK, Calls, Governed
<1>1. CASE Look(e)
  BY <1>0, <1>1 DEF Listing, Look, LookLocates, Count, List, Label, LookFails, Date, Save, Goto, CallsType
<1>2. CASE at'[e] = at[e] /\ Steady(e)
  BY <1>2 DEF Listing, Steady
<1>3. QED
  BY <1>0, <1>1, <1>2, CallsMove DEF Calls, Governed

\* What has lapped or crossed has done so for good.
LEMMA LapsesGrow ==
  [Next]_vars => lapped \subseteq lapped' /\ crossed \subseteq crossed'
  BY DEF Next, Look, Act, Attempt, vars, history, Replace, Reset, NewRun, LookLocates, Count, List, Label,
     LookFails, Date, Save, Load, ActLocates, GovernAct, GovernOpen, RefuseStale, LocateAgain, Arrive, Check,
     Hit, Go, Bump, Miss, Answer, WriteFailure, SiteMoves, Wipe

\* A look that is not lapped is the only one listing.
LEMMA AlonenessIsKept ==
  ASSUME TypeOK, LooksAreAlone, [Next]_vars
  PROVE  LooksAreAlone'
<1>0. Listing \subseteq Looks /\ Listing' \subseteq Looks
  BY DEF Listing
<1>1. ASSUME NEW d \in Looks, Count(d) PROVE LooksAreAlone'
  <2>1. lapped' = IF Listing = {} THEN lapped ELSE lapped \union Listing \union {d}
    BY <1>1 DEF Count
  <2>2. Listing' = Listing \union {d}
    BY <1>1 DEF Count, Listing, Goto, TypeOK, CallsType, Calls
  <2>3. QED
    BY <2>1, <2>2, <1>0 DEF LooksAreAlone
<1>2. CASE \A d \in Looks : ~Count(d)
  <2>1. Listing' \subseteq Listing
    BY <1>0, <1>2, ListingGoesOn
  <2>2. QED
    BY <2>1, LapsesGrow DEF LooksAreAlone
<1>3. QED
  BY <1>1, <1>2


\* Nobody starts to list but by counting.
LEMMA QuietGoesOn ==
  ASSUME TypeOK, Quietly, [Next]_vars, run' = run, \A d \in Looks : ~Count(d)
  PROVE  Quietly'
<1>1. \A e \in Listing' : e \in Listing /\ on'[e] = on[e]
  BY ListingGoesOn DEF Listing
<1>2. QED
  BY <1>1 DEF Quietly, Served

\* A list that stands for what the browser listed last goes on to, whatever is done with the row.
LEMMA StandingGoesOn ==
  ASSUME TypeOK, [Next]_vars, NEW r \in Row, Stands(r),
         NEW q, q.of = r.of, q.label = r.label, q.list = r.list, q.alone \in BOOLEAN,
         q.alone => r.alone, q # NoRow => r # NoRow
  PROVE  Stands(q)'
<1>0. ComputerType /\ ComputerType' /\ run <= run' /\ r.of \in 0..run /\ r.label \in Nat /\ r.alone \in BOOLEAN
  BY ComputerTypes DEF TypeOK, Row
<1>1. CASE \E c \in Looks : Count(c)
  BY <1>0, <1>1 DEF Count, Stands, ComputerType
<1>2. CASE \E c \in Governed : Bump(c)
  BY <1>0, <1>2 DEF Bump, Stands, ComputerType
<1>3. CASE NewRun
  BY <1>0, <1>3 DEF NewRun, Stands, ComputerType
<1>4. ASSUME NEW c \in Looks, List(c) PROVE Stands(q)'
  <2>1. ~Quietly
    BY <1>4 DEF List, Quietly, Listing
  <2>2. run' = run /\ count' = count
    BY <1>4 DEF List
  <2>3. QED
    BY <2>1, <2>2 DEF Stands
<1>5. CASE run' = run /\ count' = count /\ listed' = listed /\ \A c \in Looks : ~Count(c)
  BY <1>5, QuietGoesOn DEF Stands
<1>6. CASE \E c \in Governed : Go(c)
  BY <1>0, <1>1, <1>5, <1>6 DEF Go
<1>7. QED
  BY <1>1, <1>2, <1>3, <1>4, <1>5, <1>6, ComputerMoves DEF computer, SiteMoves

\* Lists stand for what the browser listed last: at the look, in the row, and as loaded.
LEMMA StandingIsKept == IInv /\ [Next]_vars => ListsStand'
<1> SUFFICES ASSUME IInv, [Next]_vars PROVE ListsStand'
  OBVIOUS
<1>0. /\ TypeOK /\ ComputerType /\ StoreType /\ CallsType /\ ListsStand
      /\ ComputerType' /\ run <= run' /\ lapped \subseteq lapped' /\ TypeOK'
  BY ComputerTypes, TypesAreKept, LapsesGrow DEF TypeOK, IInv
<1>1. ASSUME NEW c \in Looks PROVE RowOf(c) \in Row
  <2>1. session[c] \in 0..run /\ c \in Calls
    BY <1>0 DEF IInv, LooksAreLocated, CallsType, ComputerType, Born, Calls
  <2>2. QED
    BY <2>1, <1>0 DEF RowOf, Row, CallsType
<1>2. ASSUME NEW c \in Looks, c \notin lapped', Served(c)', at'[c] = "listed" PROVE listed' = list'[c]
  <2>0. c \notin lapped /\ c \in Calls /\ c \notin Governed
    BY <1>0, <1>2 DEF Calls, Governed
  <2>1. CASE Look(c)
    BY <1>0, <1>2, <2>0, <2>1 DEF Look, LookLocates, Count, List, Label, LookFails, Date, Save, Goto, CallsType
  <2>2. CASE at'[c] = at[c] /\ Steady(c)
    <3>1. run' = run /\ Served(c)
      <4>1. on[c] \in 0..run
        BY <1>0, <2>0 DEF CallsType
      <4>2. run' = run \/ run' = run + 1
        BY ComputerMoves DEF computer, Count, List, Go, Bump, NewRun, SiteMoves
      <4>3. QED
        BY <4>1, <4>2, <2>2, <1>0, <1>2 DEF Served, Steady, ComputerType
    <3>2. ASSUME NEW d \in Looks, List(d) PROVE FALSE
      <4>1. Listing = {c}
        BY <1>2, <2>0, <2>2 DEF IInv, LooksAreAlone, Listing
      <4>2. at[d] = "counted" /\ d \in Listing
        BY <3>2 DEF List, Listing
      <4>3. QED
        BY <4>1, <4>2, <1>2, <2>2
    <3>3. listed' = listed
      <4>1. ~NewRun
        BY <3>1, <1>0 DEF NewRun, ComputerType
      <4>2. QED
        BY <3>2, <4>1, ComputerMoves DEF computer, Count, Go, Bump, SiteMoves
    <3>4. QED
      BY <3>1, <3>3, <1>0, <1>2, <2>0, <2>2 DEF ListsStand, Steady
  <2>3. QED
    BY <2>0, <2>1, <2>2, <1>0, CallsMove
<1>3. ASSUME NEW c \in Looks, c \in Answered' PROVE Stands(RowOf(c))'
  <2>0. /\ c \in Calls /\ c \notin Governed /\ RowOf(c) \in Row /\ RowOf(c)' \in Row'
        /\ RowOf(c)' = [label |-> label'[c], list |-> list'[c], session |-> session'[c],
                        of |-> on'[c], alone |-> c \notin lapped']
    <3>1. LooksAreLocated' /\ CallsType' /\ ComputerType'
      BY <1>0, LocatingIsKept DEF IInv, TypeOK
    <3>2. session'[c] \in 0..run' /\ c \in Calls
      BY <3>1 DEF LooksAreLocated, CallsType, ComputerType, Born, Calls
    <3>3. QED
      BY <3>1, <3>2, <1>1 DEF RowOf, Row, CallsType, Calls, Governed
  <2>1. CASE c \in Answered /\ label'[c] = label[c] /\ list'[c] = list[c] /\ on'[c] = on[c]
    <3>1. RowOf(c) # NoRow /\ Stands(RowOf(c))
      <4>1. on[c] > 0
        BY <2>1 DEF IInv, LooksAreLocated, Answered
      <4>2. QED
        BY <4>1, <2>1, <1>0 DEF RowOf, NoRow, ListsStand
    <3>2. \A q : /\ q.of = on[c] /\ q.label = label[c] /\ q.list = list[c] /\ q.alone \in BOOLEAN
                 /\ q.alone => c \notin lapped
                 => Stands(q)'
      BY <3>1, <2>0, <1>0, StandingGoesOn DEF RowOf
    <3>3. QED
      BY <3>2, <2>0, <2>1, <1>0 DEF Stands
  <2>2. CASE Label(c)
    <3>1. /\ label'[c] = count /\ list' = list /\ on' = on /\ run' = run /\ count' = count /\ listed' = listed
          /\ lapped' = lapped /\ at[c] = "listed" /\ Served(c) /\ at' = [at EXCEPT ![c] = "labelled"]
      BY <2>2, <1>0 DEF Label, CallsType, computer, history, Goto
    <3>2. on[c] = run
      BY <3>1 DEF Served
    <3>3. ASSUME c \notin lapped PROVE listed = list[c] /\ Quietly'
      <4>1. Listing = {c}
        BY <3>1, <3>3 DEF IInv, LooksAreAlone, Listing
      <4>2. Listing' = {}
        BY <4>1, <3>1, <1>0 DEF Listing, CallsType, Calls
      <4>3. QED
        BY <4>2, <3>1, <3>3, <1>0 DEF Quietly, ListsStand
    <3>4. /\ RowOf(c)'.of = run /\ RowOf(c)'.label = count /\ RowOf(c)'.list = list[c]
          /\ (RowOf(c)'.alone => c \notin lapped)
      BY <3>1, <3>2 DEF RowOf
    <3>5. run > 0 /\ count \in Nat /\ run' = run /\ count' = count /\ listed' = listed
      BY <1>0, <3>1 DEF ComputerType
    <3>6. QED
      BY <3>3, <3>4, <3>5 DEF Stands
  <2>3. CASE Look(c) /\ ~Label(c)
    BY <1>0, <1>3, <2>0, <2>1, <2>3 DEF Look, LookLocates, Count, List, LookFails, Date, Save, Goto,
       CallsType, looking, Answered
  <2>4. CASE at'[c] = at[c] /\ Steady(c)
    BY <1>3, <2>1, <2>4 DEF Steady, Answered
  <2>5. QED
    BY <2>0, <2>2, <2>3, <2>4, <1>0, CallsMove
<1>4. ASSUME NEW r \in Row, Stands(r) PROVE Stands(r)'
  BY <1>0, <1>4, StandingGoesOn DEF Row
<1>5. Stands(row)'
  <2>1. CASE row' = row
    BY <2>1, <1>0, <1>4 DEF ListsStand, StoreType, Stands
  <2>2. ASSUME NEW c \in Looks, Save(c) PROVE Stands(row)'
    <3>1. row' = row \/ row' = RowOf(c)
      BY <2>2 DEF Save, Saved
    <3>2. Stands(RowOf(c)) /\ RowOf(c) \in Row
      BY <2>2, <1>0, <1>1 DEF ListsStand, Save, Answered
    <3>3. QED
      BY <3>1, <3>2, <2>1, <1>4 DEF Stands
  <2>3. CASE Wipe
    BY <2>3, <1>0 DEF Wipe, Stands, NoRow, ComputerType
  <2>4. QED
    BY <2>1, <2>2, <2>3, RowMoves
<1>6. ASSUME NEW c \in Acts PROVE Stands(stored[c])'
  <2>0. c \in Calls /\ c \notin Looks /\ c \in Governed
    BY DEF Calls, Governed
  <2>1. CASE stored'[c] = stored[c]
    BY <2>1, <1>0, <1>4 DEF ListsStand, CallsType, Stands
  <2>2. CASE stored'[c] = row
    BY <2>2, <1>0, <1>4 DEF ListsStand, StoreType, Stands
  <2>3. CASE Act(c) \/ Attempt(c)
    BY <2>0, <2>1, <2>2, <2>3, <1>0
       DEF Act, Load, ActLocates, GovernAct, Attempt, RefuseStale, LocateAgain, Arrive, Check, Hit, Go,
          Bump, Miss, Answer, WriteFailure, CallsType, acting
  <2>4. CASE c \in Opens /\ GovernOpen(c)
    BY <2>0, <2>1, <2>4 DEF GovernOpen, acting
  <2>5. QED
    BY <2>0, <2>1, <2>3, <2>4, <1>0, CallsMove DEF Steady
<1>7. QED
  BY <1>2, <1>3, <1>5, <1>6 DEF ListsStand


\* What a look has answered and stored, it has for good.
LEMMA AnsweredIsKept ==
  ASSUME TypeOK, [Next]_vars, NEW d \in Looks, at[d] = "done"
  PROVE  at'[d] = "done" /\ label'[d] = label[d]
<1>0. d \in Calls /\ d \notin Governed
  BY DEF Calls, Governed
<1>1. ~Look(d)
  BY DEF Look, LookLocates, Count, List, Label, LookFails, Date, Save
<1>2. QED
  BY <1>0, <1>1, CallsMove DEF Steady

\* A step leaves an act alone, or is its own.
LEMMA ActsMove ==
  ASSUME TypeOK, [Next]_vars, NEW c \in Acts
  PROVE  \/ at'[c] = at[c] /\ Steady(c)
         \/ Act(c)
         \/ Attempt(c)
<1>1. c \in Calls /\ c \notin Looks /\ c \notin Opens
  BY DEF Calls
<1>2. QED
  BY <1>1, CallsMove

\* A judgement is what the citation resolved to, and a stale one goes nowhere.
LEMMA CitationsAreKept == IInv /\ [Next]_vars => CitationsStand'
<1> SUFFICES ASSUME IInv, [Next]_vars, NEW c \in Acts
             PROVE  /\ at'[c] # "idle" => at'[cites'[c]] = "done"
                    /\ at'[c] \notin {"idle", "loaded", "located", "unlocated"}
                         => judged'[c] = Resolved(stored'[c], label'[cites'[c]], session'[c])
                    /\ at'[c] \in {"arrived", "checked", "landed"} \/ hit'[c] # 0
                         => (stored'[c] # NoRow => judged'[c] # 0)
  BY DEF CitationsStand, Stale, Resolved, NoRow
<1>0. /\ TypeOK /\ CallsType /\ TrailType /\ CitationsStand /\ RowsAreTold /\ cites' = cites
      /\ cites[c] \in Looks /\ c \in Calls /\ c \in Governed
  BY CitesStay DEF TypeOK, IInv, CallsType, Calls, Governed
<1>1. /\ at[c] # "idle" => at[cites[c]] = "done"
      /\ at[c] \notin {"idle", "loaded", "located", "unlocated"}
           => judged[c] = Resolved(stored[c], label[cites[c]], session[c])
      /\ at[c] \in {"arrived", "checked", "landed"} \/ hit[c] # 0
           => (stored[c] # NoRow => judged[c] # 0)
      /\ at[c] \in {"idle", "loaded", "located", "unlocated", "allowed", "nowhere"} => hit[c] = 0
      /\ at[c] = "gone" => hit[c] # 0
  BY <1>0 DEF CitationsStand, Stale, RowsAreTold
<1>2. at[cites[c]] = "done" => at'[cites'[c]] = "done" /\ label'[cites'[c]] = label[cites[c]]
  BY <1>0, AnsweredIsKept
<1>3. CASE at'[c] = at[c] /\ Steady(c)
  BY <1>0, <1>1, <1>2, <1>3 DEF Steady
<1>4. CASE Load(c) \/ ActLocates(c)
  BY <1>0, <1>1, <1>2, <1>4 DEF Load, ActLocates, Goto, CallsType, trail
<1>5. CASE GovernAct(c)
  <2>1. PICK s \in Names(c) : /\ session' = [session EXCEPT ![c] = s]
                              /\ judged' = [judged EXCEPT ![c] = Resolved(stored[c], label[cites[c]], s)]
    BY <1>5 DEF GovernAct
  <2>2. /\ at[c] \in {"located", "unlocated"} /\ at'[c] \in {"allowed", "nowhere", "done", "failed"}
        /\ stored' = stored /\ hit' = hit
    BY <1>0, <1>5 DEF GovernAct, Decide, Goto, CallsType
  <2>3. session'[c] = s /\ judged'[c] = Resolved(stored[c], label[cites[c]], s)
    BY <2>1, <1>0 DEF CallsType
  <2>4. QED
    BY <2>2, <2>3, <1>1, <1>2
<1>6. CASE Attempt(c)
  <2>1. /\ stored' = stored /\ judged' = judged /\ session' = session
        /\ hit' = hit \/ (Hit(c) /\ at[c] = "checked" /\ at'[c] = "landed")
    BY <1>0, <1>6 DEF Attempt, RefuseStale, LocateAgain, Arrive, Check, Hit, Go, Bump, Miss, Answer,
       WriteFailure, Goto, CallsType, acting, trail
  <2>2. /\ at[c] \notin {"idle", "loaded", "located", "unlocated"}
        /\ at'[c] \in {"arrived", "checked", "landed"}
             => at[c] \in {"arrived", "checked", "landed", "gone"} \/ (stored[c] # NoRow => judged[c] # 0)
    BY <1>0, <1>6 DEF Attempt, RefuseStale, LocateAgain, Arrive, Check, Hit, Go, Bump, Miss, Answer,
       WriteFailure, Stale, RefusedInside, Goto, CallsType
  <2>3. QED
    BY <2>1, <2>2, <1>1, <1>2, <1>0
<1>7. QED
  BY <1>0, <1>3, <1>4, <1>5, <1>6, ActsMove DEF Act

\* An act at the check goes on pointing at what the browser listed last.
LEMMA CheckingIsKept == IInv /\ [Next]_vars => CheckedIsListed'
<1> SUFFICES ASSUME IInv, [Next]_vars, NEW c \in Acts, at'[c] = "checked", Served(c)', Sure(c)'
             PROVE  judged'[c] = listed'
  BY DEF CheckedIsListed
<1>0. /\ TypeOK /\ ComputerType /\ CallsType /\ c \in Calls /\ c \in Governed /\ crossed \subseteq crossed'
      /\ run <= run' /\ ComputerType' /\ CheckedIsListed
  BY ComputerTypes, LapsesGrow DEF TypeOK, IInv, Calls, Governed
<1>1. CASE at'[c] = at[c] /\ Steady(c)
  <2>1. run' = run /\ Served(c)
    <3>1. on[c] \in 0..run
      BY <1>0 DEF CallsType
    <3>2. QED
      BY <3>1, <1>0, <1>1 DEF Served, Steady, ComputerType
  <2>2. Sure(c)
    BY <1>0, <1>1 DEF Sure, Steady
  <2>3. c \in UnderWay /\ c \notin crossed'
    BY <1>1 DEF UnderWay, Sure
  <2>4. listed' = listed
    <3>1. ~NewRun /\ \A d \in Looks : ~List(d)
      BY <2>3 DEF NewRun, List
    <3>2. QED
      BY <3>1, ComputerMoves DEF computer, Count, Go, Bump, SiteMoves
  <2>5. QED
    BY <2>1, <2>2, <2>4, <1>0, <1>1 DEF CheckedIsListed, Steady
<1>2. CASE Check(c)
  <2>1. /\ at[c] = "arrived" /\ Served(c) /\ label[cites[c]] = count
        /\ run' = run /\ listed' = listed /\ stored' = stored /\ judged' = judged
        /\ session' = session /\ on' = on /\ crossed' = crossed
    BY <1>2 DEF Check, computer, acting, history
  <2>2. /\ session[c] = run /\ stored[c] # NoRow /\ stored[c].alone /\ stored[c].session = stored[c].of
    BY <2>1 DEF Sure, Served
  <2>3. /\ judged[c] = Resolved(stored[c], count, run) /\ judged[c] # 0 /\ Stands(stored[c])
    BY <2>1, <2>2 DEF IInv, CitationsStand, ListsStand, Stale
  <2>4. stored[c].of > 0 /\ stored[c].session = run /\ stored[c].label = count /\ judged[c] = stored[c].list
    BY <2>2, <2>3, <1>0 DEF Resolved, Stands, ComputerType, CallsType, Row
  <2>5. QED
    BY <2>1, <2>2, <2>3, <2>4 DEF Stands
<1>3. CASE (Act(c) \/ Attempt(c)) /\ ~Check(c)
  BY <1>0, <1>3 DEF Act, Load, ActLocates, GovernAct, Attempt, RefuseStale, LocateAgain, Arrive, Hit, Go,
     Bump, Miss, Answer, WriteFailure, Decide, RefusedInside, Goto, CallsType
<1>4. QED
  BY <1>0, <1>1, <1>2, <1>3, ActsMove

\* What was clicked was listed last and judged before, and stays so.
LEMMA ActingIsKept == IInv /\ [Next]_vars => JudgedIsActed'
<1> SUFFICES ASSUME IInv, [Next]_vars, NEW c \in Acts, hit'[c] # 0, Sure(c)'
             PROVE  judged'[c] = hit'[c]
  BY DEF JudgedIsActed, Sure
<1>0. /\ TypeOK /\ CallsType /\ TrailType /\ c \in Calls /\ c \in Governed /\ crossed \subseteq crossed'
      /\ hit[c] # 0 /\ Sure(c) => judged[c] = hit[c]
  BY LapsesGrow DEF TypeOK, IInv, Calls, Governed, JudgedIsActed, Sure
<1>1. at[c] \in {"idle", "loaded", "located", "unlocated", "allowed"} => hit[c] = 0
  BY <1>0 DEF IInv, RowsAreTold
<1>2. CASE at'[c] = at[c] /\ Steady(c)
  BY <1>0, <1>2 DEF Steady, Sure
<1>3. CASE Act(c) \/ Arrive(c)
  BY <1>0, <1>1, <1>3 DEF Act, Load, ActLocates, GovernAct, Arrive, trail
<1>4. CASE Hit(c)
  <2>1. /\ at[c] = "checked" /\ Served(c) /\ doc = listed /\ hit'[c] = doc /\ judged' = judged
        /\ session' = session /\ on' = on /\ stored' = stored /\ crossed' = crossed
    BY <1>0, <1>4 DEF Hit, acting, history, TrailType
  <2>2. QED
    BY <2>1 DEF IInv, CheckedIsListed, Sure
<1>5. CASE Attempt(c) /\ ~Hit(c) /\ ~Arrive(c)
  <2>1. UNCHANGED <<judged, session, on, stored, crossed, hit>>
    BY <1>5 DEF Attempt, RefuseStale, LocateAgain, Arrive, Check, Hit, Go, Bump, Miss, Answer, WriteFailure,
       acting, trail, history
  <2>2. QED
    BY <2>1, <1>0 DEF Sure
<1>6. QED
  BY <1>0, <1>2, <1>3, <1>4, <1>5, ActsMove

-----------------------------------------------------------------------------
(* The numbers of the lists, and the row that is stored of them.           *)

\* A container counts on, or is replaced by one that has not counted yet.
LEMMA CountGoesOn ==
  ASSUME ComputerType, [Next]_vars
  PROVE  \/ NewRun /\ run' = run + 1
         \/ run' = run /\ count' \in {count, count + 1}
  BY ComputerMoves DEF ComputerType, computer, Count, List, Go, Bump, NewRun, SiteMoves

\* An answer was one before, or is given now.
LEMMA AnswersMove ==
  ASSUME TypeOK, [Next]_vars, NEW c \in Looks, c \in Answered'
  PROVE  /\ label'[c] = IF Label(c) THEN count ELSE label[c]
         /\ list'[c] = list[c] /\ on'[c] = on[c]
         /\ c \in Answered \/ Label(c)
<1>0. CallsType /\ c \in Calls /\ c \notin Governed
  BY DEF TypeOK, Calls, Governed
<1>1. CASE Look(c)
  BY <1>0, <1>1 DEF Look, LookLocates, Count, List, Label, LookFails, Date, Save, Goto, CallsType, looking,
     Answered
<1>2. CASE at'[c] = at[c] /\ Steady(c)
  <2>1. ~Label(c)
    BY <1>0, <1>2 DEF Label, Goto, CallsType
  <2>2. QED
    BY <1>2, <2>1 DEF Steady, Answered
<1>3. QED
  BY <1>0, <1>1, <1>2, CallsMove

\* What a look says when it gives its answer.
LEMMA LabelSays ==
  ASSUME TypeOK, [Next]_vars, NEW c \in Looks, Label(c)
  PROVE  /\ c \in Listing /\ Served(c) /\ at'[c] = "labelled" /\ UNCHANGED <<run, count, lapped>>
         /\ \A d \in Looks : Label(d) => d = c
  BY DEF TypeOK, CallsType, Calls, Label, Listing, Goto, computer, history

\* A list that is about was so before, is answered now, or is no list.
LEMMA CarriedMove ==
  ASSUME TypeOK, [Next]_vars, NEW r \in Carried'
  PROVE  \/ \E q \in Carried : r.of = q.of /\ r.label = q.label /\ r.list = q.list
         \/ \E d \in Looks : Label(d) /\ r.of = run /\ r.label = count /\ r.list = list[d]
         \/ r.of = 0
<1>1. CASE r = row'
  <2>1. CASE row' = row
    BY <1>1, <2>1 DEF Carried
  <2>2. ASSUME NEW d \in Looks, Save(d), row' = RowOf(d)
        PROVE  row' \in Carried
    BY <2>2 DEF Carried, Save, Answered
  <2>3. CASE Wipe
    BY <1>1, <2>3 DEF Wipe, NoRow
  <2>4. QED
    BY <1>1, <2>1, <2>2, <2>3, RowMoves DEF Save, Saved
<1>2. ASSUME NEW c \in Looks, c \in Answered', r = RowOf(c)'
      PROVE  \/ \E q \in Carried : r.of = q.of /\ r.label = q.label /\ r.list = q.list
             \/ \E d \in Looks : Label(d) /\ r.of = run /\ r.label = count /\ r.list = list[d]
  <2>1. r.label = label'[c] /\ r.list = list'[c] /\ r.of = on'[c]
    BY <1>2 DEF RowOf
  <2>2. CASE Label(c)
    <3>1. on[c] = run
      BY <2>2 DEF Label, Served
    <3>2. QED
      BY <1>2, <2>1, <2>2, <3>1, AnswersMove
  <2>3. CASE ~Label(c)
    <3>1. c \in Answered /\ r.label = label[c] /\ r.list = list[c] /\ r.of = on[c]
      BY <1>2, <2>1, <2>3, AnswersMove
    <3>2. RowOf(c) \in Carried /\ RowOf(c).label = label[c] /\ RowOf(c).list = list[c] /\ RowOf(c).of = on[c]
      BY <3>1 DEF Carried, RowOf
    <3>3. QED
      BY <3>1, <3>2
  <2>4. QED
    BY <2>2, <2>3
<1>3. r = row' \/ \E c \in Looks : c \in Answered' /\ r = RowOf(c)'
  BY DEF Carried, Answered
<1>4. QED
  BY <1>1, <1>2, <1>3

\* No list about bears a number of this container that it has not counted to.
LEMMA CarriedIsCounted ==
  ASSUME IInv, NEW r \in Carried, r.of = run
  PROVE  r.label <= count
<1>1. Stands(r)
  BY DEF IInv, ListsStand, Carried, Answered
<1>2. QED
  BY <1>1 DEF Stands

\* The number that an unlapped look is about to answer stays a new one.
LEMMA NewnessIsKept == IInv /\ [Next]_vars => NumbersAreNew'
<1> SUFFICES ASSUME IInv, [Next]_vars, NEW c \in Listing', c \notin lapped', Served(c)',
                    NEW r \in Carried', r.of = run'
             PROVE  r.label < count'
  BY DEF NumbersAreNew
<1>0. /\ TypeOK /\ ComputerType /\ CallsType /\ NumbersAreNew /\ LooksAreAlone
      /\ c \in Looks /\ c \in Calls /\ c \notin lapped
      /\ \A q \in Carried : q.label \in Nat
  <2>1. /\ TypeOK /\ ComputerType /\ CallsType /\ StoreType /\ NumbersAreNew /\ LooksAreAlone
        /\ c \in Looks /\ c \in Calls
    BY DEF IInv, TypeOK, Listing, Calls
  <2>2. \A q \in Carried : q.label \in Nat
    BY <2>1 DEF Carried, RowOf, Answered, StoreType, Row, CallsType
  <2>3. c \notin lapped
    BY LapsesGrow
  <2>4. QED
    BY <2>1, <2>2, <2>3
<1>1. on'[c] = run' /\ run > 0 /\ run \in Nat /\ count \in Nat
  BY <1>0 DEF Served, ComputerType
<1>2. CASE Count(c)
  <2>1. run' = run /\ count' = count + 1
    BY <1>2 DEF Count
  <2>2. \A d \in Looks : ~Label(d)
    BY <2>1, <1>1, <1>0, LabelSays
  <2>3. PICK q \in Carried : r.of = q.of /\ r.label = q.label
    BY <2>1, <2>2, <1>0, <1>1, CarriedMove
  <2>4. q.label <= count
    BY <2>1, <2>3, CarriedIsCounted
  <2>5. QED
    BY <2>1, <2>3, <2>4, <1>0, <1>1
<1>3. CASE c \in Listing /\ on'[c] = on[c]
  <2>1. run' = run /\ count' \in {count, count + 1} /\ Served(c)
    <3>1. on[c] \in 0..run
      BY <1>0 DEF CallsType
    <3>2. QED
      BY <3>1, <1>0, <1>1, <1>3, CountGoesOn DEF Served
  <2>2. ASSUME NEW d \in Looks, Label(d) PROVE FALSE
    <3>1. d \in Listing /\ at'[d] = "labelled"
      BY <2>2, <1>0, LabelSays
    <3>2. d = c
      BY <3>1, <1>0, <1>3 DEF LooksAreAlone
    <3>3. QED
      BY <3>1, <3>2 DEF Listing
  <2>3. PICK q \in Carried : r.of = q.of /\ r.label = q.label
    BY <2>1, <2>2, <1>0, <1>1, CarriedMove
  <2>4. q.label < count
    BY <2>1, <2>3, <1>0, <1>3 DEF NumbersAreNew
  <2>5. QED
    BY <2>1, <2>3, <2>4, <1>0, <1>1
<1>4. QED
  BY <1>0, <1>2, <1>3, ListingGoesOn

\* Lists that bear the count with an unlapped answer go on agreeing with it.
LEMMA AgreementIsKept == IInv /\ [Next]_vars => NumbersAgree'
<1> SUFFICES ASSUME IInv, [Next]_vars, NEW c \in Answered', c \notin lapped', Served(c)',
                    label'[c] = count', NEW r \in Carried', r.of = run', r.label = count'
             PROVE  r.list = list'[c]
  BY DEF NumbersAgree
<1>0. /\ TypeOK /\ ComputerType /\ CallsType /\ NumbersAreNew /\ NumbersAgree
      /\ c \in Looks /\ c \in Calls /\ c \notin lapped
      /\ run > 0 /\ run \in Nat /\ count \in Nat /\ on'[c] = run'
  <2>1. TypeOK /\ ComputerType /\ CallsType /\ c \in Looks /\ c \in Calls /\ on'[c] = run'
    BY DEF IInv, TypeOK, Answered, Calls, Served
  <2>2. QED
    BY <2>1, LapsesGrow DEF IInv, ComputerType
<1>1. list'[c] = list[c] /\ on'[c] = on[c] /\ (c \in Answered \/ Label(c))
      /\ label'[c] = IF Label(c) THEN count ELSE label[c]
  BY <1>0, AnswersMove
<1>2. run' = run /\ count' \in {count, count + 1} /\ Served(c)
  <2>1. on[c] \in 0..run
    BY <1>0 DEF CallsType
  <2>2. QED
    BY <2>1, <1>0, <1>1, CountGoesOn DEF Served
<1>3. CASE Label(c)
  <2>1. c \in Listing /\ count' = count /\ \A d \in Looks : Label(d) => d = c
    BY <1>0, <1>3, LabelSays
  <2>2. \A q \in Carried : q.of = run => q.label < count
    BY <2>1, <1>0, <1>2 DEF NumbersAreNew
  <2>3. \A q \in Carried : ~(q.of = run /\ q.label = count)
    BY <2>2, <1>0
  <2>4. r.of = run /\ r.label = count
    BY <2>1, <1>2
  <2>5. \E d \in Looks : Label(d) /\ r.list = list[d]
    BY <2>3, <2>4, <1>0, CarriedMove
  <2>6. QED
    BY <2>1, <2>5, <1>1
<1>4. CASE ~Label(c)
  <2>1. /\ c \in Answered /\ Stands(RowOf(c)) /\ label[c] = count'
        /\ RowOf(c).of = run /\ RowOf(c).label = label[c] /\ RowOf(c).alone
    BY <1>0, <1>1, <1>2, <1>4 DEF IInv, ListsStand, RowOf, Served
  <2>2. count' = count /\ Quietly
    BY <2>1, <1>0, <1>2 DEF Stands
  <2>3. \A d \in Looks : ~Label(d)
    BY <2>2, <1>0, LabelSays DEF Quietly
  <2>4. PICK q \in Carried : r.of = q.of /\ r.label = q.label /\ r.list = q.list
    BY <2>3, <1>0, <1>2, CarriedMove
  <2>5. QED
    BY <2>1, <2>2, <2>4, <1>0, <1>1, <1>2 DEF NumbersAgree
<1>5. QED
  BY <1>3, <1>4

\* A look is over when its answer is saved, and stays as it is.
LEMMA DoneMoves ==
  ASSUME TypeOK, [Next]_vars, NEW c \in Looks, at'[c] = "done"
  PROVE  (at[c] = "done" \/ Save(c)) /\ label'[c] = label[c] /\ on'[c] = on[c] /\ session'[c] = session[c]
<1>0. CallsType /\ c \in Calls /\ c \notin Governed
  BY DEF TypeOK, Calls, Governed
<1>1. CASE Look(c)
  BY <1>0, <1>1 DEF Look, LookLocates, Count, List, Label, LookFails, Date, Save, Goto, CallsType, looking
<1>2. CASE at'[c] = at[c] /\ Steady(c)
  BY <1>2 DEF Steady
<1>3. QED
  BY <1>0, <1>1, <1>2, CallsMove

\* A row becomes muddled, or no longer is, by a save, a reset or a new container.
LEMMA MuddledMoves ==
  ASSUME [Next]_vars
  PROVE  \/ UNCHANGED <<row, muddled, run>> /\ \A c \in Looks : ~Save(c)
         \/ \E c \in Looks : Save(c)
         \/ Wipe
         \/ NewRun
  BY DEF Next, Look, Act, Attempt, vars, computer, history, Replace, Reset, LookLocates, Count, List, Label,
     LookFails, Date, Load, ActLocates, GovernAct, GovernOpen, RefuseStale, LocateAgain, Arrive, Check, Hit,
     Go, Bump, Miss, Answer, WriteFailure, SiteMoves

\* The row that is stored goes on being no older than any answer that is over.
LEMMA CurrencyIsKept == IInv /\ [Next]_vars => RowIsCurrent'
<1> SUFFICES ASSUME IInv, [Next]_vars, ~muddled'
             PROVE  /\ row'.of = run' <=> row'.session = run'
                    /\ \A c \in Looks : at'[c] = "done" /\ on'[c] = run' /\ session'[c] = run'
                                         => row'.of = run' /\ label'[c] <= row'.label
  BY DEF RowIsCurrent, Served
<1>0. /\ TypeOK /\ ComputerType /\ CallsType /\ RowIsCurrent /\ run \in Nat /\ run > 0
      /\ row.of \in 0..run /\ row.session \in 0..run /\ row.label \in Nat
      /\ \A c \in Looks : on[c] \in 0..run /\ label[c] \in Nat
  BY DEF IInv, TypeOK, ComputerType, CallsType, StoreType, Row, Calls
<1>1. CASE NewRun
  <2>1. run' = run + 1 /\ row' = row /\ on' = on
    BY <1>1 DEF NewRun
  <2>2. QED
    BY <2>1, <1>0
<1>2. CASE Wipe
  <2>1. run' = run /\ row'.of = 0 /\ row'.session = 0 /\ ~muddled /\ row.of # run
        /\ \A c \in Looks : ~Save(c)
    BY <1>2 DEF Wipe, NoRow, computer, Save, Goto
  <2>2. QED
    BY <2>1, <1>0, DoneMoves DEF RowIsCurrent, Served
<1>3. ASSUME UNCHANGED <<row, muddled, run>>, \A c \in Looks : ~Save(c)
      PROVE  /\ row'.of = run' <=> row'.session = run'
             /\ \A c \in Looks : at'[c] = "done" /\ on'[c] = run' /\ session'[c] = run'
                                  => row'.of = run' /\ label'[c] <= row'.label
  BY <1>0, <1>3, DoneMoves DEF RowIsCurrent, Served
<1>4. ASSUME NEW d \in Looks, Save(d)
      PROVE  /\ row'.of = run' <=> row'.session = run'
             /\ \A c \in Looks : at'[c] = "done" /\ on'[c] = run' /\ session'[c] = run'
                                  => row'.of = run' /\ label'[c] <= row'.label
  <2>1. /\ at[d] = "dated" /\ run' = run /\ row' = Saved(row, RowOf(d))
        /\ muddled' = IF row' # RowOf(d) THEN muddled
                      ELSE on[d] # run \/ session[d] # run \/ (muddled /\ label[d] # count)
        /\ \A c \in Looks : at'[c] = "done" => at[c] = "done" \/ c = d
        /\ \A c \in Looks : at'[c] = "done" =>
             label'[c] = label[c] /\ on'[c] = on[c] /\ session'[c] = session[c]
    <3>1. \A c \in Looks : at'[c] = "done" => at[c] = "done" \/ c = d
      BY <1>0, <1>4 DEF Save, Goto, CallsType
    <3>2. QED
      BY <3>1, <1>0, <1>4, DoneMoves DEF Save, computer
  <2>2. /\ RowOf(d).of = on[d] /\ RowOf(d).session = session[d] /\ RowOf(d).label = label[d]
        /\ NoRow.of = 0
    BY DEF RowOf, NoRow
  <2>3. CASE row' # RowOf(d)
    <3>1. row' = row /\ row # NoRow /\ ~(row.label < label[d]) /\ row.session = session[d] /\ ~muddled
      BY <2>1, <2>2, <2>3 DEF Saved
    <3>2. label[d] <= row.label
      BY <3>1, <1>0
    <3>3. QED
      BY <2>1, <3>1, <3>2, <1>0 DEF RowIsCurrent, Served
  <2>4. CASE row' = RowOf(d)
    <3>1. on[d] = run /\ session[d] = run /\ (muddled => label[d] = count)
      BY <2>1, <2>4
    <3>2. ASSUME NEW c \in Looks, at[c] = "done", on[c] = run, session[c] = run
          PROVE  label[c] <= label[d]
      <4>1. CASE muddled
        <5>1. RowOf(c) \in Carried /\ RowOf(c).of = run /\ RowOf(c).label = label[c]
          BY <3>2 DEF Carried, Answered, RowOf
        <5>2. QED
          BY <5>1, <4>1, <3>1, CarriedIsCounted
      <4>2. CASE ~muddled
        <5>1. row.of = run /\ label[c] <= row.label /\ row.session = run
          BY <4>2, <3>2, <1>0 DEF RowIsCurrent, Served
        <5>2. row.label < label[d] \/ row = RowOf(d)
          BY <5>1, <2>1, <2>2, <2>4, <3>1, <1>0 DEF Saved
        <5>3. QED
          BY <5>1, <5>2, <2>2, <3>2, <1>0
      <4>3. QED
        BY <4>1, <4>2
    <3>3. QED
      BY <3>1, <3>2, <2>1, <2>2, <2>4, <1>0
  <2>5. QED
    BY <2>3, <2>4
<1>5. QED
  BY <1>1, <1>2, <1>3, <1>4, MuddledMoves

-----------------------------------------------------------------------------
(* The invariant holds at first, and every step keeps it.                  *)
\* The invariant holds at first.
LEMMA Initially == Init => IInv
<1> SUFFICES ASSUME Init PROVE IInv
  OBVIOUS
<1>1. TypeOK
  <2>1. NoRow \in Row
    BY DEF Init, NoRow, Row
  <2>2. ComputerType /\ FlagType
    <3>1. ComputerType
      BY DEF Init, ComputerType
    <3>2. FlagType
      BY Zenon DEF Init, FlagType
    <3>3. QED
      BY <3>1, <3>2
  <2>3. TrailType
    <3>1. /\ hit = [c \in Governed |-> 0] /\ rows = [c \in Governed |-> {}] /\ lapped = {} /\ crossed = {}
          /\ made = 1 /\ moves = 0 /\ mishaps = 0
      BY DEF Init
    <3>2. 0 \in 0..made /\ 0 \in 0..MaxMoves /\ 0 \in 0..MaxMishaps
      BY <3>1
    <3>3. QED
      BY <3>1, <3>2 DEF TrailType
  <2>4. StoreType
    BY <2>1 DEF Init, StoreType, Born
  <2>5. CallsType
    BY <2>1 DEF Init, CallsType, Stage, Born
  <2>6. QED
    BY <2>2, <2>3, <2>4, <2>5 DEF TypeOK
<1>2. LooksAreLocated /\ LooksAreAlone
  BY DEF Init, LooksAreLocated, LooksAreAlone, Listing, Calls
<1>3. RowsAreTold
  BY DEF Init, RowsAreTold, Calls, Governed
<1>4. ListsStand
  BY DEF Init, ListsStand, Stands, NoRow, Calls, Answered
<1>5. CitationsStand /\ CheckedIsListed /\ JudgedIsActed
  BY DEF Init, CitationsStand, CheckedIsListed, JudgedIsActed, Calls, Governed
<1>6. Carried = {NoRow} /\ NumbersAreNew /\ NumbersAgree /\ RowIsCurrent
  BY DEF Init, Carried, Answered, Listing, NumbersAreNew, NumbersAgree, RowIsCurrent, NoRow, Calls
<1>7. QED
  BY <1>1, <1>2, <1>3, <1>4, <1>5, <1>6 DEF IInv

\* Every step keeps the invariant.
LEMMA Inductive == IInv /\ [Next]_vars => IInv'
<1> SUFFICES ASSUME IInv, [Next]_vars PROVE IInv'
  OBVIOUS
<1>1. TypeOK' /\ LooksAreLocated'
  BY TypesAreKept, LocatingIsKept DEF IInv
<1>2. RowsAreTold' /\ LooksAreAlone'
  BY TellingIsKept, AlonenessIsKept DEF IInv
<1>3. ListsStand' /\ CitationsStand'
  BY StandingIsKept, CitationsAreKept
<1>4. CheckedIsListed' /\ JudgedIsActed'
  BY CheckingIsKept, ActingIsKept
<1>5. NumbersAreNew' /\ NumbersAgree' /\ RowIsCurrent'
  BY NewnessIsKept, AgreementIsKept, CurrencyIsKept
<1>6. QED
  BY <1>1, <1>2, <1>3, <1>4, <1>5 DEF IInv

(* However many calls, replicas, conversations, containers, documents and  *)
(* faults there are, the invariant holds of the gateway and the computer.  *)
THEOREM ActionsInvariant == Spec => []IInv
<1>1. QED
  BY Initially, Inductive, PTL DEF Spec

(* Every variable of the gateway, of the store and of the computer keeps   *)
(* its type.                                                               *)
THEOREM TypesHold == Spec => []TypeOK
<1>1. IInv => TypeOK
  BY DEF IInv
<1>2. QED
  BY <1>1, ActionsInvariant, PTL

(* The element a click lands on is the element the policy was asked about, *)
(* outside the windows the property names (gateway.ts, snapshot-store.ts). *)
THEOREM JudgedIsActedHolds == Spec => []JudgedIsActed
<1>1. IInv => JudgedIsActed
  BY DEF IInv
<1>2. QED
  BY <1>1, ActionsInvariant, PTL

(* The trail tells of every action: before it a decision that lets it be   *)
(* done, a dry-run's refusal included, and its failure after it, unless    *)
(* the failure itself could not be written (gateway.ts, policy.ts).        *)
THEOREM TrailIsWholeHolds == Spec => []TrailIsWhole
<1>1. IInv => TrailIsWhole
  <2>1. ASSUME IInv, NEW c \in Governed
        PROVE  /\ hit[c] # 0 => rows[c] \intersect Forwarded # {} /\ "refused" \notin rows[c]
               /\ at[c] \in {"done", "failed"} /\ rows[c] \intersect Forwarded # {}
                    => hit[c] # 0 \/ "failed" \in rows[c]
    <3>1. at[c] \in Stage
      BY <2>1 DEF IInv, TypeOK, CallsType, Calls, Governed
    <3>2. QED
      BY <2>1, <3>1 DEF IInv, RowsAreTold, LetBe, Forwarded, Stage
  <2>2. QED
    BY <2>1 DEF TrailIsWhole
<1>2. QED
  BY <1>1, ActionsInvariant, PTL

(* The latest list of the page as it is is honoured: what is stored of an  *)
(* earlier container, or saved late, never has a Bot refused that has just *)
(* looked (gateway.ts, the forward-only save of snapshot-store.ts).        *)
THEOREM FreshIsHonouredHolds == Spec => []FreshIsHonoured
<1>1. IInv => FreshIsHonoured
  <2> SUFFICES ASSUME IInv, ~muddled, NEW c \in Looks, c \notin lapped, at[c] = "done", on[c] = run,
                      session[c] = run, label[c] = count
               PROVE  Resolved(row, label[c], run) = list[c]
    BY DEF FreshIsHonoured
  <2>1. /\ run > 0 /\ count \in Nat /\ row.label \in Nat /\ row \in Carried
        /\ c \in Answered /\ Served(c)
    BY DEF IInv, TypeOK, ComputerType, StoreType, Row, Carried, Answered, Served
  <2>2. row.of = run /\ row.session = run /\ count <= row.label
    BY <2>1 DEF IInv, RowIsCurrent
  <2>3. row.label = count
    BY <2>1, <2>2, CarriedIsCounted
  <2>4. row.list = list[c]
    BY <2>1, <2>2, <2>3 DEF IInv, NumbersAgree
  <2>5. row # NoRow
    BY <2>1, <2>2 DEF NoRow
  <2>6. QED
    BY <2>2, <2>3, <2>4, <2>5 DEF Resolved
<1>2. QED
  BY <1>1, ActionsInvariant, PTL
=============================================================================
