# A verification of OpenBot's concurrent core

OpenBot is a server that people and Bots talk in. Bots run turns on a vendor's runtime,
drive a browser in a container of their own, use a vendor's tools with a person's account,
work on folders a person lends them, hand work to one another, and fire by themselves on a
schedule. Most of the code is a web service over Postgres whose operations are single
statements. What is hard in it is what several actors do to one thing, and what must outlive
a process: who is doing it, what happens when they stall or die, how often it is done, what
was true when it was decided and is not any more, and whether somebody is told. That is what
these TLA+ modules model, TLC checks and TLAPS proves.

## 1. The system

### Components

`server/` is `server/src`, and every path is under `src/`.

| Component | State it keeps | Operations | Where it is hard |
|---|---|---|---|
| **Work queue** `server/work/queue.ts` | `work_items`: one row per (kind, key) with `run_at`, `claimed_by`, `lease_until`, `attempts`, `finished_at` | offer, offer with `atMost`, claim, renew, finish, release, purge | leases lapse under a live owner; an owner dies with a batch; two offers count before either inserts; finished rows are tombstones until purged |
| **Sweep loop** `server/work/loop.ts` | a timer, a poke, `running` | start, poke, stop | one sweep at a time, rescheduled whatever became of the last |
| **Bot handoff** `server/agents/handoff*.ts` | rows of kind `agent.handoff`; the audit trail; the asking conversation's lock | send, sweep, deliver, finish, relay, notice, release, reap | money is spent per attempt; an answer must get home; a person told "nothing came" must not have been answered |
| **Routine clocks** `server/routines/store.ts`, `sweep.ts` (offering), `worker/` | `routines`: cron, `next_run_at`, `enabled`, owner | create, update, set enabled, remove, offer due, advance, mark unschedulable, purge | several sweeps read one row; a person edits between a sweep's read and write; a cap is counted under a lock |
| **Routine firings** `sweep.ts` (dispatching), `runner.ts` | `routine_runs`: status, started, finished; the queue's rows | claim, re-read, insert run, dispatch, finish, release, reap, run the turn, record, count failures, switch off | a dispatch that times out may have been accepted; a run is closed by its turn or by the reaper |
| **Computer gateway, snapshots** `server/computer/gateway.ts`, `snapshot-store.ts`, `supervisor.ts` | the stored list of elements per computer; the run each replica last heard of; the trail | look, act, open, reset, ask the policy | an element is cited by a number in a list that may be of another page, another run, or another conversation's look |
| **Browser profiles** `agent-computer/src/profiles.ts` | one browser per Bot; launches, closes and resets in flight | page, stop, reset, evict, sweep idle, close all | a call that awaited a close or a launch acts on what it knew before |
| **Live screen and wheel** `agent-computer/src/viewer.ts`, `index.ts`, `control.ts` | sessions: who watches, who drives, the cast, the follow loop; a pending secret request | open, attach, follow, supersede, close, sweep idle sessions; take, hand back, request, fulfil | a watcher leaves, or the browser goes, while an attach is awaited; a session is swept before it is used |
| **Host access** `server/host-access/broker.ts`, `desktop/src-tauri/src/host_access.rs` | grants on both sides, operations, cancels, containers | ask, call, poll, approve, run, post, revoke, stop, expire | results are lost and operations handed out again; a cancel races the container it is about |
| **Plugins and credentials** `server/plugins/store.ts`, `routes.ts`, `credentials/` | a refresh token per connection, the deployment's client at the vendor | connect, call, rotate, replace the client, remove a person | a rotating vendor takes a token shown twice for a theft |
| **Computer culler** `server/work/culler.ts` | queue rows; last action per computer | find idle, offer, re-read, stop | a person acts between the re-read and the stop |
| **Computer supervisor** `supervisor/src/docker.ts` | one container and one volume per Bot in the Docker daemon | ensure, stop, reset | inspect, create and start are separate calls |
| **Stall guard, turn watchdog** `server/channels/` | a stream and a timer each | chunk, stall, end | the pump and the timer end the same stream |
| **Channels, attachments** | messages, members, unread, files | CRUD, notifications | missed notifications |
| **Agents, people, policy, components** | their tables | CRUD behind guards | little; mostly one statement each |
| **Runtimes** `agent-*`, `server/copilot.ts` | none across requests | stream one turn | the vendor's |
| **App, desktop, shared** | interface state | | not concurrent logic |

`PROJECT.json` lists all of them with their files, and what is modelled of each.

### How they interact

* The **queue** is a table, and its consumers are loops: handoffs, routines, the culler and
  the summariser each claim, renew, act, and finish or release. They never talk to each
  other except through its rows. Replicas of a server run the same loops on the same table.
* A **handoff** begins inside a Bot's turn (`send` offers a hop, at most `maxPerRun` under
  the run's prefix), is delivered by any replica's sweep, and comes home as *another* row:
  `relay:<key>` with the answer, or `notice:<key>` saying there is none. Both are delivered
  by the same sweep into the asking conversation, which other runs lock.
* A **routine's clock** is read by every replica's sweep. A due stamp becomes a queue row
  keyed `<routine>:<minute>`, then the clock is moved by compare-and-set. A second loop
  claims those rows and posts a run id to the server, which answers 202 and runs the turn on
  its own time; the run row carries the outcome.
* A **Bot's action on a page** goes from any replica's gateway, through the policy and the
  trail, to the agent computer in the Bot's container, over an address that outlives the
  container behind it. The list it cites comes from an earlier look, which may have been
  served elsewhere, and is kept in one row per computer.
* The **agent computer** is one event loop. Calls, watchers' sockets, stops and the idle
  sweep interleave at their awaits, and meet in the table of profiles and the slot of the
  screen.
* The **desktop** polls the broker, one operation at a time, and posts results; what expires,
  is revoked or stopped is answered by the broker at once, and reaches the desktop as a cancel
  through the same queue.
* A **tool call** spends a person's refresh token under a row lock, on whichever replica the
  turn runs; people reconnect and are removed meanwhile, and the vendor may forget the client.

### What makes each correct

* Queue: a lease is one owner's; an item is acted on at most `MaxAttempts` times; a finished
  item stays so until purged; nothing is left behind; no key is wedged; a cap is a cap.
* Handoff: one report of delivery; turns bounded; no unexplained second turn; every hop
  heard of again; a notice is true, and no attempt is left behind it; an answer is carried back.
* Routine clocks: no firing lost, none queued twice, no clock turned back or left overdue,
  the cap on enabled routines.
* Routine firings: the reaper never closes a run under its turn, every run is closed, a second
  turn for one occurrence has a cause, a routine that keeps failing is switched off.
* Gateway: what is clicked is what the policy was asked about; a current list is honoured; the
  trail tells what happened, in a dry-run too.
* Profiles: one browser per Bot, none out of reach of a stop, a cap that holds, a stop that
  has closed what ran when it was asked.
* Screen and wheel: one watcher, nothing left casting or following for one who has gone, the
  live page in the end, nobody loses the wheel under a screen they watch.
* Host access: a command runs at most once, nothing runs after its cancel was carried out,
  cancels arrive, and a person sees no more than folders lent, used and taken back.
* Vendor grants: no token spent twice but where an outcome was lost, what is live is what is
  connected, a removed person leaves nothing live behind.

## 2. Modules

| Module | Models | State and actions |
|---|---|---|
| `WorkTable` | the table and each SQL statement of `queue.ts` | operators from table to table: `Offered`, `Batches` (the select of `claim`), `Claimed`, `Renewed`, `Finished`, `Released`, `Purged`, and `Elapsed`, a tick of the database's clock |
| `WorkQueue` | the table with any number of consumers | `work` is the table; `batch`, `acting` what a consumer's sweep holds; `asking` its open `atMost` transaction; `sure` what it was last told of its leases; `starts` a history count. Actions: `Offer`, `CountOffers`/`InsertOffer`, `Sweep`, `Start`, `Heartbeat`, `Complete`, `Fail`, `Purge`, `Crash`, `Tick` |
| `WorkLedger` | what the queue promises, without clocks | add, grant, lapse, keep, settle, give back, forget. `WorkQueue` implements it |
| `Handoff` | `handoff.ts`, `handoff-runner.ts`, `handoff-delivery.ts` over the same table | `claimed`, `doing` (the item and how far it got), `talking` (the conversation's lock), and the histories the properties speak of. One action per await: `Begin`, `Deliver`, `Finish`, `OfferRelay`, `Record`, `Tell`, `Release`, with the throws (`BeginThrows`, `FinishThrows`, the `Fault` disjuncts) and `Crash` |
| `Routines` | `store.ts` up to the stamp, `sweep.ts` offering half, the worker's purge | `routine` rows, `queue` and `ever` (items, and all keys that ever were), each sweep's `todo`/`clock`/`at`, each editor's `request` between its read and its write |
| `RoutineFiring` | `sweep.ts` dispatching half, `runner.ts`, the run rows of `store.ts`, over the same table; one routine | `runs` is `routine_runs` in the order of `started_at`, each row with how far its firing came (`reached`); `reaping`, `claimed`, `doing` what a sweep holds; `posts` the run ids on their way to the server, `turns` what it is running. Sweeps: `Sweep`, `Reap`, `Begin`, `Read`, `Dispatch`, `Answered`/`DispatchFails`, `Finish`, `Release`, `Crash`. Server: `Accept`/`Lose`, `Start`, `Run`, `Succeed`, `RecordFailure`, `Count`, `SwitchOff`, `TurnDies`. A person: `Switch`, `Remove` |
| `ComputerActions` | the governed path of `gateway.ts`, `snapshot-store.ts`, `sessionOf` of `supervisor.ts`, and the numbers `index.ts` keeps in the container; one Bot, any number of replicas | `count`, `doc`, `listed` are the container's (`run` which one it is); `known` what each replica's last ensure said; `row` the stored list; per call how far it got (`at`) and what it read on the way. A look: `LookLocates`, `Count`, `List`, `Label`, `Date`, `Save`. An act: `Load`, `ActLocates`, `GovernAct` (resolve, judge, write the decision: `Decide`, which goes on if it is one of `Forwarded`), then `RefuseStale`, `LocateAgain`, `Arrive`, `Check`, `Hit`, `Miss`, `Answer`, `WriteFailure`. A page opened: `GovernOpen`, `Go`, `Bump`. Outside: `Replace`, `Reset`/`Wipe`, `SiteMoves` |
| `BrowserProfiles` | all of `profiles.ts` but which window is the page | `live`, `recent` are the map of records in its order of use (a record that goes is taken out at its place: `Place`, `Without`); `starting` and `closing` the promises in flight; `chrome` the processes. One action per stretch between two awaits: `Page`, `Resume` (joins, is handed, drops a half-dead browser, launches), `Replace`, `Launched`, `LaunchFailed`, `JoinReturns`; `Stop`, `Reset`, `SweepIdle`, `StopWaiting`, `Evict`, `Announced`, `Closed`, `Finish`, `Deleted`; `CloseAll`, `AllAnnounced`, `Exit`; `ChromeExits`, `ChromeDies` |
| `LiveScreen` | `viewer.ts`, the socket handlers and sessions of `index.ts`, the wheel of `control.ts`; one Bot | `current`, `castOf`, `revoked`, `follow`, `tearing` are the slot and its entries; `dropped` the sockets that claimed on a session no longer in the map, each with a slot of its own; `casting` the page a socket's attaches noted; per attach where it stands. `Open` (which is `sessionFor` with its sweep, then `Claim` or `ClaimDropped`), `Tick`, `Installed`, `CastFails`, `Settled`, `Close`, `Undelivered`; the browser: `BotAsks`, `LaunchEnds`, `LaunchFails`, `BrowserEvicted`, `StopLaunching`, `StopGivesUp`, `StopNothing`, `BrowserClosed`, `Crash`, `WindowOpens`, `WindowCloses`; `Take`, `HandBack`, `Forget` (the same sweep, when another Bot's session is made) |
| `HostAccess` | `broker.ts` and `host_access.rs`; one person, one Bot, one desktop | the broker's `queue` of operations, cancels and stops and the order of that Map (`before`), `leased` what is handed out, `grant`; the desktop's `local` grants, `canceled`, `completed`, what its loop has in `hand`, its workers (`work`, `result`) and containers (`up`, `running`). Broker: `Ask`, `Call`, `Expire`, `Revoke`, `Disconnect`, `Stop`, `Lapse`. Loop: `Poll`, `PollFails`, `RevokeAll`, `Accept`, `CancelOrStop`, `Removed`, `RemoveFails`. Worker: `Admit`, `Approve`, `Decline`, `Grant`, `Create`, `Register`, `Start`, `Finish`, `PostResult`; `Crash` |
| `FolderLoan` | what a person who lends folders is promised, without the queue, the polls, the faults and the deaths | `told`, `lent`, `ran`, `over`: ask, call, lend, take back, run, report, end. `HostAccess` implements it |
| `VendorGrants` | the person's half of `plugins/store.ts`, the consent routes, and the removal of a person; one vendor, modelled from how the code uses it | `vault`, `secret`, `held` are the credentials and who names them, `lock` the row locks, `client` the deployment's. A consent: `Connect`, `ComeBack`, `Redeem`, `Record`. A call: `Begin`, `Look`, `Lock`, `Exchange`, `Refuse`, `GiveUp`/`ArriveLate`, `Disown`, `Keep`, `Register`, `Persist`, `Die`. A removal: `Deny`, `List`, `Retire`, `Forget`, `GiveIn`. The vendor: `Evict`, `Age` |
| `MC...` | instances for TLC | sets of model values, and symmetry where no liveness is checked |
| `...Proofs` | theorems over the module of the same name, and in `AgentComputerProofs` over `BrowserProfiles` and `LiveScreen`, the two halves of one program; the lemmas that each statement of `WorkTable` takes tables to tables stand in the three that need them | section 5 |

`WorkQueue`, `Handoff` and `RoutineFiring` are written over one `WorkTable`: a handoff's or a
firing's claims are the queue's own statements, with the kinds it shares the table with left
out. `LiveScreen` takes the browser as `BrowserProfiles` has it, seen from one Bot: at most
one, launching, running or closing, with a stop that may wait for the launch.

Conventions:

* **Time is relative.** The queue compares moments only with `now()`, so a row stores
  differences, and `Elapsed` ages them. Only what a statement will compare is kept: an age
  stops at the longest window, and overdue rows keep their order to `Backlog` places, which
  is all `order by run_at` sees. That makes the table finite without stopping the clock.
  `Routines` has an absolute clock to `MaxTime` instead, because occurrences are absolute.
  `RoutineFiring` ages a run to `Abandoned` and an occurrence to `Interval`, past which
  nothing asks. The other modules have no clock: what may time out, expire or grow old does
  so at any moment. Two orders that the lengths of time do guarantee are kept: a lease of
  `HostAccess` is fifteen polls long, so what waits is handed out before one lapses; and the
  pause after a close of Chromium outlasts what it still writes.
* **A statement is an action, and every await is a place to stall or die.** A call that
  throws is two outcomes where the database may have committed (`FinishThrows`).
* **An event loop is not a set of threads.** In `BrowserProfiles` a call whose promise has
  settled runs before anything else does: the actions of the outside are guarded by `Quiet`,
  "nothing is runnable". A race there is one the runtime can produce.
* **What a caller does not control is a choice**: what the policy says (allowed, refused, or
  refused in a dry-run and carried out), whether the map of sessions is full, whether a person
  approves, whether an element comes, what the vendor does with a token it could take.
* **Histories** (`starts`, `turns` of `Handoff`, `reports`, `answered`, `retried`, `ever`,
  `forgiven`, `untold`, `slipped`, `underway`, `lapped`, `crossed`, `muddled`, `raced`,
  `owed`, `started`, `over`) are never read by a guard that the code does not have, with one
  exception: `Send` of `Handoff` asks for each thing once, since a run is over long before its
  rows are reaped. Several of them name the window in which a property is not claimed; each is
  explained with its run below or in section 6.

What a turn says, names, payloads, wording and logs are left out. A cron is its period, or
one the parser refuses; `NextRun` is the first multiple after a moment, as `nextRunFor`
returns the first occurrence strictly after one. A list of elements is the document it
describes, and every element name is taken to occur in every list: the worst case for a
citation that goes astray.

## 3. Runs

Eleven runs hold; `routines_cap` is a disagreement (section 6). Each is a single cfg, and takes
at most three minutes or so.

| Run | Question | Instance and why it is enough |
|---|---|---|
| `work_queue` | do leases, attempts, caps and tombstones survive stalls, deaths and races? | 2 owners, 3 keys of which 2 under a prefix with room for 1, 2 attempts, every window 1 tick, `Limit` 2. Two of everything that races; a batch of 2 has a tail to lose; a lease of 1 lapses before or after any step; symmetry in owners and the capped keys. 452 466 states |
| `work_queue_live` | does everything settle, is every key freed, does the queue implement the ledger? | 2 owners, 2 keys, `Limit` 1, no symmetry, under `FairSpec`. 58 701 states |
| `handoff` | one report, bounded turns, no mystery retry, notices with nothing left behind them | 2 replicas, 1 ask (so 3 keys: hop, relay, notice), 2 attempts, all of turn, queue and trail failing, 1 mishap, stalls past the reaping window. 689 160 states |
| `handoff_live` | is every hop heard of, truthfully? | turns fail and leases lapse, nothing dies; under `FairSpec`. 41 238 states |
| `routines` | no firing lost or doubled, no clock stuck | 2 sweeps, 1 routine that may be legacy, 1 editor, periods 2 and 3, grace 0, a pass of 1, keep 1, 1 stumble, time to 3: a firing exactly on grace, one past it, an edit inside a pass, a purge at its earliest. 635 216 states |
| `routine_firing` | does the reaper spare the living, does every run close, has every second turn a cause, is a tired routine off? | 2 sweeps, 1 occurrence, 2 attempts, lease 1, a turn of up to 1 tick and a window of 2; a limit of 1 failure, so that a count lost at the first has a second to make up for it; dispatches, turns and the channel fail, 1 mishap. Two sweeps are what it takes to run one occurrence twice; a run can be as old as 1 when its turn closes it, one short of the window. Under `FairSpec`. 125 744 states |
| `browsers` | one browser per Bot, a stop that stops, a cap that caps, a table that names no launch that is over | 2 Bots under a cap of 1, 4 calls of any kind, all faults, 1 mishap, symmetry. Two calls for one Bot race, a third closes what they are about, and a fourth is the other Bot's launch that evicts. 89 836 states |
| `live_screen` | one watcher, no loop after its browser, the live page in the end, the wheel kept | 2 sockets, 2 attaches of the follow loop, 2 turns of the browser's fate (asked for, stopped, dead, a window more): a watcher superseded while its attach is awaited and two attaches of one loop that overlap. One of the sockets may find the map full and its session swept; it comes before or after the other, so it casts alone, beside the other, or closes under it. Under `FairSpec`. 632 976 states |
| `host_access` | does a command run at most once, is what was cancelled over, do cancels arrive, is it the loan of `FolderLoan`? | 1 folder, 2 calls, 1 stop, every fault, 1 mishap. One call's cancel revokes the folder under the other; a mishap is a poll, a result, an engine call or the desktop itself lost at any step. Under `FairSpec`. 697 846 states |
| `computer_actions` | is what is clicked what was judged, is a fresh list honoured, does the trail tell? | 2 looks, 1 act, 1 page opened, on 2 replicas; the site may move once, 1 mishap. Two looks are what it takes for a list to be overtaken, two replicas for one to know an older run than the other. The policy may be in dry-run when it is asked about the act, whose trail is the longer one; the theorem is for dry-runs of any call. 4 960 748 states |
| `vendor_grants` | is no token spent twice, is what is live what is connected, is a removed person out? | 1 person, 2 consents (the second reconnects), 3 calls each on a replica of its own, 2 rotations, 2 clients, symmetry. One call rotates, one waits for the row, one finds the client gone. People share nothing but the client. 1 457 841 states |
| `routines_cap` | is the cap on enabled routines a cap? | 2 routines, 2 editors, room for 1; the smallest instance that shows it is not. 386 states |

Deadlock is checked except in `routines` and `routines_cap`, whose clock stops at `MaxTime` (a
bound, not the program's), and in `vendor_grants` and `computer_actions`, where each call is made
once and then nothing is left to do. `BrowserProfiles` has a `Rest` step for that end.

Every property has a mutant of the code that breaks it, defined just before what it mutates:
`DueAnyLease` forgets the lease in claim's `where`, `OursByKey` drops the owner from renew,
`PrefixUnlocked` drops the advisory lock, `JoinedNothing` launches beside a launch in flight,
`TornDownUnrevoked` lets a superseded attach arrive, `RememberedNot` forgets what the desktop
carried out, `ResolveSettled` takes a result of what was refused meanwhile, `ResolvedByLabel`
takes a list of any run that bears the number, `UnstartedNever` leaves a failed launch in the table, `FreeAlways` drops the row lock, and so on.

### What the properties except, and why

A property that the code does not hold everywhere names the window in which it is not claimed,
by a history variable that is set where the window opens:

* `DuplicateHasACause`: `slipped`, the occurrences whose lease lapsed under a sweep, or whose
  sweep died or had a call of its own fail. A second turn has no other cause.
* `TiredIsSwitchedOff`: `forgiven`, a person switched it on since; `untold`, the server died
  between recording the failure and counting, which puts the rule off by one failure.
* `OneBrowserPerBot`, `StoppedIsClosed`, `RunningIsCapped`: `raced`, the Bots of whom two calls
  replaced one half-dead browser (`profiles.ts:406`). The second record hides the first's
  browser, which then runs out of reach of every stop.
* `StoppedIsClosed` also leaves out, through `owed`, the launch a stop stopped waiting for.
* `ScreenFollows`: `lapped`, the sockets two of whose attaches overlapped (`index.ts:467`).
* `LoopEndsWithBrowser` says nothing of a browser that died and whose replacement could not be
  launched: no stop finds it.
* `OneScreen`, `LoopEndsWithBrowser`, `WheelIsKept`, `ScreenFollows`: `dropped`, which is state and
  not history. `sessionFor` (`index.ts:176`) stores the session it makes and, with more than 32 in
  the map, sweeps the idle ones; the one just made is idle while its Bot's browser is not live.
  The socket then claims on an object the map does not hold. A second socket gets a second slot,
  and two screens are cast; the socket's close (`:581`) and the browser's (`:242`) find nothing, so
  its loop goes on and launches again what was stopped; the wheel is another session's. It ends
  when an attach of its own or a send to it throws. The properties say that this is the only way
  to any of it, and that the socket in the map is served as ever beside such a one, except that
  its cast may stall (`ScreenFollows`): two casts on one page do, says `viewer.ts`. That the close
  finds its claim is `CloseFindsItsClaim`, in section 6.
* `NoticeIsFinal` is about what can still be begun by whoever has the row. A replica that renewed
  its lease, stalled past it before `deliver` on an earlier attempt, and goes on after another's
  last attempt failed runs the Bot after the notice. The code cannot know; that no turn starts
  after a notice is `NoTurnAfterNotice`, in section 6.
* `JudgedIsActed`, `FreshIsHonoured`: `lapped` and `crossed` in `ComputerActions`, the looks that
  overlapped another and the acts across which the container was replaced or a list was made;
  section 6 tells the windows. `FreshIsHonoured` also waits, with `muddled`, until the first look
  after a list of an older container came in late.
* `SpentOnce`: `slipped`, the grants of which an exchange was sent and its outcome never kept.
* `RemovedIsOut`: `underway`, the consents let in before a removal and stored after the
  retirement had listed what there was.

## 4. Fairness

* `WorkQueue`: weak fairness of the clock, the purge, and per owner of sweeping, of starting
  the next item, of ending the one in hand and of closing its transaction. `loop.ts`
  reschedules after success and failure alike, and each call inside has a deadline. Nothing
  is assumed of offers, heartbeats or deaths, so properties hold if owners die for ever:
  attempts run out.
* `Handoff`: the clock, the reaper, sweeps and steps of each replica; and a conversation that
  is locked comes free (`talking /\ Converse`): a run ends, and its lock with it. Nothing says
  it is free when a relay tries.
* `RoutineFiring`: the clock; per sweep, starting a pass and going on to the next step; a post
  arrives or is lost; the server serves its turns, whose phases have deadlines or fail. Nobody
  has to offer, switch, die or throw.
* `Routines`: only that each sweep goes on to its next step; the worker repeats its two phases
  every thirty seconds. The clock may stand still, nobody has to edit anything.
* `LiveScreen`: promises of the browser settle (a launch launches or fails, a close closes, a
  cast starts or fails), and an interval that is set keeps firing. Nothing is assumed of
  people, of sites, or of browsers not dying. `Forget`, the idle sweep, may never run.
* `HostAccess`: the desktop's loop goes on polling and handling, a lease lapses, and a
  container that was created is looked at. Nobody has to ask, approve, stop or fail.
* `BrowserProfiles`, `ComputerActions` and `VendorGrants` are checked for safety only.

## 5. Proofs

Eight modules hold theorems; the conjuncts of the invariants are named, and each of the larger
ones was checked by TLC before it was proved.

### `WorkQueueProofs`, over `WorkQueue`

For all finite or infinite sets of keys and owners, any windows with `Lease <= KeepGivenUp`:

* `QueueInvariant`: `IInv`, which is `TypeOK` with `Tidy` (a row nobody wants carries no
  claim), `LeaseIsRecent` (a live lease is no older than its length), `HeldOnce` (an owner
  does not have a key both waiting and in hand) and `LeaseIsExclusive`.
  `LeaseIsExclusive` alone is not inductive: purge could take a leased row. It cannot because
  a lease being recent and the window being no shorter, the row is too young; that is
  `LeaseIsRecent`, and `Tidy` is what makes it hold of rows just offered.
* `TypesHold`, `LeaseExclusion`: its conjuncts.
* `FinishedIsFinal`, `LeaseIsKept`: action properties, from the invariant.
* `PrefixIsCapped`: needs `CountStands`: what an open transaction counted is still so when it
  inserts, since no second one is open and plain offers cannot touch the prefix.
* `AttemptsAreBounded`: the hand-outs not yet acted on plus the starts made never exceed the
  attempts counted. Needs the claims of other owners to be disjoint, from `HeldOnce` and `Ours`.
* `QueueImplementsLedger`: every step of the queue is a ledger step or a stutter. A claim is
  a grant; a tick is the lapse of the leases it ends; a purge forgets; renew is a keep; every
  operation by one who no longer has the row is a stutter.

### `HandoffProofs`, over `Handoff`

For any replicas, asks and attempts, and whatever fails, stalls or dies:

* `HandoffInvariant`: `TypeOK` with `Known` (what is in hand was once a row), `HandedOutOnce` (an
  attempt is in one pair of hands), `ReportedOnce` and `RelayedOnce` (a delivery still to be
  reported has no report, one still to be relayed has no relay), `NoticedLast` (once a notice is
  a row no attempt is left that could deliver), `RetriedIsOnRecord`, and `TurnsArePassed`: the
  turns a key has had are no more than the attempts that were handed out and are over. That
  last is a count of a set that only grows, and what bounds the turns by the attempts.
* `TypesHold`, `OneReportHolds`, `TurnsAreBoundedHolds`, `SecondTurnIsOnRecordHolds`: what follows
  from it.
* `NoticeIsFinalHolds`: once there is a notice the row is spent, and what anybody still has before
  its turn is of an earlier attempt (`NoticedLast`). Only the row's current attempt can be its
  owner's (`HandedOutOnce`), so whoever has an earlier one has lost the row. It does not say that
  they stop: one that stalled past its renewal goes on.
* `NoticeIsTrueHolds`, which assumes that the trail and the queue can be written: then a
  delivered hop is never in the hands of the catch (`LastIsCarried`, `AnswersAreReported`). With
  a failing trail it is false, as section 6 shows.

### `RoutinesProofs`, over `Routines`

For any finite set of routines, any sweeps, editors, periods and bounds with
`Grace + MaxPass <= Keep`:

* `RoutinesInvariant`: `TypeOK` with `PassIsShort`, `HandledBeforeMoved` (a sweep about to move
  a clock has put that occurrence on the queue, or it is past grace) and `RememberedLongEnough`
  (an occurrence has its row, or is older than `Keep`).
* `TypesHold`.
* `NoFiringIsLost` and `NoClockGoesBack`: from `HandledBeforeMoved` and the compare-and-set.
* `OnceForEver`: needs the assumption. A pass that read a stamp offers it only inside
  `Grace` of its own start, `MaxPass` later at most; the row it would collide with is kept
  `Keep`. In the code grace is ten minutes and the row is kept twenty-four hours. Nothing in the
  code bounds a pass, so this is a place where the proof says what operations must hold to.

### `RoutineFiringProofs`, over `RoutineFiring`

For any sweeps, occurrences, attempts and windows with `MaxDispatch + MaxTurn < Abandoned`:

* `FiringInvariant`: `TypeOK`, `YoungEnough` and `LiveRunIsOpen`. The last alone is not
  inductive, for nothing in it keeps the reaper off. `YoungEnough` does: a run still in the
  post has been taken on by nobody and is no older than `MaxDispatch`, a run has one turn at
  most, and a live turn's run is older than the turn by no more than `MaxDispatch`. So no run
  a turn will still close reaches `Abandoned`, and no other turn closes it.
* `TypesHold`, `NoLiveRunIsReaped`: its conjuncts.
* `DuplicatesHaveCauses`. What the code relies on is the lease, and the invariant says so: a
  sweep has one firing in hand, and unless it slipped its lease on the row is alive (`Leased`);
  of an occurrence that did not slip one run at most was ever posted, and its row is finished, or
  the sweep that posted it still has it in hand, on its way to finishing it (`TakenOnce`).
  `TakenOnce` is about runs that may still come to be accepted (`Taken`), and not only about
  those that were: a post under way is what a second sweep could overtake.
* `TiredRoutinesAreOff`: a routine that is tired has an excuse (`Excused`): it is off, a turn is
  about to count or to switch it off, a person switched it on, or a server died uncounted. Only a
  turn that records a failure can make a routine tired, and that turn counts next. The proof
  compares the sets of failed runs since the last success, so nothing is counted along a sequence.

Both are over `Whole`, which is the invariant above with these two, and was checked by TLC on the
run's instance.

The assumption is a premise about operations. In the code the worker gives a dispatch 30
seconds, a turn has 5 minutes and 5 seconds' grace, and the reaper waits 10 minutes. But
`MaxDispatch` also stands for a sweep that stalls between inserting the run and posting it, and
for a post that is late; and the turn's own deadline does not cover the reads before it. Nothing
in the code bounds those, so the theorem says how long they may take together.

### `ComputerActionsProofs`, over `ComputerActions`

For any looks, acts, replicas, containers, documents and faults:

* `ActionsInvariant` follows a list from the browser that makes it to the click that uses it.
  `LooksAreLocated` and `RowsAreTold` say what each stage has read and written; `LooksAreAlone`
  that a look which overlapped no other is the only one at the container; `ListsStand` that a
  list made alone is the browser's last for as long as its number is the count; `CitationsStand`
  that what was judged is what was stored under the cited number; `CheckedIsListed` that a
  citation which passed the computer's check points into the list the computer now has.
* `TypesHold`, `JudgedIsActedHolds`, `TrailIsWholeHolds`. The last is that what is done was let be
  done by a row before it: one that says allowed, or a dry-run's, which says refused and carried
  out (`policy.ts:306`, `gateway.ts:532`, `:1162`); and that no refusal that stands is done.
* `FreshIsHonouredHolds`. That the list answered last is the one that is stored takes three more:
  a look that counted alone is to be given a number nothing carries yet (`NumbersAreNew`), so
  what carries the count is all of one document (`NumbersAgree`), and a row that is not muddled
  is of this container exactly if it is dated so, and no older than any list answered from it
  (`RowIsCurrent`). The first two speak of what is answered and not yet saved as much as of the
  row: two saves of one number may come in either order.

### `AgentComputerProofs`, over `BrowserProfiles` and `LiveScreen`

Of the browsers, for any Bots, calls, cap and faults:

* `RecordsHold`: `IInv`, in parts that each answer for something the code relies on without
  saying it. None of the three properties is inductive: each asks who else may run, and that is
  spread over the records, the launches in flight and the calls that are closing something.
  - `TypeOK`, whose `OrderOfUse` says that the order of the map names the Bots with a record,
    each once; `CallsAreWhole`, what a call at each of its awaits is and has by then.
  - `ChromeIsLaunched`: a Chromium opens only while its call launches it, and exists from then on.
    `TableIsTrue`, which is also a property of the run.
  - `LaunchIsKnown`: of a Bot that was not raced, whoever launches is in the table, and the record
    is empty till the launch is over. This is why one launch never writes over another's record,
    and it is what two replacements of one half-dead browser break.
  - `DroppedIsOver`: a half-dead browser that is being dropped is past its launch and no page any
    more, so the record that goes when its close answers hides nothing.
  - `RunningIsOnRecord`: what runs, and nobody is closing, has its Bot's record.
    `LeavingIsLast`: browsers are taken out all at once by a shutdown only.
  - `OwedIsFound`: what a stop owes was launched, or is the launch the stop waits for; and once
    the stop has looked at the record, it runs no more or is being closed.
  - `ExcessIsLeaving`: there is one record too many at most, and only while a call that is about
    to go on has a victim with a record in hand. Between two turns of the event loop no call is
    about to go on, and that is the cap.
* `BrowserTypesHold`, `TableHolds`, `StopsClose`: its conjuncts, and what follows from one.
* `OneBrowser`: of a Bot that was not raced, a kept browser is the launch in the table, with an
  empty record, or has the record (`KeptIsKnown`). Two would be one.
* `CapHolds`: the browsers that run and nobody closes map one to one into the order of use, by
  the place of their Bots.

A lemma for each action says that it keeps the invariant. Two more carry what several of them
share: browsers that are told to go, go or die (`BrowsersGo`), and a call that goes on without
touching the tables (`OneMoves`).

Of the screen, for any sockets and attaches in flight, and any life of the browser:

* `ScreenInvariant`: who opened a socket has the screen, was told that it lost it, or claimed on a
  session that was dropped and owns that one's slot (`OpenedIsTold`), windows are those of a browser that runs or is being closed and nothing that
  starts while it closes has the screen (`WindowsAreUp`), with `OneScreen` and
  `LoopEndsWithBrowser`. `OneScreen` alone does not survive a cast that arrives late: it is
  refused because its socket is revoked or has lost the screen, which is `OpenedIsTold`.
* `ScreenTypesHold`, `ScreenIsOne`, `LoopsEnd`, and `WheelStays`, an action property. Each excepts
  the sockets of `dropped` by name and nobody else: what they leave running touches no other slot.

### `VendorGrantsProofs`, over `VendorGrants`

For any people, consents, calls and rotations:

* `SpendInvariant`: one call per locked row (`HolderHasRow`), and where nothing slipped what the
  vendor takes is what the vault holds, or what the call with the row has in hand (`KeptUp`).
  `NoTokenIsSpentTwice` follows.
* `OutInvariant`: who holds which live credential, and what a retirement has still to revoke.
  `VaultAgrees` and `RetirementIsWhole` follow. `TypesHold`.

### `HostAccessProofs`, over `HostAccess`

For any asks, calls, stops and faults:

* `AccessInvariant`. Beside the types, the order of the broker's Map, and what the loop and the
  workers can have in hand: a folder the server has a grant for is granted no more
  (`GrantedOnce`); a call that ran is past running, and is remembered or has lost the folder it
  ran under (`RanIsSpent`); what is being canceled, or was, has lost its folder, and its
  container is gone or is being removed (`CanceledHasNothing`); what a worker reports it did
  (`ReportsAreTrue`); a container that may be started is one a cancel finds (`StartableIsFound`).
* `TypesHold`.
* `RunsOnceHolds`. The desktop's memory of operations is what keeps a replay out, and a desktop
  that dies forgets it. It then has forgotten its folders too, so what matters is that no folder
  comes back: an ask is handed out again only while it pends on the server, and the server has a
  grant only for one that was answered. `RanIsSpent` and `GrantedOnce` need each other for that.
* `CanceledIsOverHolds`: from `CanceledHasNothing`. A cancel is carried out on the containers it
  finds; one that is being created meanwhile is refused because the folder is gone.
* `AccessIsALoan`: every step of broker, loop and workers is a step of `FolderLoan` or changes
  nothing the person and the Bot see. An expiry, a revocation, a stop and a lost desktop are all
  folders taken back and callers refused. A result is a folder lent, a run reported, or a caller
  refused, and only while its caller waits, because an operation is on the queue exactly while it
  pends. A container started is a run: once (`RanIsSpent`), and not after its cancel was over
  (`StartableIsFound` with `CanceledHasNothing`). Polls, hand-outs, lapses and deaths change
  nothing. `FolderLoan` does allow a command to run after its caller was refused, as the code
  does: the cancel takes its time.

The queue is a set with the order its members were put there in, and not a sequence, for the
sake of these proofs: what an operation's failure does to the Map (the operation is deleted, its
cancel comes last) is then a union and a product.

### Only model-checked

The liveness properties (`EverythingSettles`, `GivenUpIsForgotten`, `AskIsHeardOf`,
`AnswerIsRelayed`, `ClockCatchesUp`, `EveryRunCloses`, `ScreenFollows`, `CancelArrives`): the
proof system has no fairness or `ENABLED`. Every invariant and every action property of a passing
run is proved; the type invariants are proved and not run as well. No module declares a
recursive operator, and no theorem rests on induction over data. For that reason
`BrowserProfiles` takes a record out of its order by position and not with `SelectSeq`, which is
recursive and of which the prover's library states nothing.

## 6. Where code and words disagree

`routines_cap` is kept as a run: `update` decides whether it enables from a row read before the
lock; a routine switched off in between is switched on uncounted, past the 20 of
`docs/routines.md:31`.

The others are stated as definitions of their modules. Each is shown by checking the definition
on the instance named, with the changes named:

| Definition | Instance | The code | The words |
|---|---|---|---|
| `Handoff.AnswerIsRelayed` | `MCHandoffLive.cfg`, `MaxMishaps = 1`, `Failing = {}` | `handoff-runner.ts:366`: `finish` and the relay's offer are two statements; a death between them loses the answer for good | `handoff-runner.ts:404` promises a retry |
| `Handoff.GivenUpIsTold` | the same | `handoff-runner.ts:447`: a death in the last attempt leaves a hop that gave up in silence | `docs/architecture.md:230`: it is said out loud |
| `Handoff.RelayIsSpoken` | `MCHandoffLive.cfg`, `Failing = {}` | `handoff-delivery.ts:280`: a busy conversation costs an attempt of the relay, and enough of them drop the answer | `handoff-delivery.ts:288`: a wait and not a failure |
| `Handoff.NoticeIsTrue` | `MCHandoffLive.cfg` under `Spec`, `Failing = {"audit"}`, `MaxMishaps = 1` | `handoff-runner.ts:419`: a trail that cannot be written after the last attempt delivered has the person told nothing came | `handoff-runner.ts:252`, `:411` set out to avoid it |
| `Handoff.NoTurnAfterNotice` | `MCHandoff.cfg` | `handoff-runner.ts:343`: a replica renews, stalls past its lease before `deliver`, and runs the Bot after another replica's last attempt failed and told the person so | `handoff-runner.ts:246` to `:255` set out to avoid that "the Bot may answer after they were told it would not", by one ceiling for claim and notice |
| `BrowserProfiles.DeletedAlone` | `MCBrowserProfiles.cfg`, `Kinds` without `"closeAll"`, `Faults = {}`, `MaxMishaps = 0` | `profiles.ts:503`: a call that waited for a close launches while a later reset deletes the profile | `profiles.ts:496`: "the browser is closed before the directory is deleted" |
| `LiveScreen.CloseFindsItsClaim` | `MCLiveScreen.cfg` | `index.ts:186`: with more than 32 sessions, the one just made for a socket is swept before the socket claims on it, and its close finds nothing: cast and loop go on for a watcher who has gone | `index.ts:442`: "With the claim taken first there is always something for that close to release" |
| `LiveScreen.IdleLoopCastsLivePage` | `MCLiveScreen.cfg` with `Sockets = {s1}`, `Latecomers = {}` | `index.ts:467`: ticks of one loop overlap, and the slower notes and casts the older page last | the comment there: the cast follows the Bot's current page |
| `ComputerActions.LabelsAreUnique` | `MCComputerActions.cfg` | `index.ts:332`: two looks that overlap are stamped with one number | `snapshot-store.ts:126`: "increases by one per snapshot" |
| `ComputerActions.CurrentIsHonoured` | `MCComputerActions.cfg` | `supervisor.ts:197`: the supervisor's list dates a container by its creation (`docker.ts:201`), an ensure by its start (`docker.ts:245`); a replica that saw no ensure refuses a fresh citation as stale | `provider.ts:86`: "which run of this Bot's computer is current" |
| `VendorGrants.RemovedHasNothing` | `MCVendorGrants.cfg` | `routes.ts:2014`: access is looked at before the code is redeemed and the grant is stored at 2047; somebody removed in between is left with a live grant | `routes.ts:2004` to `:2012` set out to avoid it |

Met, and not stated: `docs/routines.md:38` says a failing routine posts exactly one message, but
two overlapping turns that fail can both count two (`runner.ts:153`), and then neither says it;
`docs/routines.md:55` says a backlog drains occurrence by occurrence, while `sweep.ts:205` jumps
past it in one pass; the header of `routines/store.ts` says the person's half has nothing about
concurrency in it.

### What the models show that no word denies

* **Gateway.** A list is saved under the run the replica last heard of, so a later ensure can
  date it with a run it was not made in (`gateway.ts:360`). A reset wipes the row, and a look of
  the new run that was already under way may write one after it (`:747`); an act then finds no
  element, and is judged as one on no element. The run may be replaced between the decision and
  the arrival, and a list made between the computer's check of the number and its click. A
  failed ensure lets judging use an older run.
* **Profiles.** "Never reopened from a profile being closed or deleted" (`profiles.ts:251`) holds
  of a call that finds the close, not of one that waited for an earlier close while a later reset
  began (the `DeletedAlone` above). Launches are one at a time (`:249`, `:380`), except where two
  calls replace one half-dead browser (`:406`).
* **Host access.** A cancel carries its grant, so one expired call revokes the whole folder on
  the desktop (`broker.ts:61`, `host_access.rs:807`) while the server keeps offering it. A cancel
  whose engine call fails is answered failed and forgotten (`:833`). An operation handed out again
  after its result was lost is refused as a replay although it was carried out. A crash leaves
  containers to nobody. A failing poll revokes the local grants while the server keeps its own.
  The check after a container is created asks only for a stop or a revoked grant (`:928`), and
  misses the cancel of that one operation; no harm, since that cancel also revokes the grant.
* **Grants.** Two calls that are both told the client is unknown each register one
  (`store.ts:1883` to `:1890`). After that the next call presents the old grant under the new
  client, though `:1876` to `:1881` mean never to carry it across. A call that waited for the row
  while its person reconnected is told that access was withdrawn. Retiring fails when a
  reconnection rotated a credential it had listed, and has to be repeated.

## 7. Not modelled, and the plan

Left out of what is modelled:

* `BrowserProfiles`: which window is the page (that is `LiveScreen`'s), launch options, egress.
* `LiveScreen`: other Bots' sessions are there only as the sweep their making runs; a watcher's
  messages, which a socket on a dropped session finds answered "gone"; when a send to a closed
  socket throws is a choice (`Undelivered`). A reset is a stop; a half-dead browser dropped and launched again is
  `relaunching`; whether a stop is slow is a choice; a second stop during the wait of a first.
* `ComputerActions`: the count's bump when a window becomes the page (`index.ts:270`), secrets
  typed into a field, providers without runs, `forgetIdleSessions` restarting the count, frames.
  What a Bot may do while a person has the wheel is one flag read at the decision.
* `VendorGrants`: restoring a connection, removing a server while one is being connected
  (`store.ts:3330`), brokered (Composio) connections. Calls are modelled as on replicas of their
  own; `serialized` in one process only restricts them further.
* `RoutineFiring`: `recordSweep`, and what is said in the channel.

Next, in order:

1. The **computer supervisor** (`docker.ts:468`): ensure, stop and reset over an external daemon;
   most of what matters is what Docker does between two calls.
2. The **culler** with the gateway's record of actions (`culler.ts:168`).
3. The **requests of the wheel**: a secret typed for one field while another is asked for
   (`index.ts:709`).
4. `restore` and `removeServer` in `VendorGrants`, then brokered connections.
5. An abstract specification of a Bot's browser as {none, starting, running, closing}, which
   `BrowserProfiles` implements of every Bot that was not raced.

Not planned: the stall guard and the watchdog (one event loop, one flag read and set in one step),
the busy mark of `handoff-delivery.ts:250` (a hint on the page), channels, attachments, agents,
people and their roles (single statements over Postgres), the interface, the desktop's installer,
parsing and validation, the vendors' clients, the agent processes. They are I/O, generated, or
have no order of steps that could go wrong. These are also most of the repository's lines.
