# axona-relay: a verification development

TLA+ models of the program in this repository, checked with TLC on small
instances and, where the property matters for every instance, proved with TLAPS.

1. [The system](#1-the-system)
2. [Modules and the code they model](#2-modules-and-the-code-they-model)
3. [Runs: what each one checks and shows](#3-runs-what-each-one-checks-and-shows)
4. [Bounds](#4-bounds)
5. [Fairness](#5-fairness)
6. [Proofs](#6-proofs)
7. [Where the code and its comments disagree, and what the properties excuse](#7-where-the-code-and-its-comments-disagree-and-what-the-properties-excuse)
8. [What is not modelled](#8-what-is-not-modelled)
9. [What is left](#9-what-is-left)

Paths below are relative to the repository; line numbers are those of the
commit beside this directory. In `PROJECT.json` the same paths carry the
checkout's `src/` in front.

## 1. The system

axona-relay is the Node.js side of the Axona overlay network. It packages the
kernel (`vendor/axona-protocol`, vendored and treated here as external) as
several programs: a relay daemon, a desktop app around the same relay, an MCP
server through which an agent publishes and reads, and helpers around them. All
of it is single-threaded JavaScript, apart from the watchdog's worker and the
Windows wrapper, so what interleaves is the code between two `await`s, and whole
processes that share files.

| component | source | state it keeps | operations | talks to |
|---|---|---|---|---|
| author seat lock | `src/mcp-session.js` `claimAuthorIdentity` | the lock file `{pid, handle}` | claim, release | every other process on the same identity file |
| MCP session | `src/mcp-session.js` | `_session`, `_connecting`, `_shuttingDown`, `_inflight` | ensureSession, publish, reconnect, shutdown, terminate | seat lock, kernel peer, MCP tool calls, signals |
| watch buffer | `src/mcp-watch.js` | buffer, seen, seenOrder, counters | deliver, collect | watch table |
| watch table | `src/mcp-session.js` | `WATCHES`, waiters | watch, replay, unwatch, poll, re-seat on reconnect | kernel sub/unsub, watch buffer |
| hosting | `src/mcp-session.js` | `HOSTED` | host, unhost, rehost on reconnect | kernel host/unhost |
| publish confirmation, point read | `src/mcp-confirm.js`, `src/mcp-pull.js` | the `inflight` map | confirmPublished, drainInflight, pullMessage | kernel pull, shutdown |
| MCP server | `src/mcp.js` | inbox sink, tool registry | auto-connect, tools, stdin and signal handlers | MCP session, inbox file |
| relay daemon | `src/index.js`, `src/relay.js` | current peer and transport, host loop | configuration, connect loop, host loop, shutdown | kernel peer, bridge |
| arming and pools, network, location | `src/relay.js`, `src/network.js`, `src/geolocate.js` | environment | armingFromEnv, poolsFromEnv, resolveBridgeUrl, autoDetectRegion | relay daemon, location services |
| service, stop file, watchdog | `windows/relaysvc.cs`, `src/stopfile.js`, `src/watchdog.js` | the service job, the stop file, missed beats | OnStart, Watch, Halt; poll, unlink; beat, tick, kill | service manager, relay daemon |
| probe worker | `src/probe.js` | seen requests, busy flag, files | poll, runProbeMatrix | operator files |
| file transfer | `src/file-transfer.js` | files on disk | sendFileBytes, fetchFileToDisk, listPointers | kernel chunk store |
| PoW collector | `pow-collector.js` | seen ids, log file, handle | connect, append, reconnect, health check, leaderboard | kernel |
| fleet supervisor | `scripts/fleet.mjs` | slots and their relays | launch, rolling restart, rolling stop | relay processes |
| desktop controller and shell | `desktop/src/main/*.js`, `desktop/src/renderer/*.js` | `running`, `_startToken`, stack, timers, status; settings, window, tray | start, stop, launch, quit, choose a network, draw | relay functions, the user |
| one-shot commands, log context, health dump | `src/cli.js`, `src/ops.js`, `src/logctx.js`, `src/healthdump.js` | one throwaway peer | pub, pull, sub; a log line; a dump | kernel |
| inbox and tick | `src/mcp.js`, `scripts/tick.mjs`, `scripts/inbox.mjs` | inbox, schedule and cursor files | arrival, firing, digest, ack | one another, through files |
| council scripts | `scripts/council-*.mjs` | state and capture files | watch a board, classify a command, gate a deploy | a topic, an agent's editor |
| posting scripts | `scripts/mcp-post.mjs`, `scripts/mcp-bot-post.mjs` | the author's identity file | publish, hold, probe | kernel |
| experiment harness | `harness/*.mjs` | a ledger of rows | sidecars, churn, analyzers, reconciler | kernel, one another's rows |

How they interact. An MCP tool call goes through `ensureSession()`, which takes
the seat, connects a peer, declares the author class and arms the standing
watches; arrivals of the peer go to the watch buffers and, through a callback,
to the inbox sink; a signal or a closed stdin calls `terminate()`, which drains
the publishes in flight and closes the peer. The relay daemon and the desktop
controller each run a connect loop over `startRelay()` and `stopRelay()`, and
are stopped by signals, the stop file, the UI or the service manager. The
scripts are processes of their own that meet one another in files; the harness
judges a run from the rows its processes wrote.

What is hard, and what makes each component correct:

| component | hard | correct when |
|---|---|---|
| author seat lock | file operations of several processes interleave; kills at any point; recycled pids | one live owner; a release touches its own lock only |
| watch buffer, re-seat | caps, replays of the same messages, polls and arrivals while the watch moves to a new peer | first in, first out; nothing unread is lost; the watch is not left deaf |
| watch table | long polls, replays, unwatches and arrivals at each other's awaits | no wake-up lost; the listed watch is the one that is fed |
| MCP session, hosting | connects, reconnects, publishes, hosts and a shutdown overlap at every await | one peer; recorded publishes accounted for; the list says what the peer hosts; the process ends |
| relay daemon | connects that time out go on; a shutdown at any await; an environment that contradicts itself | one node at a time, configured as asked; out of the mesh before the exit; up once the bridge answers |
| desktop | start and stop overlap at every await; five views of one state | one relay; the last word wins; every view tells the same story |
| service, stop file, watchdog | stop during boot, crash during stop, frozen loop | every stop honoured, no stale one; restart exactly on a crash |
| probe, collector, fleet | restarts, half-written files, late connects, a stop that meets a restart | each request served, each result once, one relay at a time out of the mesh |
| scripts | deaths between two writes; records in any order; a shell's quoting | nothing passed unread; no approval on a withdrawn verdict; no command mistaken for harmless |
| harness | clocks that differ, logs that are incomplete, sidecars that restart | what it reports follows from what happened |

## 2. Modules and the code they model

Each state variable is named after the code's where TLA+ and the other modules
of a composition allow it, and each action is the code between two awaits (or,
for code that works on files, between two file operations).

The MCP server:

- **`AuthorSeat`**: `claimAuthorIdentity()` and the `release()` it returns, in any
  number of processes on one identity file. `lock` is the file (`NoLock`, `Torn`
  or `{pid, handle}`), `pc` the point between two file operations, `held` what a
  claim read. A claim is three steps (read, truncating open, write), a release
  two (read, unlink). Processes start, are killed and have their pids recycled.
- **`WatchBuffer`**: `makeWatch`, `deliver` and `collect` as operators on a watch
  record. **`WatchLife`** composes them into one watch that lives through
  arrivals and polls.
- **`WatchTable`**: `watch()` on its three paths, `poll()` with its waiters and
  `unwatch()`, as calls that interleave at their awaits. A record, and a
  subscription, is named after the call that made it; the kernel owes a
  subscription the messages it was asked for, in any order and repeatedly.
- **`WatchReseat`** extends `WatchBuffer`: `reconnect()` from its snapshot to the
  merged watch, `armStandingWatches()`, and the paths of `watch()` they take.
  Records are shared objects, as in the code: the snapshot refers to the buffer
  of the old record and copies its counters.
- **`SessionLifecycle`**: `ensureSession()`, the connect it starts, `publish()`
  with its read-back, `reconnect()`, `shutdown()` and `terminate()`. A connect is
  named after the call that started it. What the promise machinery runs in the
  same turn (a resolved connect and its waiters) is one action.
- **`Hosting`**: `host()`, `unhost()`, and what reconnect and shutdown do to the
  list of hosted topics. Sessions are numbered.
- **`PointRead`**: `pullMessage()` with its three answers, and `drainInflight()`
  over `confirmPublished()` with both budgets, a clock in ticks, and a holder that
  may be silent, fail, or answer.
- **`FileTransfer`**: sending, listing and fetching; the reduction of a file name
  over classes of characters; pointers that parse and do not.

Processes that run for days:

- **`RelayDaemon`**: `main()` of `src/index.js` from the connect loop on, over
  `startRelay()` and `stopRelay()`. A stack is named after the attempt that built
  it, so a timed-out connect that still comes up is told from the next one.
- **`RelayLife`**: what a relay promises whoever runs it: it serves until asked
  to stop, then leaves, and what it held is handed off before it is gone.
  `RelayDaemon` implements it (`Promise`), `RelayService` builds on it (`R`).
- **`RelayService`**: the wrapper's service-control and Watch threads, the job,
  the stop file, the relay, the watchdog's beats, and the service manager.
- **`RelayArming`**: what the environment asks for and what the launcher refuses,
  in the order `createRelay()` decides it. **`Locate`**: where the relay thinks it
  is and which bridge it joins.
- **`ProbeWorker`**, **`Collector`**, **`Fleet`**: the polls over request, output and
  done files; the collector's connects, health checks and append; the slots of a
  supervisor under a rolling restart and a rolling stop. **`FleetView`**: one row of
  the supervisor's dashboard, from the chunks of a relay's two streams through the
  shared half-line buffer to the state and the note that are drawn. A line is
  abstracted to what the parser's rules find in it.

The desktop:

- **`RelayController`**: `start()`, `stop()`, `_teardownStack()`, the health loop
  and the host loop. Each call is a process that interleaves with the others at
  its awaits; `this.peer`, `running`, the token and the timer are shared.
- **`DesktopApp`**: launch, quit, the window, the tray and the settings, each with
  its idea of the network; the controller's calls are abstracted to when they
  tear down, take their network and return. **`HealthView`**: the numbers from
  `peer.health()` to the light, the tray, the graph and the dump.

Commands and scripts:

- **`OneShot`** (`cli.js`, `ops.js`), **`LogContext`** (`logctx.js`), **`PostHeld`** (the
  two posting scripts), **`Inbox`** (sink, `tick.mjs`, `inbox.mjs`), **`CouncilWatch`**,
  **`CouncilGate`** and **`CouncilScope`**. Names, texts and times are abstracted to what
  the decisions distinguish: a post is what it says of the one change, a shell
  command a sequence of classes of characters, a log value a kind and a length.

The harness:

- **`HarnessRun`** (a publisher and a required reader, the rows they write and the
  two programs that judge them), **`HeadSweep`** (the heads readers log and the
  detectors over them), **`CoordBootstrap`** (how readers learn the author of a
  topic), **`DeliveryTree`** and **`ActivityWindow`** (the reconciler: where a message
  was lost, and who was required to get it), **`EdgeLedger`** (rows of senders and
  receivers, the two probes that write some of them, and the paths
  `reconstruct-transitions.mjs` joins them to). Each carries what really happened
  beside what was logged, so that a verdict can be compared with the truth.

`MCAuthorSeat` and `MCWatchTable` give constants and symmetry sets; the other
symmetry sets stand at the end of their module. `MCDaemons` and `MCTools` check several modules in
one run: these share no state with one another in the program, so in one
behaviour only the module that `which` picks takes steps (and has its fairness),
and the others stay as they start. Nothing is gained from their product.

The kernel is external in all of them: `Join`, a resolving or rejecting `sub()`,
a message that lands or does not. Two facts about it are assumed. `leave()`
bounds its drain to 5 s (`AxonaPeer.js:2635`), so a teardown comes back. And a
stack that was stopped does not come up later.

## 3. Runs: what each one checks and shows

| run | properties | what it shows |
|---|---|---|
| `seat_exclusive` | SoleOwner, RemovesOwnLock | three processes with kills, a recycled pid and corrupt files: one owner, as long as no claim overwrote a lock it had not read |
| `seat_race` (violation) | SecondProcessRefused | two claims that start together both own the key |
| `session_safety` | ConnectingIsLive, OnePeer, ShutdownLeavesNoPeer, RecordedAreAccountedFor | three concurrent publishes, a reconnect and a shutdown at any moment, over connects that fail and may leave a peer up |
| `session_live` | WaitersAreAnswered | two overlapping reconnects, a publish and a shutdown; no read-back and no close has to return |
| `session_two_peers` (violation) | OwnsTheOnlyPeer | a reconnect during a connect brings up a second peer |
| `watch_table` | NoLostWakeup, ArrivalsFindReaders | four calls of watch, poll and unwatch on two topics, with arrivals at every await |
| `watch_reseat` | NothingUnreadLost, ReseatWorksOn | two reconnects that may overlap or fail, with polls and arrivals throughout |
| `relay_controller` | NodeFollowsCalls, StatusIsTrue, Returns | three calls of start and stop at any await of one another |
| `controller_two_starts` (violation) | TearsDownFirst | a second start while the first mints its identity leaves two relays in the mesh |
| `relay_service` | NoOrphan, StopMeetsItsRun, KillsOnlyFrozen, StopEnds | crashes, freezes, stops at any step of a start, and deletions of the stop file that fail |
| `relay_daemon` | OneNode, KeepsPromise, RelayComesUp | connects that fail, hang or come up late, and a shutdown at any point; the relay implements `RelayLife` |
| | ReportIsWhole, RequestIsServed | a probe directory over restarts, with half-written requests |
| | LoggedOnce, EveryResultLogged | the collector over outages, late connects and kills |
| | FleetKeepsItsRelays, StopEndsTheFleet | a rolling restart, a rolling stop, relays that crash or never leave |
| `tools` | BufferIsSuffix | more ids than the watch remembers, replays and polls of any size |
| | FilesAreWhatTheySay, ReadsAreHonest, ListSaysWhatIsHosted | files, point reads and the drain, hosting across a reconnect |
| | JoinsOnlyAsAsked, GoesWhereItWasTold | every environment a relay can start in |
| | ViewsAgree, LosesTheLeast, ReportsAreTrue | the views of the desktop app and the fleet's dashboard, a log line, the commands and posting scripts |
| | WhatWaitsIsTold, CouncilHolds | the inbox with its three files, the board watcher, the gate and the hook's classifier |
| | VerdictsFollow, DetectorsMeanRestarts | the harness against what really happened |

A property of the last run may have two or three parts, each stated and
explained in the module it is about (`FilesAreWhatTheySay ==
Files!SavedIsWhatWasAsked /\ Files!AnnouncedIsPublished`).

Each property has a mutant in `PROJECT.json`: a change a programmer could make to
one modelled definition (a guard dropped, a step left out, a count off by one)
under which the run finds the property violated. The modules hold further
mutants, one for nearly every part of a property that the table does not reach.

## 4. Bounds

| constant | value | why it is enough |
|---|---|---|
| `Pid`, `Recyclable` | 3, 1 | an owner, a replacement and a third; one pid that comes back |
| `Publish`, `Reconnect` | 3 and 1, 1 and 2 | a waiter, a joiner and a later call; two overlapping reconnects |
| `InflightMax` | 2 (64 in the code) | the third publish pushes the oldest off the list |
| `Id`, `BufferCap`, `SeenCap`, `MaxAccepted` | 3, 2, 2, 5 | one more id than the watch remembers or holds (200 and 50 000 in the code); the last bounds the history: an id in, out and in again |
| `WatchTable` | 2 topics, 3 messages, 4 calls | a watch, a replay or second watch, a poll, and an unwatch of the same topic, beside another topic |
| `WatchReseat` | 2 ids, cap 1, 2 reconnects | an eviction during the carry-over, an overlap |
| `MaxAttempts` | 4 (daemon), 2 (controller, per call) | bounds how many connects in a row the bridge fails; the code retries for ever |
| `Calls` | 3 | a start, something that meets it, and something that meets both |
| `Need`, `Slack` | 3, 1 | the watchdog's missed beats, and a late loop that is not frozen |
| `MaxFaults`, `MaxStuck`, `MaxStarts` | 2, 1, 3 | a fault before and after a restart; one deletion that fails; a run before, the run, the next |
| probes, collector, fleet | 2 requests, 2 starts, 2 rows; 3 peers, 2 outages, 1 late connect, 1 kill; 2 slots, 3 relays in each | a request before and during another, over a restart; the current, the late and the next peer; a slot in the restart and one that is not, with a relay, its successor and the successor of that, which is when a late exit can hide a relay |
| scripts | 2 minutes and 2 lines, 2 digests; 2 reviewers, an outsider, 2 posts; 3 posts, 1 death | a firing under an ack and a digest; a verdict and its successor in either order; a post before, at and after the death, one more than the ids the watcher keeps (`SEEN_CAP` 2) |
| hosting | 1 topic, 2 callers | topics share nothing but the session, so a second one adds states and no case; the theorem is about any number |
| `TextBound`, `HopBound` | 4 characters, 3 shells | the shortest texts in which quoting, a dynamic word and a separator meet; one remote shell more than the code looks into |
| desktop | 2 networks, 3 starts, 2 launches, 1 peer | two choices beside the launch; a quit and a return |
| dashboard | 3 rules of 2 severities, 2 relays, 2 lines | a line cut in two around one of the other stream, and one of a replaced relay |
| `LogContext` | 3 keys, values up to 3, caps 3 and 8 | an evidence line over its cap with one, two or three values to cut |
| harness | 3 nodes, 2 roots; 5 to 6 moments; 2 lives | a path of two hops and a second tree; a subscription, a publish and an end that differ by less and by more than the uncertainty; one restart |
| heads, coordination | 3 ticks, 2 rows, 1 restart, `Silence` 0; 2 sidecars with 2 lives | two rows that are adjacent or a restart apart, with a silence between them or not: every detector fires, the one for a wedged watch within a life and over a restart; a reader that starts before and after its publisher came back |
| `EdgeBound`, `PollCount` | 3, 2 (one probe per peer) | a path of two hops beside a lost hop of the same message; a peer that proves live at the second poll |

`CHECK_DEADLOCK FALSE` stands where the system really stops: a process that
exited, or calls that have all returned. `SYMMETRY` is used in runs without
temporal properties under fairness, over interchangeable calls, ids or pids.
`watch_reseat` has a `VIEW` that forgets the content of records nobody can read
any more; its properties do not look at them, apart from `seen`, which stays.

## 5. Fairness

- `SessionLifecycle`: weak fairness of the steps of a connect (`connectPeer()`
  is bounded by its own timeouts) and of `HardExit` (the `setTimeout` that
  `terminate()` arms before anything else, and nothing cancels). Nothing makes a
  read-back, an `unsub` or the close return. That the process ends follows from
  the timer alone, so no property states it.
- `RelayDaemon`: weak fairness of the loop (its race has a timeout, its backoff a
  timer), of the host loop (25 s bound, `host()` resolves or throws), of
  `ShutdownDone` (`leave()` is bounded), and of the join of the last attempt: the
  bridge answers once it is back.
- `RelayController`: the same for each call's steps and for the join of the last
  attempt of each call.
- `RelayService`: weak fairness of the wrapper's steps and of the watchdog's
  ticks (threads of their own), of the service manager's restart of a failed
  service, and of the relay's timers. A frozen relay does nothing; that `StopEnds`
  all the same is the job's doing.
- `ProbeWorker`, `Fleet`: weak fairness of the polls and of the timers. Nothing makes
  a relay leave; `LeaveTimesOut` is what ends the wait for it.
- `Collector`: weak fairness of its timers and of deliveries; strong fairness of
  the dial and the join of an attempt in progress: the network keeps failing
  attempts, but not every one. Nothing makes a `close()`, the first `connect()`, the
  `sub()` of a late attempt or a publish settle, and no append has to succeed:
  `EveryResultLogged` names each of these as a way to miss a result.

The modules of `tools` have no liveness property and no fairness.

## 6. Proofs

| module | what is proved for every value of the constants |
|---|---|
| `Sessions_proofs` | `AuthorSeat`: SeatTypeOK, SoleOwner, OwnerIsNamed, ReleasedSeatIsFree, RemovesOwnLock, RefusedByOwner; `SessionLifecycle`: SeatFollowsLife, ConnectingIsLive, NoSessionAfterShutdown, OnePeer, ShutdownLeavesNoPeer, RecordedAreAccountedFor |
| `WatchTable_proofs` | TypeOK, NoLostWakeup, ArrivalsFindReaders |
| `WatchReseat_proofs` | TypeOK, NothingUnreadLost, ReseatWorksOn |
| `Daemons_proofs` | `RelayDaemon`: TypeOK, OneNode, LeavesFirst, and that it implements `RelayLife` (its safety); ReportIsWhole, LoggedOnce, FleetKeepsItsRelays; `RelayService`: ServiceTypeOK, NoOrphan, KillsOnlyFrozen, StopIsHeard, RestartIsACrash, and, with at most one deletion that fails, StopMeetsItsRun |
| `RelayController_proofs` | TypeOK, StatusIsTrue, NodeFollowsCalls |
| `Tools_proofs` | `WatchLife`: TypeOK, BufferIsSuffix, CountersAddUp, MemoryConsistent, DistinctWhileRemembered; JoinsOnlyAsAsked, ListSaysWhatIsHosted, GoesWhereItWasTold, WhatWaitsIsTold, ReportsAreTrue, ReadsAreHonest |
| `Views_proofs` | ViewsAgree, LosesTheLeast, DetectorsMeanRestarts, CouncilHolds |
| `Verdicts_proofs` | FilesAreWhatTheySay, VerdictsFollow |

So every invariant that a run checks is also proved, and so is every action
property but the fair half of `KeepsPromise`.

The only assumptions are the named `ASSUME`s on the constants, which TLC
evaluates in the runs, and the bound on deletions, which stands in its theorem.
What they say of `MCDaemons` and `MCTools`: bounds, budgets and sizes are numbers;
a name used for nothing names nothing; the dashboard's rules come in order of
severity, and a severer trouble is shown no shorter (`fleet.mjs:86-112`), without
which `RowTellsTheTruth` is false; no clock of the harness is off by more than a
whole run lasts, and its fleets and trees are finite. Nothing relates the period of
a head sweep to the cadence of a topic, since both come from the environment.

Each part has an inductive invariant, named `IInv` or after its part (`FleetIInv`),
and its theorems are drawn from it. In a composed run a step of one part leaves
the variables of the others alone, so the invariant of a part is one of the
composition. What the invariants add to the properties:

- *AuthorSeat*: `SoleOwner` says nothing of a claim between its truncating open
  and its write, nor of what the file holds meanwhile. The invariant adds that
  at most one process is writing or owning (`SoleWriter`), that an owner is named
  in the file (`Named`), that a released one is not (`Freed`), and that dead
  processes stay out of the protocol. `RefusedByOwner` rests on a fact that no race
  disturbs: whoever the file names, or a claim read in it, completed a claim and has
  not come back as another process (`NamedHaveClaimed`).
- *SessionLifecycle*: before the first reconnect every call waits for the same
  connect, and a peer that is open is the session, is being linked, is being
  closed, or was left up by a `startRelay()` that rejected, which its failed task
  tells; a publish on the books is in the drain, landed or reported. These link
  `_connecting`, `_session`, the tasks and the calls, none of which is inductive
  alone.
- *WatchLife*: `BufferIsSuffix` is inductive once every operator is known to
  return a watch within its cap; the lemmas say what `Deliver` and `Collect` do to
  the sequences, by the cases cap reached or not and id known or not.
  `DistinctWhileRemembered` needs that a watch which has forgotten an id has had
  more of them than it can remember (`MemoryIInv`): else an id that was forgotten,
  and counted again when it came back, would look like one never forgotten.
- *WatchTable*: `NoLostWakeup` needs the waiters of every record, also of those no
  longer registered (`Waits`). `ArrivalsFindReaders` needs that on a topic where no
  two calls met one call at most is changing the subscription (`Sole`), that the
  topic is fed except between the halves of a replay, by what that call found in
  the table (`Fed`), that whoever waits is on the list of the registered record
  (`Read`), and that a message was emitted no more often than there are records
  that have seen it (`Once`).
- *WatchReseat*: whatever reconnects overlap or fail, a record holds a message at
  most once, counts it once, and holds all it has seen but what a poll or a cap
  took (`Records`, `Kept`). Where none failed or met another (`Alone`), what can
  still be read has seen all there was: the record the reconnect set out from, and
  the one its `watch()` subscribes.
- *RelayDaemon*: `OnlyCurrent`: the mesh holds at most the current stack, every
  earlier one has been taken out, and no later one exists. `Countdown` bounds the
  host loop. The refinement maps the process to `LifeSeen` (up, leaving, gone) and
  `Holds` (its current stack is in the mesh and the shutdown will take it out);
  every step of the loop is a step of `RelayLife` or a stutter.
- *Probes, collector, fleet*: a run under way was started by this process, has no
  done file of it yet, and has written a row for every probe it has made
  (`BusyIsFresh`); a result on file is known to a collector that could write it again
  (`OnFileIsKnown`); until a stop is asked for, a slot whose latest relay is down, the
  one in the restart aside, has crashed (`OnlyCrashesCount`), an exit on record is
  that of the latest relay (`ExitedIsGone`), and a stop leaves nothing running behind
  it (`StopPassed`).
- *RelayController*: a controller that is not running has said so, or some
  `stop()` is between what it clears and what it emits (`SaysSo`). For
  `NodeFollowsCalls`, while no call met another in a teardown, an import or a mint:
  one call at a time has a stack in hand, but for a stop that comes while a start
  connects or cleans up (`OneBusy`); only the call that holds the token goes on
  (`TokenAlone`); what is in the mesh, or may still get there, is `this.peer`
  (`InHand`); the loops run for the stack that is kept (`Looping`, `HostsIt`).
- *RelayService*: what the service manager believes of the wrapper is true
  (`Wrapped`), a relay that ended unasked is known to have ended early (`Told`), and
  a run that knows its stop file to be fresh has none until it is asked to stop
  (`Unasked`). The watchdog's counter exceeds the ticks that found a frozen loop by
  at most the slack (`Counted`).
- *Arming, location*: each stage of the launch has established what the next one
  relies on; lemmas say which entry of a repeated setting wins. The services before
  the current one failed, those after it were not asked (`Asking`).
- *Hosting*: a topic whose calls met nothing has one call at a time, and the peer
  that call began on stays the current one until it is over (`Unmixed`). What the
  peer hosts beyond the list was left there by an `unhost()` that failed (`kept`).
- *Inbox, board watcher*: what a copy of the cursor will pass has been shown
  (`PassedIsShown`), and a firing counted anywhere has its line; what the state file
  holds was handled to the end (`WrittenIsDealtWith`), and while the board has no
  more posts than it can hold it forgets none (`NoneForgotten`). Within a life the set
  in memory only grows, so a post that was forgotten on file wakes once more at most
  for each life (`OnceALife`).
- *Posting scripts, commands*: while nobody looked for the author as another script
  saved it, one script at a time saves, or the file has the author of everybody who
  has one (`OneSaves`, `NobodySaves`).
- *Point read, drain*: the end of a confirmation lies within the drain's budget, no
  attempt is given more than what is left of it, and an entry leaves the list in
  the step that reports it, unless the budget is spent.
- *Views*: while no two starts met in their teardowns, the one in its teardown is of
  the network that was saved, and the window draws that network or will draw it
  (`OneTeardown`, `WindowFollows`); the status is the one the health deserves
  (`StatusDeserved`); a row remembers, for every trouble line that came whole and is
  not old, a trouble at least as severe and as recent (`Remembers`), and what waits
  for the end of its line is at most one piece of the slot's own relay
  (`CarriesOne`).
- *Log line*: every value that was passed over comes before every one that is left
  (`LargestFirst`), and without the last loss the line would not have fitted
  (`LastLossNeeded`).
- *Detectors*: in one life of a reader its head only rises, and the rows follow it.
  A head that is higher than the last row's was heard since that row was written,
  in this life or the next (`RisesAreHeard`, `NextRiseIsHeard`), so a silence before
  the row that shows it lies between the two rows. Whatever author is announced,
  known or listened to is one of the plan's publisher.
- *Files*: one of our pointers stands on a topic only for bytes that are out
  (`Announced`). A fetch that has a name for its file holds what it asked for, and
  two that have one name both chose it before either wrote (`Chosen`). Whatever a
  pointer calls its file, what the filter leaves of it is a name inside the
  directory, and so is that name with a number on it (`Fits`).
- *A run judged from its rows*: the rows of a life stand in order around whatever a
  reader saw of it: none of an earlier life is later than the observation, none of
  its kill earlier (`SeenBetween`), and no row of a message precedes its publish.
- *Activity window*: a wall of the log less its clock's error is a moment, the
  moments come in a possible order, and where a hello was bound once the log names
  the change of id it belongs to (`NothingYet`, `WindowLogged`).
- *Delivery tree*: whoever holds the message is a root or had it from its true
  parent, who holds it too, and what was collected is part of what happened. The
  climb along logged rows is therefore a climb of the true tree: it ends at a root, or
  at the first edge that was lost or not logged.
- *Edges*: what arrives was sent and arrives once (`LandsOnce`), a message leaves a
  host only after it reached it (`TravelsOn`), and what the warm probe takes for
  proved are the peers it probed (`WarmIsFair`). A path that is followed through
  the rows visits no host twice, so it ends within as many steps as there are hosts.
- *Council*: the record of a reviewer is, of what was read, one of its latest
  verdicts (`RecordIsLatest`), and what was read does not change once the window is
  closed. Of a command, the verdict is that of `deployReasons`, whose loop over the
  nested shells is followed shell by shell. Of a text, no letter is lost while no
  quote is left open, each separator was typed, and a word is the shell's own for a
  `$` or a quote only.

Facts about data of any length (what `filter()` leaves, the least index with some
property, a sum over a set) rest on the well-foundedness of `<` and on functions
defined by recursion over a bounded domain: the set of counterexamples has a least
element, and the definition refutes it. So the model has such functions where it
once had an operator of the library that takes an operator (`Unheld` of
`WatchReseat`, `OnFile` of `EdgeLedger` and `Cleaned` of `FileTransfer` for
`SelectSeq`, `JoinRow` of `EdgeLedger` for a fold), and names what several definitions share (`delete` of
`PointRead`, `Length` of `LogContext`, `Aged` of `FleetView`, `LettersOf` of
`CouncilScope`).

One proof failed for a good reason. `Fleet` forgot that an exit had been taken for
the successor's once that relay was replaced in turn, while the relay it concerned
went on unseen. The invariant was not inductive, and with a third relay in a slot
TLC found the supervisor leaving it behind. The history `mistaken` now stays, and
the run has three relays in each slot.

Only model-checked is liveness, which rests on fairness and on ENABLED:
`WaitersAreAnswered`, `RelayComesUp`, `Returns`, `StopEnds`,
`RequestIsServed`, `EveryResultLogged`, `StopEndsTheFleet`, and of `KeepsPromise` the
fairness of `RelayLife` (its initial states and its steps are proved).

## 7. Where the code and its comments disagree, and what the properties excuse

With a run (see `findings` in `PROJECT.json`):

- `mcp-session.js:131`: the claim reads and writes without an exclusive create;
  "a second live process on the same author file is refused outright" (108).
- `mcp-session.js:661`: a reconnect during a connect starts a second peer; "this
  module owns the only peer" (26).
- `relay-controller.js:125`: overlapping starts leave two stacks up; "Tears down
  any existing relay first" (104). The model shows related ways to the same end:
  a stop during the mint, after which the relay comes up stopped; a timed-out
  connect of an earlier start that tears down the stack of the next.

Some properties have an antecedent, because the code does not promise more. Each
is a history variable or a condition on the calls made, and each stands for
something that does go wrong without it:

| antecedent | module | what happens without it |
|---|---|---|
| `~raced` | AuthorSeat | a claim overwrote a lock it had not read: two owners |
| `NoReconnectYet` | SessionLifecycle | a reconnect during a connect: two peers |
| `Stranded` | SessionLifecycle | a `startRelay()` that rejected left its peer up (`ops.js:56`): one more for each, until the exit |
| `clean` | WatchReseat | a reconnect failed, or two overlapped: unread messages go with the stack frame, or with the watch that is discarded |
| `crossed` | WatchTable | two calls changed one subscription, or a replay was rejected: see below |
| `mixed` | Hosting | calls about a topic overlapped one another or a reconnect: see below |
| `kept` | Hosting | an `unhost()` failed: the topic is off the list and still hosted |
| `target = cur` | RelayDaemon | the daemon built another stack while the shutdown was at work: the exit abandons it |
| `clash` | RelayController | calls met in a teardown, an import or a mint |
| `MaxStuck <= 1` | RelayService | two deletions fail: a stop file reaches a run it was not written for |
| `lost` | ProbeWorker | a poll met the request half-written, or the failure could not be recorded |
| an append that threw, a deaf peer, an await for ever | Collector | `EveryResultLogged` only: the result is marked as seen and on no file; the peer looks healthy and is sent nothing; nothing runs |
| `board <= SEEN_CAP` | CouncilWatch | a post whose id the file forgot wakes again in the next life, and no more than once in each |
| `hides`, `Cloaked`, three shells | CouncilScope | the command changes something by what the classifier does not read: see below |
| `threw` | OneShot | an error in `startRelay()`, or in a verb of `cli.js`: the process ends without leaving the mesh |
| `shared` | FileTransfer | two fetches chose one name at once |
| `overlap`, `mistaken` | Fleet | a stop met a restart; a late exit was taken for the successor's |
| `stale`, `crossed` | DesktopApp, HealthView | the page drew a snapshot older than what it had been told |
| `met` | FleetView | two streams, or a replaced relay and its successor, met in the half-line buffer: the row mixes them |
| `withIds` | EdgeLedger | rows without attempt ids: a lost hop takes the receipt of another |
| `raced` | PostHeld | a run looked for the author's file, or died, while another saved it: two authors |

Met while modelling, without a run of their own:

The MCP server

- A recycled pid makes the lock of a dead holder refuse its replacement (132).
- A joiner of a shared seat is recorded nowhere, so another handle can claim it
  once the holder it joined has gone (141, 144).
- A publish can sign after the shutdown released the seat, because it looked at
  `_shuttingDown` before it waited (335); "from this line on this process can never
  sign as the author again" (731).
- A message polled during the re-seat is handed out again (682); "nothing unread is
  duplicated or lost" (680).
- A failed `ensureSession()` in `reconnect()` loses the snapshot with every unread
  message and the list of hosted topics (665, 668).
- A reconnect suspended in its close clears the session under the drain (657, 637).
- A publish accepted after the drain copied its list is lost silently (748, 752).
- A rejected replay leaves a registered watch that nothing feeds (462), which for a
  fresh watch the comment at 471-473 rules out; a replay and an unwatch together
  leave a subscription that is listed nowhere; two fresh watches at once send an
  arrival to the inbox twice.
- A long poll without a topic waits on the watches that exist when it starts (515),
  where "any watch wakes us" (533); a waiter that timed out stays on the lists.
- `host()` in flight across a reconnect or a shutdown is listed but not hosted; an
  `unhost()` between the copy of the list and the rehost comes back. An `unhost()`
  that the peer rejects drops the topic from the list while it is still hosted (554-555),
  and the next one is refused as "not hosting" (552); `host()` mends it.
- A `startRelay()` that rejects with the peer up leaves that peer behind (`ops.js:56`;
  only the wait for the mesh stops it, 64-67), and the next call starts another.
- Past the memory cap a forgotten id counts as new in `total` (`mcp-watch.js:56`).
- `confirmPublished()` repeats a pull that fails at once without a pause.
- Two fetches that end together write one path (`file-transfer.js:186`); "Never
  overwrite" (115).

Processes

- The daemon does not look at `shuttingDown` after the awaited teardown
  (`index.js:344`), so it can build a stack that the exit abandons; "the shutdown
  closure always sees the live instances" (260).
- A stale `peer.host()` sets `_hosted` after the next start cleared it, and that
  start never hosts (`relay-controller.js:193`).
- A restarted relay has a new node id, so a request with a done file runs again
  (`probe.js:116`), which the header (15-16) denies; a request read while half-written is not
  read again (119).
- The collector awaits `h.close()` without a bound, though the comment at 121-124 says
  why the attempt after it is bounded; a late connect leaves a second subscription (141); a leaderboard
  publish that fails late tears down a healthy connection; the first `connect()` has no
  timeout. A result is marked as seen before its append (82-84), so one whose append
  throws is lost for the life of the process. Where the `sub()` of a late attempt is
  rejected, its peer is the current one and looks healthy (116-119), and nothing
  subscribes again.
- In the fleet, `r` and then `q` can leave a relay behind "all relays stopped cleanly";
  the late exit of a replaced child marks its successor as exited; a signal during
  the launch ends the supervisor at once.
- A trouble line that follows a health line cut just before its newline is swallowed
  by it (`fleet.mjs:117`).
- A location service whose body stalls hangs the boot, since its timer is cleared
  with the headers (`geolocate.js:27`, against line 7); an unknown `RELAY_NETWORK` joins prod without
  a word (`network.js:47-48`).
- `cli.js` exits without leaving the mesh when its command fails; `pub` says ok of what
  was accepted locally.

The desktop

- A snapshot taken before the launch's `start()` took its network shows the
  default, and nothing corrects it (`renderer.js:98`); a choice in the tray never redraws
  the buttons of the dashboard; `gracefulQuit` awaits `controller.stop()` without a
  bound; the dashboard keeps its numbers after a stop.
- "Absence prints null" (`healthdump.js:22`), but three fields print 0 or [] (31, 78, 82).

Scripts

- An ack names a task, not a firing; a half-written line counts as seen; a torn
  cursor file makes every later `inbox.mjs` fail; `TICK_ONCE` beside the clock can fire twice.
- The gate reads for a fixed window: with part of the backlog it can pass an
  approval that was taken back in a post it did not get; "HOLD" in prose does not
  take one back. A watcher that dies between its state file and its wake line loses the wake.
- `council-hook.mjs` ends the process at line 47, so nothing below it runs. The
  scope takes two nested remote shells apart; what a third one is given it does
  not look into. A branch is compared as text (180-184), so `x:heads/main` is not
  taken for `main`. Of a remote command only the verbs are read: a substitution in
  double quotes or backticks, which the comment (202-204) says is never cleared, what
  `env` runs and the output file of `sort -o` pass as read-only.
- A probe of the posting scripts takes an older message of the same text for the
  new one; the bot's script counts a read that failed as one that found nothing, and it
  does not publish again, though the other script's comment says so.

The harness

- A restarted sidecar replays its whole slice with the same nonces, and the analyzer
  joins by topic and sequence number; the churn driver logs a kill before it makes it.
- The activation band allows for one host's error; a later activation overwrites an
  earlier interval.
- `stale-pull` fires only after a reader restarted and `split-root` only after a
  publisher did. Since a head is now the reader's own record (`sidecar.mjs:233-242`),
  `wedged-watch` fires exactly where two rows with a rise are further apart than three
  cadences and the last arrival is older than that: it tells of a slow sweep, a late
  timer or a restart, and never of a watch that went deaf. Its self-test
  (`smoke_detector_selftests.mjs:148`) feeds it the routed reads of old.
- The rows of the two probes carry no epoch, so a reconstruction of one epoch drops
  them and counts their arrivals as orphans (`reconstruct-transitions.mjs:57`); a warm
  probe that never saw a peer exits as a success (`warm-probe.mjs:80`).
- The new author of a restarted publisher is not followed, and its losses are
  reported as "stranded-write"; an old announcement that is replayed can replace a newer one.

## 8. What is not modelled

- The kernel and its network (`vendor/`): external steps.
- Shell procedures over ssh and service managers (`roll-fleet*.sh`, `fleet-cadence.sh`,
  `deploy/`), and end-to-end drivers, captures and results (`e2e/`, `turn-e2e.mjs`,
  `harness/baseline/`): nothing but external steps.
- Diagnostics that run once and print (`scripts/diag-*.mjs`, `*-smoke.mjs`, `who-roots.mjs`, ...).
- Presentation: the TUI, the layout of the fleet's dashboard and its event dump, banners, percentiles and reports.
- Within modelled files: argument checks and wording of tool answers, `pull()` and
  `status()` of the session, which change nothing here, the health tick of the daemon,
  and the settling time of a replay, which is a wait of any length.

## 9. What is left

In order of weight:

1. A `Seat` (free, held by one process) that `AuthorSeat` implements while no claim
   raced, and a queue of distinct messages that `WatchLife` implements.
2. `WatchTable` and `WatchReseat` in one module: the waiters of a poll that a
   reconnect leaves behind.
3. `RelayService` over the full `RelayDaemon`: today they meet in `RelayLife` alone,
   which one implements and the other uses.
