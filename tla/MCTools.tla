------------------------------- MODULE MCTools --------------------------------
(***************************************************************************)
(* The parts of the repository that neither wait for one another nor have  *)
(* to make progress, side by side: a standing watch, the other operations  *)
(* of the MCP server, files, scripts, the desktop, the harness.  They      *)
(* share no state, so one behaviour runs one of them, `which', and their   *)
(* runs are one run.                                                       *)
(***************************************************************************)
EXTENDS WatchLife, FiniteSets, TLC

CONSTANTS
  Content, Large, Fetcher, PathBound, NoContent,
  Kernels, Limits,
  MsgId, NoMsg, ConfirmTime, StepTime, DrainBudget, AttemptBound,
  Caller, Topic, SessionBound,
  Task, Every, Clock, DigestRun, TimeBound, LineBound,
  Reviewer, Outsider, PostBound,
  PostCount, SEEN_CAP, DeathCount, FailCount,
  TextBound, HopBound,
  Script, HoldTime, RepostEvery,
  Network, DefaultNetwork, StartCount, LaunchCount,
  PeerBound, SparkCap,
  Key, SizeBound, CtxCap, EvidenceCap, ArrayNote, ObjectNote,
  ProviderCount,
  ReadBudget, ReadShort, ListenBound,
  Node, Root, NoNode,
  Horizon, Uncertainty,
  Slo, LiveWindow, Deadline, LastMoment, LifeBound,
  Reader, LastTick, SweepEvery, Silence, Near, LastSeq, Restarts, RowBound,
  Sidecar, SidecarLives,
  Severities, TTL, StaleAfter, RelayCount, SayBound,
  LedgerHost, Driver, Uncovered, EdgeBound, PollCount

\* Kernel versions are numbers, bounds and caps too, and the names the parts
\* use for nothing are none of what they name.
ASSUME ToolsAssumption ==
  /\ Kernels \subseteq Nat \X Nat \X Nat
  /\ "none" \notin Topic /\ "reconnect" \notin Caller
  /\ {ProviderCount, PostBound, LineBound, TimeBound, Every, PostCount, SEEN_CAP} \subseteq Nat
  /\ Outsider \notin Reviewer /\ "msg" \notin Task
  /\ {ConfirmTime, StepTime, DrainBudget, AttemptBound, HoldTime, ReadShort} \subseteq Nat
  /\ NoMsg \notin MsgId \cup {"prefix"} /\ MsgId \cap {"prefix", "silent", "fails"} = {}
  /\ {PeerBound, SparkCap, StaleAfter, RelayCount} \subseteq Nat /\ SparkCap # 0
  /\ Key \cup {ArrayNote, ObjectNote} \subseteq Nat

\* The rules come in order of severity, and a severer trouble is shown no
\* shorter (fleet.mjs 86-112).
ASSUME RulesAssumption ==
  /\ Severities \in Seq(1 .. 3) /\ \A i, j \in DOMAIN Severities : i <= j => Severities[j] <= Severities[i]
  /\ TTL \in [1 .. 3 -> Nat] /\ TTL[1] <= TTL[2] /\ TTL[2] <= TTL[3]

\* The period of the sweep is what the environment says (sidecar.mjs 248), and
\* a topic's silence three of its cadences (analyze.mjs 259): neither bounds the
\* other.
ASSUME SweepAssumption == {Restarts, SweepEvery, Silence} \subseteq Nat

\* Windows, deadlines and moments are numbers, what stands for nothing is no
\* node and no content, and no clock is off by more than the whole run.
ASSUME VerdictsAssumption ==
  /\ {Slo, LiveWindow, Deadline, LastMoment, LifeBound, Horizon, Uncertainty, EdgeBound, PollCount} \subseteq Nat
  /\ Uncertainty <= Horizon
  /\ Root \in Node /\ NoNode \notin Node /\ IsFiniteSet(Node)
  /\ Driver \in LedgerHost /\ IsFiniteSet(LedgerHost)
  /\ NoContent \notin Content

VARIABLES
  which,  \* the part this behaviour runs
  sending, bytesAt, pointers, fetching, asked, arrived, chosen, disk,
  shared,
  launch, place, pools, profile, kernel, askedFor, landed,
  held, inflight, todo, clock, since, budget, attempts, confirmed,
  unconfirmed, wanted, truth, found,
  session, made, onPeer, kept, HOSTED, call, rebuild, before, down, mixed,
  minute, inbox, fired, pass, cursor, reading, shown,
  posts, read, record, gate,
  board, seen, seenMsgIds, onDisk, captured, woken, handling, up,
  seeded, skipped, died, fails,
  typed, quoting, word, words, command, reasons,
  idFile, minted, doing, kind, signs, copy, older, heldFor, lastPub,
  via, saw, timeouts, said, raced,
  shell, window, saved, net, relayUp, starting, drawn, menu, stale,
  launches,
  kernelHealth, stack, lastHealth, lastStatus, trayShows, trayPeers,
  pageAsk, reply, light, panel, graph, crossed,
  line, fate, order, noted,
  asks, provider, reached, answers, located, bridgeTo,
  front, verb, phase, hasPeers, woven, inMesh, elapsed, heard, outcome,
  readTruth,
  treeStage, parent, reader, active, believed, roots, forwarded,
  holders, delivered, ledger, recv, app,
  time, selfNow, subbed, trueAt, selfTL, activate, subEnd, ended,
  boundTo, skew, probe, publishedAt, publishSkew,
  moment, pub, rd, inTopic, op, seenBy, lifeRows, missedKill,
  tick, author, seqs, lives, sampler, due, head, headRows, heardAt,
  plan, life, mode, announced, authors, again, owner, missing, sent,
  serving, halves, carry, row, told, owed, met, saidLines, exits,
  runKind, withIds, dark, sends, wire, landedAt,
  ringing, watched, proved, round, waiting, poll, exitCode

Files == INSTANCE FileTransfer
Arming == INSTANCE RelayArming
Reads == INSTANCE PointRead
Hosts == INSTANCE Hosting
Reminders == INSTANCE Inbox
Gate == INSTANCE CouncilGate
Council == INSTANCE CouncilWatch
Scope == INSTANCE CouncilScope
Posts == INSTANCE PostHeld
Desktop == INSTANCE DesktopApp
View == INSTANCE HealthView
Log == INSTANCE LogContext
Location == INSTANCE Locate
Shot == INSTANCE OneShot
Tree == INSTANCE DeliveryTree
Window == INSTANCE ActivityWindow
Harness == INSTANCE HarnessRun
Heads == INSTANCE HeadSweep
Bootstrap == INSTANCE CoordBootstrap
Dashboard == INSTANCE FleetView
Edges == INSTANCE EdgeLedger

Tools == {"buffer", "files", "arming", "read", "host", "inbox", "gate", "council",
           "scope", "post", "desktop", "view", "log", "locate", "shot", "tree",
           "window", "run", "heads", "coord", "dash", "edges"}

ToolInit ==
  /\ which \in Tools
  /\ Init
  /\ Files!FileInit /\ Arming!ArmingInit /\ Reads!ReadInit /\ Hosts!HostInit
  /\ Reminders!InboxInit /\ Gate!GateInit /\ Council!CouncilInit /\ Scope!ScopeInit
  /\ Posts!PostInit /\ Desktop!AppInit /\ View!ViewInit /\ Log!LogInit
  /\ Location!LocateInit /\ Shot!ShotInit /\ Tree!TreeInit /\ Window!WindowInit
  /\ Harness!RunInit /\ Heads!SweepInit /\ Bootstrap!CoordInit
  /\ Dashboard!DashInit /\ Edges!LedgerInit

filesVs == <<sending, bytesAt, pointers, fetching, asked, arrived, chosen,
             disk, shared>>
armingVs == <<launch, place, pools, profile, kernel, askedFor, landed>>
readVs == <<held, inflight, todo, clock, since, budget, attempts, confirmed,
            unconfirmed, wanted, truth, found>>
hostVs == <<session, made, onPeer, kept, HOSTED, call, rebuild, before,
            down, mixed>>
inboxVs == <<minute, inbox, fired, pass, cursor, reading, shown>>
gateVs == <<posts, read, record, gate>>
councilVs == <<board, seen, seenMsgIds, onDisk, captured, woken, handling,
               up, seeded, skipped, died, fails>>
scopeVs == <<typed, quoting, word, words, command, reasons>>
postVs == <<idFile, minted, doing, kind, signs, copy, older, heldFor,
            lastPub, via, saw, timeouts, said, raced>>
desktopVs == <<shell, window, saved, net, relayUp, starting, drawn, menu,
               stale, launches>>
viewVs == <<kernelHealth, stack, lastHealth, lastStatus, trayShows,
            trayPeers, pageAsk, reply, light, panel, graph, crossed>>
logVs == <<line, fate, order, noted>>
locateVs == <<asks, provider, reached, answers, located, bridgeTo>>
shotVs == <<front, verb, phase, hasPeers, woven, inMesh, elapsed, heard,
            outcome, readTruth>>
treeVs == <<treeStage, parent, reader, active, believed, roots, forwarded,
            holders, delivered, ledger, recv, app>>
windowVs == <<time, selfNow, subbed, trueAt, selfTL, activate, subEnd,
              ended, boundTo, skew, probe, publishedAt, publishSkew>>
runVs == <<moment, pub, rd, inTopic, op, seenBy, lifeRows, missedKill>>
headsVs == <<tick, author, seqs, lives, sampler, due, head, headRows,
             heardAt>>
coordVs == <<plan, life, mode, announced, authors, again, owner, missing,
             sent>>
dashVs == <<serving, halves, carry, row, told, owed, met, saidLines, exits>>
edgeVs == <<runKind, withIds, dark, sends, wire, landedAt, ringing, watched,
            proved, round, waiting, poll, exitCode>>

toolVars == <<which, vars, filesVs, armingVs, readVs, hostVs, inboxVs,
              gateVs, councilVs, scopeVs, postVs, desktopVs, viewVs, logVs,
              locateVs, shotVs, treeVs, windowVs, runVs, headsVs, coordVs,
              dashVs, edgeVs>>

(* Every part but `which' stands still.                                    *)
Others ==
  /\ UNCHANGED which
  /\ which # "buffer" => UNCHANGED vars
  /\ which # "files" => UNCHANGED filesVs
  /\ which # "arming" => UNCHANGED armingVs
  /\ which # "read" => UNCHANGED readVs
  /\ which # "host" => UNCHANGED hostVs
  /\ which # "inbox" => UNCHANGED inboxVs
  /\ which # "gate" => UNCHANGED gateVs
  /\ which # "council" => UNCHANGED councilVs
  /\ which # "scope" => UNCHANGED scopeVs
  /\ which # "post" => UNCHANGED postVs
  /\ which # "desktop" => UNCHANGED desktopVs
  /\ which # "view" => UNCHANGED viewVs
  /\ which # "log" => UNCHANGED logVs
  /\ which # "locate" => UNCHANGED locateVs
  /\ which # "shot" => UNCHANGED shotVs
  /\ which # "tree" => UNCHANGED treeVs
  /\ which # "window" => UNCHANGED windowVs
  /\ which # "run" => UNCHANGED runVs
  /\ which # "heads" => UNCHANGED headsVs
  /\ which # "coord" => UNCHANGED coordVs
  /\ which # "dash" => UNCHANGED dashVs
  /\ which # "edges" => UNCHANGED edgeVs

ToolNext ==
  \/ which = "buffer" /\ Others /\ Next
  \/ which = "files" /\ Others /\ Files!FileStep
  \/ which = "arming" /\ Others /\ Arming!ArmingStep
  \/ which = "read" /\ Others /\ Reads!ReadStep
  \/ which = "host" /\ Others /\ Hosts!HostStep
  \/ which = "inbox" /\ Others /\ Reminders!InboxStep
  \/ which = "gate" /\ Others /\ Gate!GateStep
  \/ which = "council" /\ Others /\ Council!CouncilStep
  \/ which = "scope" /\ Others /\ Scope!ScopeStep
  \/ which = "post" /\ Others /\ Posts!PostStep
  \/ which = "desktop" /\ Others /\ Desktop!AppStep
  \/ which = "view" /\ Others /\ View!ViewStep
  \/ which = "log" /\ Others /\ Log!LogStep
  \/ which = "locate" /\ Others /\ Location!LocateStep
  \/ which = "shot" /\ Others /\ Shot!ShotStep
  \/ which = "tree" /\ Others /\ Tree!TreeStep
  \/ which = "window" /\ Others /\ Window!WindowStep
  \/ which = "run" /\ Others /\ Harness!RunStep
  \/ which = "heads" /\ Others /\ Heads!SweepStep
  \/ which = "coord" /\ Others /\ Bootstrap!CoordStep
  \/ which = "dash" /\ Others /\ Dashboard!DashStep
  \/ which = "edges" /\ Others /\ Edges!LedgerStep

ToolSpec == ToolInit /\ [][ToolNext]_toolVars

(* The kernels of the instance: too old, at the pin, newer, a major ahead.  *)
PoolKernels == {<<3, 70, 0>>, <<4, 66, 9>>, <<4, 67, 0>>, <<4, 67, 1>>, <<5, 0, 0>>}

(* The rules of the dashboard's trouble, by severity, and how long each     *)
(* severity is shown.                                                       *)
TroubleRules == <<3, 1, 1>>
ShownFor == <<1, 1, 2>>

-----------------------------------------------------------------------------
(* What a fetch saved is what it asked for, under a name of its own, unless *)
(* two fetches chose that name at once; and what is announced was published *)
(* (file-transfer.js 91-121, 127-142, 152-188).                             *)
FilesAreWhatTheySay ==
  which = "files" => Files!SavedIsWhatWasAsked /\ Files!AnnouncedIsPublished

(* A relay that joins runs exactly what its environment asked for, on a     *)
(* kernel that can, with pools that fit (relay.js 80-96, 114-128, 152-241,  *)
(* 307-330).                                                                *)
JoinsOnlyAsAsked == which = "arming" => Arming!JoinsOnlyAsAsked

(* A read says yes or no only of what the holder answered; the drain before *)
(* a close keeps its budget however many publishes wait, confirms only what *)
(* reached the holder, and lists what it never asked about (mcp-pull.js     *)
(* 36-79, mcp-confirm.js 28-60).                                            *)
ReadsAreHonest == which = "read" => Reads!PullTellsTheTruth /\ Reads!DrainKeepsItsBudget

(* A topic is listed as hosted exactly when the current peer hosts it and   *)
(* no unhost() of it failed since, unless calls about it overlapped         *)
(* (mcp-session.js 540-557, 649-665).                                       *)
ListSaysWhatIsHosted == which = "host" => Hosts!ListSaysWhatIsHosted

(* What waits for an agent reaches it: no line of the inbox is passed       *)
(* unread, no firing counted without its line; a post wakes once until the  *)
(* board outgrows the ids that are kept, and once a life from then on       *)
(* (tick.mjs 68-101, inbox.mjs 58-129, council-watch.mjs 95-152).           *)
WhatWaitsIsTold ==
  (which = "inbox" => Reminders!NothingIsLost) /\ (which = "council" => Council!WakesOnce)

(* The council's gate approves only on every reviewer's latest verdict, and *)
(* its classifier finds out a command that changes what users get, behind   *)
(* at most two shells and in the words it looks at, and no command that can *)
(* be seen not to (council-verdicts.mjs 53-113, council-gate.mjs 74-150,    *)
(* council-scope.mjs 69-130 and 223-335).                                   *)
CouncilHolds ==
  (which = "gate" => Gate!ApprovesWhatStands) /\ (which = "scope" => Scope!FailsClosed)

(* A script says confirmed, found or ok only of what it saw, gives up only  *)
(* when it is time, and leaves the mesh unless it threw where nobody stops  *)
(* its peer (mcp-post.mjs 93-149, mcp-bot-post.mjs 70-115, ops.js 45-121,   *)
(* cli.js 68-129).                                                          *)
ReportsAreTrue ==
  (which = "post" => Posts!PostsAreTrue) /\ (which = "shot" => Shot!OneShotIsHonest)

(* Settings, relay, menu, tray, light and graph agree once no start is      *)
(* under way and no event met the page's snapshot; and the row of a fleet's *)
(* dashboard tells what its relay said, unless two streams met in a half    *)
(* line (bootstrap.js 23-63, relay-controller.js 24-36 and 169-179,         *)
(* renderer.js 23-108, fleet.mjs 101-163 and 222-251).                      *)
ViewsAgree ==
  /\ which = "desktop" => Desktop!EveryoneAgrees
  /\ which = "view" => View!OneStory
  /\ which = "dash" => Dashboard!RowTellsTheTruth

(* An evidence line loses no more than it must (logctx.js 28-50, 126-155).  *)
LosesTheLeast == which = "log" => Log!LosesTheLeast

(* A relay joins the network it was told, and asks where it is only when    *)
(* told to (index.js 125-162, geolocate.js 21-33, network.js 26-49).        *)
GoesWhereItWasTold == which = "locate" => Location!GoesWhereItWasTold

(* The harness blames what it can show: the class of a lost message, the    *)
(* readers it required, the latencies and losses it counts and the path it  *)
(* draws of a message follow from what happened (reconcile-delivery.mjs     *)
(* 113-136, 198-420; analyze.mjs 66-215; soak-account.mjs 80-255;           *)
(* reconstruct-transitions.mjs 60-135).                                     *)
VerdictsFollow ==
  /\ which = "tree" => Tree!VerdictsAreGrounded
  /\ which = "window" => Window!ActiveMeansSubscribed
  /\ which = "run" => Harness!JudgementsFollow
  /\ which = "edges" => Edges!PathsAreTrue

(* A detector of the harness that fires over rows of the head sweep means a *)
(* restart, or a gap in the ledger for the wedged watch; and a reader       *)
(* listens to the author the plan's publisher had (sidecar.mjs 108-171,     *)
(* 231-248 and 270-279, workload.mjs 63-83, analyze.mjs 88-110 and 175-288).*)
DetectorsMeanRestarts ==
  /\ which = "heads" => Heads!DetectorsMeanRestarts
  /\ which = "coord" => Bootstrap!ListensWhereItIsWritten
=============================================================================
