----------------------------- MODULE HealthView -----------------------------
(***************************************************************************)
(* What the people who run a relay read of peer.health(): the green light  *)
(* and the tray of the desktop app (desktop/src/main/relay-controller.js,  *)
(* tray.js, renderer.js, sparkline.js), fed by a health tick, a status     *)
(* event that is sent only when it changes and one snapshot the dashboard  *)
(* asks for when it loads; and the health dump of the daemon (healthdump.  *)
(* js, index.js).  Numbers nobody compares are left out.                   *)
(***************************************************************************)
EXTENDS Naturals, Sequences

CONSTANTS
  PeerBound,  \* bound: authenticated peers
  SparkCap    \* capacity of the graph (the code's is 120)

VARIABLES
  kernelHealth, \* what peer.health() would say now
  stack,        \* the controller: "down", "starting", "up" (its tick runs)
  lastHealth,   \* controller.lastHealth, NoHealth for null
  lastStatus,   \* controller.lastStatus: [color, state]
  trayShows,    \* the tray: [status, peers]
  trayPeers,    \* tray.js lastPeers, 0 for -1
  pageAsk,        \* the dashboard's snapshot: "not", "taken", "drawn"
  reply,        \* the status and health it was answered
  light,        \* the status the dashboard shows
  panel,        \* the health it shows
  graph,        \* its ring buffer of bound peers
  crossed         \* history: a status event came between the two

viewVars == <<kernelHealth, stack, lastHealth, lastStatus, trayShows, trayPeers,
              pageAsk, reply, light, panel, graph, crossed>>

NoHealth == [bridge |-> "null", bound |-> 0, degraded |-> FALSE]
Healths  == {NoHealth} \cup [bridge : {"connecting", "open", "closed"}, bound : 0 .. PeerBound, degraded : BOOLEAN]
Red(s)    == [color |-> "red", state |-> s]
Orange(s) == [color |-> "orange", state |-> s]

(* deriveStatus: the first thing that is wrong, in this order.              *)
Derive(h) ==
  IF h.bridge = "null" THEN Orange("starting")
  ELSE IF h.bridge = "closed" THEN Red("closed")
  ELSE IF h.bridge # "open" THEN Orange(h.bridge)
  ELSE IF h.degraded THEN Orange("degraded")
  ELSE IF h.bound < 1 THEN Orange("meshing")
  ELSE [color |-> "green", state |-> "connected"]

(* The health dump's rows about roles: an array it did not get counts as    *)
(* none, and rolesComplete says whether the count was read.                 *)
Shapes == [listed : BOOLEAN, roles : 0 .. 2, complete : {"yes", "no", "absent"}]
Dump(s) == [roles |-> IF s.listed THEN s.roles ELSE 0,
            complete |-> IF s.complete \in {"yes", "no"} THEN s.complete ELSE "null"]

ViewInit ==
  /\ kernelHealth = NoHealth /\ stack = "down" /\ lastHealth = NoHealth
  /\ lastStatus = Red("stopped") /\ trayShows = [status |-> Red("stopped"), peers |-> 0]
  /\ trayPeers = 0 /\ pageAsk = "not" /\ reply = [status |-> Red("stopped"), health |-> NoHealth]
  /\ light = Red("page") /\ panel = NoHealth /\ graph = <<>> /\ crossed = FALSE

-----------------------------------------------------------------------------
\* Mutant: a status is sent only when its colour changes.
SameColor(s) == lastStatus.color = s.color

(* _emitStatus sends a status that differs from the last one.               *)
Unchanged(s) == lastStatus = s

(* The tray redraws on a status event, from the controller's last health;   *)
(* the dashboard's light follows once it has loaded its script.             *)
EmitStatus(s, h) ==
  /\ lastStatus' = s
  /\ IF Unchanged(s) THEN UNCHANGED <<light, crossed>>
     ELSE light' = s /\ crossed' = (crossed \/ pageAsk = "taken")
  /\ trayShows' = IF ~Unchanged(s) THEN [status |-> s, peers |-> h.bound]
                  ELSE IF h.bound # trayPeers /\ stack = "up" THEN [status |-> lastStatus, peers |-> h.bound]
                  ELSE trayShows

KernelMoves ==
  /\ stack # "down" /\ kernelHealth' \in Healths \ {kernelHealth}
  /\ UNCHANGED <<stack, lastHealth, lastStatus, trayShows, trayPeers, pageAsk, reply, light, panel, graph, crossed>>

(* The health loop: once a second while the relay is up.  The panel draws   *)
(* the numbers and pushes one onto its graph.                               *)
Push(v) == IF Len(graph) = SparkCap THEN Append(Tail(graph), v) ELSE Append(graph, v)

HealthTick ==
  /\ stack = "up" /\ lastHealth' = kernelHealth /\ trayPeers' = kernelHealth.bound
  /\ panel' = kernelHealth /\ graph' = Push(kernelHealth.bound)
  /\ EmitStatus(Derive(kernelHealth), kernelHealth)
  /\ UNCHANGED <<kernelHealth, stack, pageAsk, reply>>

(* start(), connected, a failed attempt and stop(): the panel keeps the     *)
(* numbers it has.                                                          *)
Starts ==
  /\ stack = "down" /\ stack' = "starting" /\ kernelHealth' = NoHealth
  /\ EmitStatus(Orange("starting"), lastHealth)
  /\ UNCHANGED <<lastHealth, trayPeers, pageAsk, reply, panel, graph>>

ConnectFails ==
  /\ stack = "starting" /\ EmitStatus(Red("reconnecting"), lastHealth)
  /\ UNCHANGED <<kernelHealth, stack, lastHealth, trayPeers, pageAsk, reply, panel, graph>>

Connected ==
  /\ stack = "starting" /\ stack' = "up"
  /\ UNCHANGED <<kernelHealth, lastHealth, lastStatus, trayShows, trayPeers, pageAsk, reply, light, panel, graph, crossed>>

Stops ==
  /\ stack # "down" /\ stack' = "down" /\ lastHealth' = NoHealth
  /\ EmitStatus(Red("stopped"), NoHealth) /\ UNCHANGED <<kernelHealth, trayPeers, pageAsk, reply, panel, graph>>

(* The dashboard asks once; the answers are drawn when the last is there.   *)
Asks ==
  /\ pageAsk = "not" /\ pageAsk' = "taken" /\ reply' = [status |-> lastStatus, health |-> lastHealth]
  /\ UNCHANGED <<kernelHealth, stack, lastHealth, lastStatus, trayShows, trayPeers, light, panel, graph, crossed>>

Draws ==
  /\ pageAsk = "taken" /\ pageAsk' = "drawn" /\ light' = reply.status
  /\ IF reply.health = NoHealth THEN UNCHANGED <<panel, graph>>
     ELSE panel' = reply.health /\ graph' = Push(reply.health.bound)
  /\ UNCHANGED <<kernelHealth, stack, lastHealth, lastStatus, trayShows, trayPeers, reply, crossed>>

ViewStep ==
  \/ KernelMoves \/ HealthTick \/ Starts \/ ConnectFails \/ Connected \/ Stops \/ Asks \/ Draws

-----------------------------------------------------------------------------
(* The light, the tray and the graph tell one story: the tray shows the     *)
(* last status and the peers of the last health; the dashboard's light is   *)
(* the same status once its snapshot is drawn, unless a status event came   *)
(* between the snapshot and its drawing; while ticks arrive the status is   *)
(* the one the last health deserves, and green only for a bound, open and   *)
(* undegraded relay; the graph ends where the panel stands.  And a health   *)
(* dump that says it read all roles counts the kernel's (relay-controller   *)
(* 24-36, 93-100, 169-179; tray.js 89-97; renderer.js 23-47, 95-108).       *)
OneStory ==
  /\ trayShows = [status |-> lastStatus, peers |-> lastHealth.bound]
  /\ (pageAsk = "drawn" /\ ~crossed) => light = lastStatus
  /\ (stack = "up" /\ lastHealth # NoHealth) => lastStatus = Derive(lastHealth)
  /\ lastStatus.color = "green" =>
       lastHealth.bridge = "open" /\ lastHealth.bound > 0 /\ ~lastHealth.degraded
  /\ Len(graph) <= SparkCap /\ (graph # <<>> => graph[Len(graph)] = panel.bound)
  /\ \A s \in Shapes : (s.listed /\ Dump(s).complete = "yes") => s.complete = "yes" /\ Dump(s).roles = s.roles
=============================================================================
