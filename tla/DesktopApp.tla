----------------------------- MODULE DesktopApp -----------------------------
(***************************************************************************)
(* The shell of the desktop app around its relay controller: launch, quit  *)
(* and second launch (desktop/src/main/bootstrap.js), the window, the tray *)
(* menu, the settings file and the dashboard, each with its own idea of    *)
(* the network the relay is on.  The controller's own steps are            *)
(* RelayController's; here a start() is its teardown, the moment it takes  *)
(* its network, and its end, and a stop() is its teardown.                 *)
(***************************************************************************)
EXTENDS Naturals

CONSTANTS
  Network,    \* "prod" first among them, see DefaultNetwork
  DefaultNetwork,
  StartCount, \* bound: starts of the controller
  LaunchCount \* bound: launches of the app

Starts == 1 .. StartCount

VARIABLES
  shell,    \* the app: "off", "ready", "quitting" (stop() awaited), "gone"
  window,   \* "none", "hidden", "shown"
  saved,    \* settings.json: the network
  net,      \* controller.network
  relayUp,  \* the controller has a stack
  starting,     \* each start(): [at, net, by]; at "free", "stop" (its teardown),
            \* "connect", "cut" (superseded, still to return), "back"
  drawn,    \* the network the dashboard highlights, "none" before its snapshot
  menu,     \* the network the tray menu shows
  stale,    \* history: why the views may disagree: "overlap", "tray", "early"
  launches

appVars == <<shell, window, saved, net, relayUp, starting, drawn, menu, stale, launches>>
Free == [at |-> "free", net |-> DefaultNetwork, by |-> "launch"]

AppInit ==
  /\ shell = "off" /\ window = "none" /\ saved = DefaultNetwork
  /\ net = DefaultNetwork /\ relayUp = FALSE /\ starting = [c \in Starts |-> Free]
  /\ drawn = "none" /\ menu = DefaultNetwork /\ stale = {} /\ launches = 0

Pending == {c \in Starts : starting[c].at \in {"stop", "connect"}}
Torn    == {c \in Starts : starting[c].at = "stop"}

(* controller.start(n): its first step is a stop(), which cuts every start  *)
(* that is connecting; two in their teardown come back in any order.        *)
Overlap == IF Torn # {} \/ shell = "quitting" THEN {"overlap"} ELSE {}
Superseded(f) == [c \in Starts |-> IF f[c].at = "connect" THEN [f[c] EXCEPT !.at = "cut"] ELSE f[c]]

CallStart(n, by) ==
  \E c \in Starts :
    /\ starting[c].at = "free" /\ \A d \in Starts : d < c => starting[d].at # "free"
    /\ starting' = [Superseded(starting) EXCEPT ![c] = [at |-> "stop", net |-> n, by |-> by]]

-----------------------------------------------------------------------------
(* The launch that has the instance lock; any other shows its window.       *)
LaunchApp ==
  /\ shell \in {"off", "gone"} /\ launches < LaunchCount
  /\ launches' = launches + 1 /\ shell' = "ready" /\ window' = "hidden"
  /\ net' = DefaultNetwork /\ menu' = DefaultNetwork /\ drawn' = "none" /\ stale' = {}
  /\ CallStart(saved, "launch")
  /\ UNCHANGED <<saved, relayUp>>

SecondLaunch ==
  /\ shell \in {"ready", "quitting"} /\ window' = "shown"
  /\ UNCHANGED <<shell, saved, net, relayUp, starting, drawn, menu, stale, launches>>

(* ready-to-show, the tray icon and its menu entry; the close button hides. *)
ToggleWindow ==
  /\ shell \in {"ready", "quitting"} /\ window' = IF window = "shown" THEN "hidden" ELSE "shown"
  /\ UNCHANGED <<shell, saved, net, relayUp, starting, drawn, menu, stale, launches>>

(* The dashboard's snapshot, once: it may come before the launch's start()  *)
(* has taken its network.                                                   *)
Snapshot ==
  /\ shell \in {"ready", "quitting"} /\ drawn = "none" /\ drawn' = net
  /\ stale' = IF Pending # {} THEN stale \cup {"early"} ELSE stale
  /\ UNCHANGED <<shell, window, saved, net, relayUp, starting, menu, launches>>

-----------------------------------------------------------------------------
\* Mutant: the dashboard's choice is not saved.
ChooseUnsaved(n) ==
  /\ shell \in {"ready", "quitting"} /\ drawn # "none" /\ drawn' = n
  /\ CallStart(n, "window") /\ stale' = stale \cup Overlap
  /\ UNCHANGED <<shell, window, saved, net, relayUp, menu, launches>>

(* The buttons of the dashboard: highlighted at once, saved, then start().  *)
(* (A click before the snapshot ends as one after it.)                      *)
ChooseInWindow(n) ==
  /\ shell \in {"ready", "quitting"} /\ drawn # "none" /\ drawn' = n /\ saved' = n
  /\ CallStart(n, "window") /\ stale' = stale \cup Overlap
  /\ UNCHANGED <<shell, window, net, relayUp, menu, launches>>

(* The tray's radio buttons: nobody tells the dashboard.                    *)
ChooseInTray(n) ==
  /\ shell \in {"ready", "quitting"} /\ saved' = n
  /\ CallStart(n, "tray") /\ stale' = stale \cup {"tray"} \cup Overlap
  /\ UNCHANGED <<shell, window, net, relayUp, drawn, menu, launches>>

(* The teardown is over: the start takes its network, emits "starting"      *)
(* (which redraws the menu) and goes on to connect.                         *)
TakesNetwork(c) ==
  /\ starting[c].at = "stop" /\ shell # "gone"
  /\ starting' = [Superseded(starting) EXCEPT ![c].at = "connect"]
  /\ net' = starting[c].net /\ relayUp' = TRUE
  /\ menu' \in {starting[c].net} \cup (IF "overlap" \in stale THEN {menu} ELSE {})
  /\ UNCHANGED <<shell, window, saved, drawn, stale, launches>>

(* start() returns, connected or cut; the dashboard draws what getMeta()    *)
(* says then.                                                               *)
Returns(c) ==
  /\ starting[c].at \in {"connect", "cut"} /\ shell # "gone" /\ starting' = [starting EXCEPT ![c].at = "back"]
  /\ drawn' = IF starting[c].by = "window" THEN net ELSE drawn
  /\ UNCHANGED <<shell, window, saved, net, relayUp, menu, stale, launches>>

-----------------------------------------------------------------------------
\* Mutant: the quit does not wait for the relay to leave.
QuitsAtOnce ==
  /\ shell = "ready" /\ shell' = "gone" /\ window' = "none"
  /\ UNCHANGED <<saved, net, relayUp, starting, drawn, menu, stale, launches>>

(* gracefulQuit, from the menu or before-quit: once; it stops the relay.    *)
Quit ==
  /\ shell = "ready" /\ shell' = "quitting" /\ starting' = Superseded(starting)
  /\ stale' = IF Torn # {} THEN stale \cup {"overlap"} ELSE stale
  /\ UNCHANGED <<window, saved, net, relayUp, drawn, menu, launches>>

(* ... and then quits the app, whose windows close.                         *)
QuitEnds ==
  /\ shell = "quitting" /\ shell' = "gone" /\ window' = "none"
  /\ relayUp' \in IF "overlap" \in stale THEN {relayUp, FALSE} ELSE {FALSE}
  /\ starting' = [c \in Starts |-> IF starting[c].at = "free" THEN Free ELSE [starting[c] EXCEPT !.at = "back"]]
  /\ UNCHANGED <<saved, net, drawn, menu, stale, launches>>

(* The process dies, and with it the relay.                                 *)
AppDies ==
  /\ shell \in {"ready", "quitting"} /\ shell' = "off" /\ window' = "none" /\ relayUp' = FALSE
  /\ starting' = [c \in Starts |-> IF starting[c].at = "free" THEN Free ELSE [starting[c] EXCEPT !.at = "back"]]
  /\ UNCHANGED <<saved, net, drawn, menu, stale, launches>>

AppStep ==
  \/ LaunchApp \/ SecondLaunch \/ ToggleWindow \/ Snapshot \/ Quit \/ QuitEnds \/ AppDies
  \/ \E n \in Network : ChooseInWindow(n) \/ ChooseInTray(n)
  \/ \E c \in Starts : TakesNetwork(c) \/ Returns(c)

-----------------------------------------------------------------------------
(* Whoever chooses a network, once no start is under way the relay is on    *)
(* the one the settings will bring back and the menu shows it; the window   *)
(* shows it as well, unless its snapshot came before the launch's start had *)
(* taken its network or the tray changed it.  And an app that quit by       *)
(* itself left no relay in the mesh.  Two starts, or a start and the quit,  *)
(* that meet in their teardowns void both (bootstrap.js 23-63, tray.js      *)
(* 44-47, ipc.js 11-18, renderer.js 75-108).                                *)
EveryoneAgrees ==
  "overlap" \notin stale =>
    /\ (shell = "ready" /\ Pending = {}) =>
         net = saved /\ menu = saved /\ (stale = {} => drawn \in {saved, "none"})
    /\ shell = "gone" => ~relayUp
=============================================================================
