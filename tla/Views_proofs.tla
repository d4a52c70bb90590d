----------------------------- MODULE Views_proofs -----------------------------
(***************************************************************************)
(* More theorems of the parts that run "tools" checks side by side (see    *)
(* Tools_proofs): those that show and judge.  The views of a relay         *)
(* (desktop, tray and page, dashboard of a fleet), the context of a log    *)
(* line, the detectors of the harness, and what the council holds back.    *)
(***************************************************************************)
EXTENDS MCTools, FiniteSetTheorems, WellFoundedInduction, TLAPS


-----------------------------------------------------------------------------
(* The desktop shell.  While no two starts, and no start and the quit, met  *)
(* in their teardowns, one start at a time is in its teardown, of the       *)
(* network that was saved; and what the window draws, until it was          *)
(* overtaken, is that network or will be drawn again.                       *)

StartRecord ==
  [at : {"free", "stop", "connect", "cut", "back"}, net : Network \cup {DefaultNetwork}, by : {"launch", "window", "tray"}]

AppTypeOK ==
  /\ shell \in {"off", "ready", "quitting", "gone"}
  /\ saved \in Network \cup {DefaultNetwork}
  /\ starting \in [Desktop!Starts -> StartRecord]
  /\ shell \in {"off", "gone"} => \A c \in Desktop!Starts : starting[c].at \in {"free", "back"}

OneTeardown ==
  (shell = "ready" /\ "overlap" \notin stale) =>
    /\ \A c, d \in Desktop!Starts : starting[c].at = "stop" /\ starting[d].at = "stop" => c = d
    /\ \A c \in Desktop!Starts : starting[c].at = "stop" => starting[c].net = saved
    /\ (\A c \in Desktop!Starts : starting[c].at # "stop") => net = saved /\ menu = saved

WillBeDrawn == \E c \in Desktop!Pending : starting[c].by = "window"

WindowFollows ==
  (shell = "ready" /\ stale = {}) =>
    /\ \A c \in Desktop!Starts : starting[c].at \in {"stop", "connect"} => starting[c].by # "tray"
    /\ \A c, d \in Desktop!Starts : starting[c].at = "stop" /\ starting[c].by = "launch" /\ d # c
                                      => starting[d].at \in {"free", "back"}
    /\ drawn \in {saved, "none"} \/ WillBeDrawn

GoneIsDown == (shell = "gone" /\ "overlap" \notin stale) => ~relayUp

AppIInv == AppTypeOK /\ OneTeardown /\ WindowFollows /\ GoneIsDown

\* A start that is called is in its teardown, and cuts those that connect.
LEMMA CalledStart ==
  ASSUME AppTypeOK, NEW n \in Network \cup {DefaultNetwork}, NEW by \in {"launch", "window", "tray"},
         Desktop!CallStart(n, by)
  PROVE  /\ starting' \in [Desktop!Starts -> StartRecord]
         /\ \E c \in Desktop!Starts :
              /\ starting[c].at = "free"
              /\ starting'[c].at = "stop" /\ starting'[c].net = n /\ starting'[c].by = by
              /\ \A d \in Desktop!Starts : d # c =>
                   /\ starting'[d].net = starting[d].net /\ starting'[d].by = starting[d].by
                   /\ starting'[d].at = IF starting[d].at = "connect" THEN "cut" ELSE starting[d].at
<1> DEFINE f == Desktop!Superseded(starting)
<1>1. PICK c \in Desktop!Starts :
        starting[c].at = "free" /\ starting' = [f EXCEPT ![c] = [at |-> "stop", net |-> n, by |-> by]]
  BY DEF Desktop!CallStart
<1>2. /\ f \in [Desktop!Starts -> StartRecord]
      /\ \A d \in Desktop!Starts :
           /\ f[d].net = starting[d].net /\ f[d].by = starting[d].by
           /\ f[d].at = IF starting[d].at = "connect" THEN "cut" ELSE starting[d].at
  BY DEF Desktop!Superseded, AppTypeOK, StartRecord
<1> DEFINE r == [at |-> "stop", net |-> n, by |-> by]
<1>3. r \in StartRecord /\ r.at = "stop" /\ r.net = n /\ r.by = by
  BY DEF StartRecord
<1> HIDE DEF f, r
<1>4. starting' = [f EXCEPT ![c] = r]
  BY <1>1 DEF r
<1>5. starting'[c] = r /\ \A d \in Desktop!Starts : d # c => starting'[d] = f[d]
  BY <1>2, <1>4
<1>6. starting' \in [Desktop!Starts -> StartRecord]
  BY <1>2, <1>3, <1>4
<1> QED BY <1>1, <1>2, <1>3, <1>5, <1>6

\* The app is launched.
LEMMA LaunchKeeps == ASSUME AppIInv, Desktop!LaunchApp PROVE AppIInv'
<1>0. AppTypeOK /\ shell \in {"off", "gone"} /\ shell' = "ready" /\ saved' = saved /\ drawn' = "none" /\ stale' = {}
      /\ Desktop!CallStart(saved, "launch")
  BY DEF AppIInv, Desktop!LaunchApp
<1>1. saved \in Network \cup {DefaultNetwork} /\ \A d \in Desktop!Starts : starting[d].at \in {"free", "back"}
  BY <1>0 DEF AppTypeOK
<1>2. starting' \in [Desktop!Starts -> StartRecord]
  BY <1>0, <1>1, CalledStart
<1>3. PICK c \in Desktop!Starts :
        /\ starting'[c].at = "stop" /\ starting'[c].net = saved /\ starting'[c].by = "launch"
        /\ \A d \in Desktop!Starts : d # c => starting'[d].at \in {"free", "back"}
  BY <1>0, <1>1, CalledStart
<1>4. AppTypeOK'
  BY <1>0, <1>1, <1>2 DEF AppTypeOK
<1> QED BY <1>0, <1>3, <1>4 DEF AppIInv, OneTeardown, WindowFollows, GoneIsDown

\* Somebody chooses a network.
LEMMA ChoiceKeeps ==
  ASSUME AppIInv, NEW n \in Network, Desktop!ChooseInWindow(n) \/ Desktop!ChooseInTray(n)
  PROVE  AppIInv'
<1>0. AppTypeOK /\ OneTeardown /\ WindowFollows /\ GoneIsDown
  BY DEF AppIInv
<1>1. PICK by \in {"window", "tray"} :
        /\ Desktop!CallStart(n, by) /\ shell \in {"ready", "quitting"} /\ shell' = shell /\ saved' = n
        /\ stale \cup Desktop!Overlap \subseteq stale'
        /\ by = "window" => drawn' = n
        /\ by = "tray" => "tray" \in stale'
  BY DEF Desktop!ChooseInWindow, Desktop!ChooseInTray
<1>2. n \in Network \cup {DefaultNetwork} /\ by \in {"launch", "window", "tray"}
  BY <1>1
<1>3. starting' \in [Desktop!Starts -> StartRecord]
  BY <1>0, <1>1, <1>2, CalledStart
<1>4. PICK c \in Desktop!Starts :
        /\ starting[c].at = "free"
        /\ starting'[c].at = "stop" /\ starting'[c].net = n /\ starting'[c].by = by
        /\ \A d \in Desktop!Starts : d # c =>
             /\ starting'[d].net = starting[d].net /\ starting'[d].by = starting[d].by
             /\ starting'[d].at = IF starting[d].at = "connect" THEN "cut" ELSE starting[d].at
  BY <1>0, <1>1, <1>2, CalledStart
<1>5. AppTypeOK'
  BY <1>0, <1>1, <1>3 DEF AppTypeOK
<1>6. "overlap" \notin stale' => \A d \in Desktop!Starts : starting[d].at # "stop"
  BY <1>1 DEF Desktop!Overlap, Desktop!Torn
<1>7. OneTeardown'
  BY <1>1, <1>4, <1>6 DEF OneTeardown
<1>8. WindowFollows'
  <2> SUFFICES ASSUME stale' = {} PROVE WindowFollows'
    BY DEF WindowFollows
  <2>1. by = "window" /\ drawn' = saved'
    BY <1>1
  <2>2. \A d \in Desktop!Starts : d # c => starting'[d].at \notin {"stop", "connect"}
    BY <1>4, <1>6
  <2> QED BY <1>4, <2>1, <2>2 DEF WindowFollows
<1> QED BY <1>1, <1>5, <1>7, <1>8 DEF AppIInv, GoneIsDown

\* A start whose teardown is over takes its network.
LEMMA TakesKeeps == ASSUME AppIInv, NEW c \in Desktop!Starts, Desktop!TakesNetwork(c) PROVE AppIInv'
<1>0. AppTypeOK /\ OneTeardown /\ WindowFollows /\ GoneIsDown
  BY DEF AppIInv
<1>1. /\ starting[c].at = "stop" /\ shell # "gone"
      /\ UNCHANGED <<shell, saved, drawn, stale>>
      /\ net' = starting[c].net
      /\ "overlap" \notin stale => menu' = starting[c].net
  BY DEF Desktop!TakesNetwork
<1> DEFINE f == Desktop!Superseded(starting)
<1>2. starting' = [f EXCEPT ![c].at = "connect"]
  BY DEF Desktop!TakesNetwork
<1>3. /\ f \in [Desktop!Starts -> StartRecord]
      /\ \A d \in Desktop!Starts :
           /\ f[d].net = starting[d].net /\ f[d].by = starting[d].by
           /\ f[d].at = IF starting[d].at = "connect" THEN "cut" ELSE starting[d].at
  BY <1>0 DEF Desktop!Superseded, AppTypeOK, StartRecord
<1> HIDE DEF f
<1>4. \A d \in Desktop!Starts : d # c => starting'[d] = f[d]
  BY <1>2, <1>3
<1>5. starting'[c].at = "connect" /\ starting'[c].by = starting[c].by
  BY <1>2, <1>3 DEF StartRecord
<1>6. starting' \in [Desktop!Starts -> StartRecord]
  <2>1. [f[c] EXCEPT !.at = "connect"] \in StartRecord
    BY <1>3 DEF StartRecord
  <2> QED BY <1>2, <1>3, <2>1
<1>7. AppTypeOK'
  BY <1>0, <1>1, <1>6 DEF AppTypeOK
<1>8. \A d \in Desktop!Starts : d # c =>
        /\ starting'[d].net = starting[d].net /\ starting'[d].by = starting[d].by
        /\ starting'[d].at = IF starting[d].at = "connect" THEN "cut" ELSE starting[d].at
  BY <1>3, <1>4
<1>9. OneTeardown'
  BY <1>0, <1>1, <1>5, <1>8 DEF OneTeardown
<1>10. WindowFollows'
  <2> SUFFICES ASSUME shell = "ready", stale = {} PROVE WindowFollows'
    BY <1>1 DEF WindowFollows
  <2>1. \A d \in Desktop!Starts : d # c => starting'[d].at \notin {"stop", "connect"}
    BY <1>0, <1>1, <1>8 DEF OneTeardown
  <2>2. starting[c].by # "tray" /\ starting[c].by \in {"launch", "window", "tray"}
    BY <1>0, <1>1 DEF WindowFollows, AppTypeOK, StartRecord
  <2>3. CASE starting[c].by = "window"
    <3>1. WillBeDrawn'
      BY <1>5, <2>3 DEF WillBeDrawn, Desktop!Pending
    <3> QED BY <1>5, <2>1, <2>2, <3>1 DEF WindowFollows
  <2>4. CASE starting[c].by = "launch"
    <3>1. ~WillBeDrawn
      BY <1>0, <1>1, <2>4 DEF WindowFollows, WillBeDrawn, Desktop!Pending
    <3> QED BY <1>0, <1>1, <1>5, <2>1, <2>2, <3>1 DEF WindowFollows
  <2> QED BY <2>2, <2>3, <2>4
<1> QED BY <1>1, <1>7, <1>9, <1>10 DEF AppIInv, GoneIsDown

\* A start returns; one the window called draws the network the relay is on.
LEMMA ReturnKeeps == ASSUME AppIInv, NEW c \in Desktop!Starts, Desktop!Returns(c) PROVE AppIInv'
<1>0. AppTypeOK /\ OneTeardown /\ WindowFollows /\ GoneIsDown
  BY DEF AppIInv
<1>1. /\ starting[c].at \in {"connect", "cut"} /\ shell # "gone" /\ starting' = [starting EXCEPT ![c].at = "back"]
      /\ drawn' = IF starting[c].by = "window" THEN net ELSE drawn
      /\ UNCHANGED <<shell, saved, net, relayUp, menu, stale>>
  BY DEF Desktop!Returns
<1>2. /\ starting'[c].at = "back" /\ starting'[c].net = starting[c].net /\ starting'[c].by = starting[c].by
      /\ \A d \in Desktop!Starts : d # c => starting'[d] = starting[d]
  BY <1>0, <1>1 DEF AppTypeOK, StartRecord
<1>3. starting' \in [Desktop!Starts -> StartRecord]
  <2>1. [starting[c] EXCEPT !.at = "back"] \in StartRecord
    BY <1>0 DEF AppTypeOK, StartRecord
  <2> QED BY <1>0, <1>1, <2>1 DEF AppTypeOK
<1>4. AppTypeOK'
  BY <1>0, <1>1, <1>3 DEF AppTypeOK
<1>5. OneTeardown'
  BY <1>0, <1>1, <1>2 DEF OneTeardown
<1>6. WindowFollows'
  <2> SUFFICES ASSUME shell = "ready", stale = {} PROVE WindowFollows'
    BY <1>1 DEF WindowFollows
  <2>1. drawn' \in {saved, "none"} \/ WillBeDrawn'
    <3>1. CASE starting[c].by = "window"
      <4>1. CASE \A d \in Desktop!Starts : starting[d].at # "stop"
        BY <1>0, <1>1, <3>1, <4>1 DEF OneTeardown
      <4>2. ASSUME NEW d \in Desktop!Starts, starting[d].at = "stop" PROVE WillBeDrawn'
        <5>1. d # c /\ starting[d].by = "window"
          BY <1>0, <1>1, <4>2 DEF WindowFollows, AppTypeOK, StartRecord
        <5> QED BY <1>2, <4>2, <5>1 DEF WillBeDrawn, Desktop!Pending
      <4> QED BY <4>1, <4>2
    <3>2. CASE starting[c].by # "window"
      BY <1>0, <1>1, <1>2, <3>2 DEF WindowFollows, WillBeDrawn, Desktop!Pending
    <3> QED BY <3>1, <3>2
  <2> QED BY <1>0, <1>1, <1>2, <2>1 DEF WindowFollows
<1> QED BY <1>1, <1>4, <1>5, <1>6 DEF AppIInv, GoneIsDown

\* The snapshot, the quit and the end of the app.
LEMMA QuitKeeps ==
  ASSUME AppIInv, Desktop!Snapshot \/ Desktop!Quit \/ Desktop!QuitEnds \/ Desktop!AppDies
  PROVE  AppIInv'
<1>0. AppTypeOK /\ OneTeardown /\ WindowFollows /\ GoneIsDown
  BY DEF AppIInv
<1>1. CASE Desktop!Snapshot
  <2>1. /\ shell \in {"ready", "quitting"} /\ drawn' = net /\ UNCHANGED <<shell, saved, net, relayUp, starting, menu>>
        /\ stale' = IF Desktop!Pending # {} THEN stale \cup {"early"} ELSE stale
    BY <1>1 DEF Desktop!Snapshot
  <2>2. "overlap" \in stale' <=> "overlap" \in stale
    BY <2>1
  <2>3. stale' = {} => stale = {} /\ Desktop!Pending = {}
    BY <2>1
  <2>4. stale' = {} /\ shell = "ready" => drawn' = saved
    BY <1>0, <2>1, <2>3 DEF OneTeardown, Desktop!Pending
  <2> QED BY <1>0, <2>1, <2>2, <2>3, <2>4 DEF AppIInv, AppTypeOK, OneTeardown, WindowFollows, GoneIsDown
<1>2. CASE Desktop!Quit
  <2>1. shell' = "quitting" /\ starting' = Desktop!Superseded(starting) /\ saved' = saved
    BY <1>2 DEF Desktop!Quit
  <2>2. starting' \in [Desktop!Starts -> StartRecord]
    BY <1>0, <2>1 DEF Desktop!Superseded, AppTypeOK, StartRecord
  <2> QED BY <1>0, <2>1, <2>2 DEF AppIInv, AppTypeOK, OneTeardown, WindowFollows, GoneIsDown
<1>3. CASE Desktop!QuitEnds \/ Desktop!AppDies
  <2>1. /\ shell' \in {"off", "gone"} /\ UNCHANGED <<saved, stale>>
        /\ (shell' = "gone" /\ "overlap" \notin stale) => ~relayUp'
        /\ starting' = [c \in Desktop!Starts |-> IF starting[c].at = "free" THEN Desktop!Free ELSE [starting[c] EXCEPT !.at = "back"]]
    BY <1>3 DEF Desktop!QuitEnds, Desktop!AppDies
  <2>2. Desktop!Free \in StartRecord /\ Desktop!Free.at = "free"
    BY DEF Desktop!Free, StartRecord
  <2>3. \A c \in Desktop!Starts : [starting[c] EXCEPT !.at = "back"] \in StartRecord /\ [starting[c] EXCEPT !.at = "back"].at = "back"
    BY <1>0 DEF AppTypeOK, StartRecord
  <2>4. AppTypeOK'
    BY <1>0, <2>1, <2>2, <2>3 DEF AppTypeOK
  <2> QED BY <2>1, <2>4 DEF AppIInv, OneTeardown, WindowFollows, GoneIsDown
<1> QED BY <1>1, <1>2, <1>3

\* Every step of the shell keeps it.
LEMMA AppKept == ASSUME AppIInv, [Desktop!AppStep]_(Desktop!appVars) PROVE AppIInv'
<1>1. CASE UNCHANGED Desktop!appVars \/ Desktop!SecondLaunch \/ Desktop!ToggleWindow
  <2>1. UNCHANGED <<shell, saved, net, relayUp, starting, drawn, menu, stale>>
    BY <1>1 DEF Desktop!appVars, Desktop!SecondLaunch, Desktop!ToggleWindow
  <2> QED BY <2>1 DEF AppIInv, AppTypeOK, OneTeardown, WindowFollows, GoneIsDown, WillBeDrawn, Desktop!Pending
<1> QED BY <1>1, LaunchKeeps, ChoiceKeeps, TakesKeeps, ReturnKeeps, QuitKeeps DEF Desktop!AppStep

\* The shell begins with nothing under way.
LEMMA AppBegins == Desktop!AppInit => AppIInv
<1> SUFFICES ASSUME Desktop!AppInit PROVE AppIInv
  OBVIOUS
<1>1. Desktop!Free \in StartRecord /\ Desktop!Free.at = "free"
  BY DEF Desktop!Free, StartRecord
<1> QED BY <1>1 DEF Desktop!AppInit, AppIInv, AppTypeOK, OneTeardown, WindowFollows, GoneIsDown

\* Once no start is under way, everybody shows what was saved.
LEMMA AllAgree == AppIInv => Desktop!EveryoneAgrees
<1> SUFFICES ASSUME AppIInv, "overlap" \notin stale
             PROVE  /\ (shell = "ready" /\ Desktop!Pending = {}) =>
                         net = saved /\ menu = saved /\ (stale = {} => drawn \in {saved, "none"})
                    /\ shell = "gone" => ~relayUp
  BY DEF Desktop!EveryoneAgrees
<1>1. Desktop!Pending = {} => (\A c \in Desktop!Starts : starting[c].at # "stop") /\ ~WillBeDrawn
  BY DEF Desktop!Pending, WillBeDrawn
<1> QED BY <1>1 DEF AppIInv, OneTeardown, WindowFollows, GoneIsDown
-----------------------------------------------------------------------------
(* The light and the tray.  The controller's status is the one its health   *)
(* deserves, or one of a start that has no health yet.                      *)

Before == {View!Orange("starting"), View!Red("reconnecting")}

ViewTypeOK ==
  /\ kernelHealth \in View!Healths /\ lastHealth \in View!Healths
  /\ stack \in {"down", "starting", "up"} /\ reply.health \in View!Healths

StatusDeserved ==
  /\ stack = "up" => \/ trayPeers = lastHealth.bound /\ lastStatus = View!Derive(lastHealth)
                     \/ lastHealth = View!NoHealth /\ lastStatus \in Before
  /\ stack = "starting" => lastHealth = View!NoHealth /\ lastStatus \in Before
  /\ stack = "down" => lastHealth = View!NoHealth /\ lastStatus = View!Red("stopped")

TrayFollows == trayShows = [status |-> lastStatus, peers |-> lastHealth.bound]

PageFollows ==
  ~crossed => /\ pageAsk = "taken" => reply.status = lastStatus
              /\ pageAsk = "drawn" => light = lastStatus

GraphEnds ==
  /\ graph \in Seq(Nat) /\ Len(graph) <= SparkCap
  /\ graph # <<>> => graph[Len(graph)] = panel.bound

ViewIInv == ViewTypeOK /\ StatusDeserved /\ TrayFollows /\ PageFollows /\ GraphEnds

\* A health has a number of peers, and one without a bridge is no health.
LEMMA HealthHas ==
  ASSUME NEW h \in View!Healths
  PROVE  h.bound \in Nat /\ (h.bridge = "null" => h = View!NoHealth)
         /\ h.bridge \in {"null", "connecting", "open", "closed"} /\ h.degraded \in BOOLEAN
<1>1. CASE h = View!NoHealth
  BY <1>1 DEF View!NoHealth
<1>2. CASE h \in [bridge : {"connecting", "open", "closed"}, bound : 0 .. PeerBound, degraded : BOOLEAN]
  <2>1. h.bridge \in {"connecting", "open", "closed"} /\ h.bound \in 0 .. PeerBound /\ h.degraded \in BOOLEAN
    BY <1>2
  <2>2. h.bridge # "null"
    BY <2>1
  <2>3. \A n \in 0 .. PeerBound : n \in Nat
    OBVIOUS
  <2>4. h.bound \in Nat
    BY <2>1, <2>3
  <2>5. h.bridge \in {"null", "connecting", "open", "closed"}
    BY <2>1
  <2> QED BY <2>1, <2>2, <2>4, <2>5, Zenon
<1> QED BY <1>1, <1>2 DEF View!Healths

\* Colours and states of a status.
LEMMA StatusHas ==
  \A s, t : /\ View!Red(s).color = "red" /\ View!Red(s).state = s
            /\ View!Orange(s).color = "orange" /\ View!Orange(s).state = s
            /\ [color |-> s, state |-> t].color = s /\ [color |-> s, state |-> t].state = t
  BY DEF View!Red, View!Orange

\* What a health deserves.
LEMMA Deserved ==
  ASSUME NEW h \in View!Healths
  PROVE  /\ View!Derive(h) \in Before => h = View!NoHealth
         /\ View!Derive(h).color = "green" => h.bridge = "open" /\ h.bound > 0 /\ ~h.degraded
<1> DEFINE s == View!Derive(h)
<1>0. h.bound \in Nat /\ (h.bridge = "null" => h = View!NoHealth)
      /\ h.bridge \in {"null", "connecting", "open", "closed"} /\ h.degraded \in BOOLEAN
  BY HealthHas
<1>1. \/ h.bridge = "null" /\ s = View!Orange("starting")
      \/ s = View!Red("closed")
      \/ h.bridge = "connecting" /\ s = View!Orange("connecting")
      \/ s = View!Orange("degraded")
      \/ s = View!Orange("meshing")
      \/ h.bridge = "open" /\ ~h.degraded /\ ~(h.bound < 1) /\ s = [color |-> "green", state |-> "connected"]
  BY <1>0 DEF View!Derive
<1> HIDE DEF s
<1>2. s \in Before => s.state \in {"starting", "reconnecting"}
  BY StatusHas DEF Before
<1>3. s \in Before => h = View!NoHealth
  BY <1>0, <1>1, <1>2, StatusHas
<1>4. s.color = "green" => h.bridge = "open" /\ h.bound > 0 /\ ~h.degraded
  BY <1>0, <1>1, StatusHas
<1> QED BY <1>3, <1>4 DEF s

\* The graph takes one more number.
LEMMA GraphTakes ==
  ASSUME GraphEnds, NEW v \in Nat
  PROVE  /\ View!Push(v) \in Seq(Nat) /\ Len(View!Push(v)) <= SparkCap
         /\ View!Push(v) # <<>> /\ View!Push(v)[Len(View!Push(v))] = v
<1>0. graph \in Seq(Nat) /\ Len(graph) <= SparkCap /\ SparkCap \in Nat \ {0} /\ Len(graph) \in Nat
  BY ToolsAssumption DEF GraphEnds
<1>1. CASE Len(graph) = SparkCap
  <2> DEFINE t == Tail(graph)
  <2>1. t \in Seq(Nat) /\ Len(t) = SparkCap - 1 /\ View!Push(v) = Append(t, v)
    BY <1>0, <1>1 DEF View!Push
  <2> HIDE DEF t
  <2> QED BY <1>0, <2>1
<1>2. CASE Len(graph) # SparkCap
  <2>1. View!Push(v) = Append(graph, v)
    BY <1>2 DEF View!Push
  <2> QED BY <1>0, <1>2, <2>1
<1> QED BY <1>1, <1>2

\* A status that is sent reaches the light and the tray.
LEMMA StatusSent ==
  ASSUME ViewIInv, NEW s, NEW h, View!EmitStatus(s, h), pageAsk' = pageAsk, reply' = reply
  PROVE  /\ lastStatus' = s /\ PageFollows'
         /\ lastStatus # s => trayShows' = [status |-> s, peers |-> h.bound]
         /\ lastStatus = s => trayShows' = IF h.bound # trayPeers /\ stack = "up"
                                           THEN [status |-> s, peers |-> h.bound] ELSE trayShows
<1>0. PageFollows
  BY DEF ViewIInv
<1>1. CASE lastStatus = s
  <2>1. lastStatus' = s /\ UNCHANGED <<light, crossed>>
        /\ trayShows' = IF h.bound # trayPeers /\ stack = "up" THEN [status |-> s, peers |-> h.bound] ELSE trayShows
    BY <1>1 DEF View!EmitStatus, View!Unchanged
  <2> QED BY <1>0, <1>1, <2>1 DEF PageFollows
<1>2. CASE lastStatus # s
  <2>1. lastStatus' = s /\ light' = s /\ crossed' = (crossed \/ pageAsk = "taken")
        /\ trayShows' = [status |-> s, peers |-> h.bound]
    BY <1>2 DEF View!EmitStatus, View!Unchanged
  <2> QED BY <1>0, <1>2, <2>1 DEF PageFollows
<1> QED BY <1>1, <1>2

\* A health tick.
LEMMA TickKeeps == ASSUME ViewIInv, View!HealthTick PROVE ViewIInv'
<1>0. ViewTypeOK /\ StatusDeserved /\ TrayFollows /\ PageFollows /\ GraphEnds
  BY DEF ViewIInv
<1> DEFINE k == kernelHealth
           s == View!Derive(kernelHealth)
<1>1. /\ stack = "up" /\ lastHealth' = k /\ trayPeers' = k.bound /\ panel' = k /\ graph' = View!Push(k.bound)
      /\ View!EmitStatus(s, k) /\ UNCHANGED <<kernelHealth, stack, pageAsk, reply>>
  BY DEF View!HealthTick
<1>2. k \in View!Healths /\ k.bound \in Nat
  BY <1>0, HealthHas DEF ViewTypeOK
<1>3. ViewTypeOK'
  BY <1>0, <1>1 DEF ViewTypeOK
<1>4. /\ lastStatus' = s /\ PageFollows'
      /\ lastStatus # s => trayShows' = [status |-> s, peers |-> k.bound]
      /\ lastStatus = s => trayShows' = IF k.bound # trayPeers /\ stack = "up"
                                        THEN [status |-> s, peers |-> k.bound] ELSE trayShows
  BY <1>1, StatusSent
<1>5. StatusDeserved'
  BY <1>1, <1>4 DEF StatusDeserved
<1>6. TrayFollows'
  <2> SUFFICES ASSUME lastStatus = s, k.bound = trayPeers PROVE k.bound = lastHealth.bound
    BY <1>0, <1>1, <1>4 DEF TrayFollows
  <2>1. CASE trayPeers = lastHealth.bound
    BY <2>1
  <2>2. CASE lastHealth = View!NoHealth /\ lastStatus \in Before
    BY <1>2, <2>2, Deserved
  <2> QED BY <1>0, <1>1, <2>1, <2>2 DEF StatusDeserved
<1>7. GraphEnds'
  BY <1>0, <1>1, <1>2, GraphTakes DEF GraphEnds
<1> QED BY <1>3, <1>4, <1>5, <1>6, <1>7 DEF ViewIInv

\* The relay starts, fails to connect, connects and stops.
LEMMA StackKeeps ==
  ASSUME ViewIInv, View!Starts \/ View!ConnectFails \/ View!Connected \/ View!Stops
  PROVE  ViewIInv'
<1>0. ViewTypeOK /\ StatusDeserved /\ TrayFollows /\ PageFollows /\ GraphEnds
  BY DEF ViewIInv
<1>1. View!NoHealth \in View!Healths
  BY DEF View!Healths
<1>2. GraphEnds'
  BY <1>0 DEF View!Starts, View!ConnectFails, View!Connected, View!Stops, GraphEnds
<1>3. CASE View!Starts
  <2>1. /\ stack = "down" /\ stack' = "starting" /\ kernelHealth' = View!NoHealth
        /\ View!EmitStatus(View!Orange("starting"), lastHealth)
        /\ UNCHANGED <<lastHealth, trayPeers, pageAsk, reply, panel, graph>>
    BY <1>3 DEF View!Starts
  <2>2. /\ lastStatus' = View!Orange("starting") /\ PageFollows'
        /\ lastStatus # View!Orange("starting")
             => trayShows' = [status |-> View!Orange("starting"), peers |-> lastHealth.bound]
    BY <2>1, StatusSent
  <2>3. lastStatus # View!Orange("starting")
    BY <1>0, <2>1, StatusHas DEF StatusDeserved
  <2>4. ViewTypeOK' /\ StatusDeserved' /\ TrayFollows'
    BY <1>0, <1>1, <2>1, <2>2, <2>3 DEF ViewTypeOK, StatusDeserved, TrayFollows, Before
  <2> QED BY <1>2, <2>2, <2>4 DEF ViewIInv
<1>4. CASE View!ConnectFails
  <2> DEFINE s == View!Red("reconnecting")
  <2>1. /\ stack = "starting" /\ View!EmitStatus(s, lastHealth)
        /\ UNCHANGED <<kernelHealth, stack, lastHealth, trayPeers, pageAsk, reply, panel, graph>>
    BY <1>4 DEF View!ConnectFails
  <2>2. /\ lastStatus' = s /\ PageFollows'
        /\ lastStatus # s => trayShows' = [status |-> s, peers |-> lastHealth.bound]
        /\ lastStatus = s => trayShows' = IF lastHealth.bound # trayPeers /\ stack = "up"
                                          THEN [status |-> s, peers |-> lastHealth.bound] ELSE trayShows
    BY <2>1, StatusSent
  <2>3. ViewTypeOK' /\ StatusDeserved' /\ TrayFollows'
    BY <1>0, <2>1, <2>2 DEF ViewTypeOK, StatusDeserved, TrayFollows, Before
  <2> QED BY <1>2, <2>2, <2>3 DEF ViewIInv
<1>5. CASE View!Connected
  <2>1. /\ stack = "starting" /\ stack' = "up"
        /\ UNCHANGED <<kernelHealth, lastHealth, lastStatus, trayShows, trayPeers, pageAsk, reply, light, crossed>>
    BY <1>5 DEF View!Connected
  <2> QED BY <1>0, <1>2, <2>1 DEF ViewIInv, ViewTypeOK, StatusDeserved, TrayFollows, PageFollows
<1>6. CASE View!Stops
  <2> DEFINE s == View!Red("stopped")
  <2>1. /\ stack # "down" /\ stack' = "down" /\ lastHealth' = View!NoHealth
        /\ View!EmitStatus(s, View!NoHealth)
        /\ UNCHANGED <<kernelHealth, trayPeers, pageAsk, reply, panel, graph>>
    BY <1>6 DEF View!Stops
  <2>2. /\ lastStatus' = s /\ PageFollows'
        /\ lastStatus # s => trayShows' = [status |-> s, peers |-> View!NoHealth.bound]
    BY <2>1, StatusSent
  <2>3. lastStatus # s
    <3>1. stack \in {"starting", "up"}
      BY <1>0, <2>1 DEF ViewTypeOK
    <3>2. ASSUME lastStatus \in Before PROVE lastStatus # s
      BY <3>2, StatusHas DEF Before
    <3>3. ASSUME lastStatus = View!Derive(lastHealth) PROVE lastStatus # s
      <4>1. lastHealth.bridge \in {"null", "connecting", "open", "closed"}
        BY <1>0, HealthHas DEF ViewTypeOK
      <4>2. View!Derive(lastHealth).state \in {"starting", "closed", "connecting", "degraded", "meshing", "connected"}
        BY <4>1, StatusHas DEF View!Derive
      <4>3. s.state = "stopped"
        BY StatusHas
      <4> QED BY <3>3, <4>2, <4>3
    <3> QED BY <1>0, <3>1, <3>2, <3>3 DEF StatusDeserved
  <2>4. ViewTypeOK' /\ StatusDeserved' /\ TrayFollows'
    BY <1>0, <1>1, <2>1, <2>2, <2>3 DEF ViewTypeOK, StatusDeserved, TrayFollows
  <2> QED BY <1>2, <2>2, <2>4 DEF ViewIInv
<1> QED BY <1>3, <1>4, <1>5, <1>6

\* The kernel's health moves; the page asks and draws.
LEMMA PageKeeps ==
  ASSUME ViewIInv, View!KernelMoves \/ View!Asks \/ View!Draws
  PROVE  ViewIInv'
<1>0. ViewTypeOK /\ StatusDeserved /\ TrayFollows /\ PageFollows /\ GraphEnds
  BY DEF ViewIInv
<1>1. UNCHANGED <<stack, lastHealth, lastStatus, trayShows, trayPeers, crossed>>
  BY DEF View!KernelMoves, View!Asks, View!Draws
<1>2. StatusDeserved' /\ TrayFollows'
  BY <1>0, <1>1 DEF StatusDeserved, TrayFollows
<1>3. CASE View!KernelMoves
  BY <1>0, <1>1, <1>2, <1>3 DEF View!KernelMoves, ViewIInv, ViewTypeOK, PageFollows, GraphEnds
<1>4. CASE View!Asks
  <2>1. /\ pageAsk' = "taken" /\ UNCHANGED <<kernelHealth, light, panel, graph>>
        /\ reply' = [status |-> lastStatus, health |-> lastHealth]
    BY <1>4 DEF View!Asks
  <2>2. reply'.status = lastStatus /\ reply'.health = lastHealth
    BY <2>1
  <2> QED BY <1>0, <1>1, <1>2, <2>1, <2>2 DEF ViewIInv, ViewTypeOK, PageFollows, GraphEnds
<1>5. CASE View!Draws
  <2>1. pageAsk = "taken" /\ pageAsk' = "drawn" /\ light' = reply.status /\ UNCHANGED <<kernelHealth, reply>>
    BY <1>5 DEF View!Draws
  <2>2. ViewTypeOK' /\ PageFollows'
    BY <1>0, <1>1, <2>1 DEF ViewTypeOK, PageFollows
  <2>3. GraphEnds'
    <3>1. CASE reply.health = View!NoHealth
      BY <1>0, <1>5, <3>1 DEF View!Draws, GraphEnds
    <3>2. CASE reply.health # View!NoHealth
      <4>1. panel' = reply.health /\ graph' = View!Push(reply.health.bound)
        BY <1>5, <3>2 DEF View!Draws
      <4>2. reply.health.bound \in Nat
        BY <1>0, HealthHas DEF ViewTypeOK
      <4> QED BY <1>0, <4>1, <4>2, GraphTakes DEF GraphEnds
    <3> QED BY <3>1, <3>2
  <2> QED BY <1>2, <2>2, <2>3 DEF ViewIInv
<1> QED BY <1>3, <1>4, <1>5

\* Every step of the views keeps it.
LEMMA ViewKept == ASSUME ViewIInv, [View!ViewStep]_(View!viewVars) PROVE ViewIInv'
<1>1. CASE UNCHANGED View!viewVars
  BY <1>1 DEF View!viewVars, ViewIInv, ViewTypeOK, StatusDeserved, TrayFollows, PageFollows, GraphEnds
<1> QED BY <1>1, TickKeeps, StackKeeps, PageKeeps DEF View!ViewStep

\* The views begin with a relay that is stopped.
LEMMA ViewBegins == View!ViewInit => ViewIInv
<1> SUFFICES ASSUME View!ViewInit PROVE ViewIInv
  OBVIOUS
<1>1. View!NoHealth \in View!Healths /\ View!NoHealth.bound = 0
  BY DEF View!Healths, View!NoHealth
<1>2. reply.health = View!NoHealth
  BY DEF View!ViewInit
<1>3. ViewTypeOK
  BY <1>1, <1>2 DEF View!ViewInit, ViewTypeOK
<1>4. GraphEnds
  BY ToolsAssumption DEF View!ViewInit, GraphEnds
<1> QED BY <1>1, <1>3, <1>4 DEF View!ViewInit, ViewIInv, StatusDeserved, TrayFollows, PageFollows

\* The views tell what the controller knows.
LEMMA ViewsTellOneStory == ViewIInv => View!OneStory
<1> SUFFICES ASSUME ViewIInv PROVE View!OneStory
  OBVIOUS
<1>0. ViewTypeOK /\ StatusDeserved /\ TrayFollows /\ PageFollows /\ GraphEnds
  BY DEF ViewIInv
<1>1. lastHealth \in View!Healths /\ View!Derive(View!NoHealth) = View!Orange("starting")
  BY <1>0 DEF ViewTypeOK, View!Derive, View!NoHealth
<1>2. lastStatus.color = "green" => lastHealth.bridge = "open" /\ lastHealth.bound > 0 /\ ~lastHealth.degraded
  <2>1. lastStatus.color = "green" => lastStatus = View!Derive(lastHealth)
    BY <1>0, StatusHas DEF ViewTypeOK, StatusDeserved, Before
  <2> QED BY <1>1, <2>1, Deserved
<1>3. (stack = "up" /\ lastHealth # View!NoHealth) => lastStatus = View!Derive(lastHealth)
  BY <1>0 DEF StatusDeserved
<1>4. ASSUME NEW s \in View!Shapes, s.listed, View!Dump(s).complete = "yes"
      PROVE  s.complete = "yes" /\ View!Dump(s).roles = s.roles
  <2>1. /\ View!Dump(s).roles = IF s.listed THEN s.roles ELSE 0
        /\ View!Dump(s).complete = IF s.complete \in {"yes", "no"} THEN s.complete ELSE "null"
    BY DEF View!Dump
  <2> QED BY <1>4, <2>1
<1> QED BY <1>0, <1>2, <1>3, <1>4 DEF View!OneStory, TrayFollows, PageFollows, GraphEnds
-----------------------------------------------------------------------------
(* The dashboard.  A row remembers, for every trouble line that came whole  *)
(* and is not old, a trouble at least as severe and as recent; and while no *)
(* two sources met, what waits for the end of its line is at most one piece *)
(* of the slot's own relay.                                                 *)

DashLine ==
  {Dashboard!Health(0), Dashboard!Health(1)} \cup {Dashboard!Boot(n) : n \in 1 .. RelayCount}
    \cup {Dashboard!Trouble(k) : k \in Dashboard!Kind}
EventRecord == [count : Nat, ago : Nat]
RowRecord ==
  [state : DashLine \cup {Dashboard!NoLine}, last : Nat, node : Nat, events : [Dashboard!Kind -> EventRecord],
   op : {"", "draining", "re-meshing"}, exited : BOOLEAN]
PieceRecord == [src : Dashboard!Source, line : DashLine, says : BOOLEAN]

DashTypeOK ==
  /\ serving \in Nat /\ carry \in Seq(PieceRecord)
  /\ row \in RowRecord /\ told \in RowRecord /\ (row.op = "draining" => serving < RelayCount) /\ owed \in [1 .. 3 -> Nat] /\ met \in BOOLEAN
  /\ halves \in [Dashboard!Source -> [line : DashLine \cup {Dashboard!NoLine}, says : BOOLEAN]]
  /\ \A src \in Dashboard!Source :
       /\ halves[src].line = Dashboard!NoLine \/ halves[src].line \in Dashboard!LinesOf(src)
       /\ src[1] > serving => halves[src].line = Dashboard!NoLine

Recalls(events, s, age) ==
  \E k \in Dashboard!Kind : events[k].count > 0 /\ Severities[k] >= s /\ events[k].ago <= age
Remembers == \A s \in 1 .. 3 : owed[s] < Dashboard!Old => Recalls(row.events, s, owed[s])

AllWhole == \A src \in Dashboard!Source : src[1] = serving => halves[src].line = Dashboard!NoLine
OnePiece(src) ==
  /\ src[1] = serving /\ Len(carry) = 1 /\ carry[1].src = src
  /\ carry[1].line = halves[src].line /\ halves[src].line # Dashboard!NoLine
  /\ \A o \in Dashboard!Source : o[1] = serving /\ o # src => halves[o].line = Dashboard!NoLine
CarriesOne == ~met => (carry = <<>> /\ AllWhole) \/ \E src \in Dashboard!Source : OnePiece(src)

Alike(a, b) ==
  a.state = b.state /\ a.last = b.last /\ a.node = b.node /\ a.events = b.events /\ a.exited = b.exited
RowIsTold == ~met => Alike(row, told)

DashIInv == DashTypeOK /\ Remembers /\ CarriesOne /\ RowIsTold

\* A set of numbers has a least one.
LEMMA LeastOf ==
  ASSUME NEW S, S \subseteq Nat, S # {}
  PROVE  \E m \in S : \A n \in S : m <= n
<1>1. IsWellFoundedOn(OpToRel(<, Nat), Nat)
  BY NatLessThanWellFounded
<1>2. PICK m \in S : \A n \in S : ~(<<n, m>> \in OpToRel(<, Nat))
  BY <1>1, WFMin, Zenon
<1>3. \A n \in S : ~(n < m)
  <2> SUFFICES ASSUME NEW n \in S, n < m PROVE FALSE
    OBVIOUS
  <2>1. n \in Nat /\ m \in Nat
    OBVIOUS
  <2>2. <<n, m>> \in OpToRel(<, Nat)
    BY <2>1 DEF OpToRel
  <2> QED BY <1>2, <2>2
<1> QED BY <1>3

\* What the lines are, and of which kinds.
LEMMA LinesAre ==
  /\ \A n : Dashboard!Health(n).is = "health" /\ Dashboard!Boot(n).is = "node" /\ Dashboard!Trouble(n).is = "trouble"
            /\ Dashboard!Boot(n).of = n /\ Dashboard!Trouble(n).of = n
  /\ Dashboard!NoLine.is = "none"
  /\ \A l \in DashLine : /\ l.is \in {"health", "node", "trouble"} /\ l # Dashboard!NoLine
                         /\ l.is = "node" => l.of \in Nat
                         /\ l.is = "trouble" => l.of \in Dashboard!Kind
  /\ \A src \in Dashboard!Source : Dashboard!LinesOf(src) \subseteq DashLine
<1>1. \A n : Dashboard!Health(n).is = "health" /\ Dashboard!Boot(n).is = "node" /\ Dashboard!Trouble(n).is = "trouble"
            /\ Dashboard!Boot(n).of = n /\ Dashboard!Trouble(n).of = n
  BY DEF Dashboard!Health, Dashboard!Boot, Dashboard!Trouble
<1>2. Dashboard!NoLine.is = "none"
  BY DEF Dashboard!NoLine
<1>3. ASSUME NEW l \in DashLine
      PROVE  /\ l.is \in {"health", "node", "trouble"} /\ l # Dashboard!NoLine
             /\ l.is = "node" => l.of \in Nat
             /\ l.is = "trouble" => l.of \in Dashboard!Kind
  <2>1. CASE l \in {Dashboard!Health(0), Dashboard!Health(1)}
    BY <1>1, <1>2, <2>1
  <2>2. ASSUME NEW n \in 1 .. RelayCount, l = Dashboard!Boot(n)
        PROVE  l.is = "node" /\ l.of \in Nat /\ l # Dashboard!NoLine
    BY <1>1, <1>2, <2>2
  <2>3. ASSUME NEW k \in Dashboard!Kind, l = Dashboard!Trouble(k)
        PROVE  l.is = "trouble" /\ l.of \in Dashboard!Kind /\ l # Dashboard!NoLine
    BY <1>1, <1>2, <2>3
  <2> QED BY <2>1, <2>2, <2>3 DEF DashLine
<1>4. ASSUME NEW src \in Dashboard!Source PROVE Dashboard!LinesOf(src) \subseteq DashLine
  <2>1. src[1] \in 1 .. RelayCount
    BY DEF Dashboard!Source
  <2> QED BY <2>1 DEF Dashboard!LinesOf, DashLine
<1> QED BY <1>1, <1>2, <1>3, <1>4

\* The first rule that matches is one that matches, and no later one.
LEMMA FirstOfKinds ==
  ASSUME NEW kinds, kinds \subseteq Dashboard!Kind, kinds # {}
  PROVE  Dashboard!FirstRule(kinds) \in kinds /\ \A j \in kinds : Dashboard!FirstRule(kinds) <= j
<1>1. kinds \subseteq Nat
  BY RulesAssumption DEF Dashboard!Kind
<1>2. \E k \in kinds : \A j \in kinds : k <= j
  BY <1>1, LeastOf
<1> QED BY <1>2 DEF Dashboard!FirstRule

\* The rules in front are at least as severe.
LEMMA SeverityOf ==
  /\ \A k \in Dashboard!Kind : Severities[k] \in 1 .. 3
  /\ \A j, k \in Dashboard!Kind : j <= k => Severities[k] <= Severities[j]
<1>1. Dashboard!Kind = DOMAIN Severities
  BY RulesAssumption DEF Dashboard!Kind
<1>2. Severities \in [1 .. Len(Severities) -> 1 .. 3] /\ Len(Severities) \in Nat
  <2>1. Severities \in Seq(1 .. 3)
    BY RulesAssumption, Zenon
  <2> QED BY <2>1
<1>3. \A k \in Dashboard!Kind : Severities[k] \in 1 .. 3
  BY <1>2 DEF Dashboard!Kind
<1>4. ASSUME NEW j \in Dashboard!Kind, NEW k \in Dashboard!Kind, j <= k PROVE Severities[k] <= Severities[j]
  <2>1. j \in DOMAIN Severities /\ k \in DOMAIN Severities
    BY <1>1
  <2>2. \A a, b \in DOMAIN Severities : a <= b => Severities[b] <= Severities[a]
    BY RulesAssumption
  <2> QED BY <1>4, <2>1, <2>2, Zenon
<1> QED BY <1>3, <1>4

\* The rows a text may make of a row.
LEMMA IngestedIs ==
  ASSUME NEW r \in RowRecord, NEW text \in Seq(PieceRecord), NEW x \in Dashboard!Ingested(r, text)
  PROVE  /\ x \in RowRecord /\ x.op = r.op
         /\ \A k \in Dashboard!Kind : x.events[k] = r.events[k] \/ (x.events[k].count > 0 /\ x.events[k].ago = 0)
         /\ \A l \in Dashboard!LinesIn(text) :
              (l.is = "trouble" /\ ~\E h \in Dashboard!LinesIn(text) : h.is = "health") =>
                \E k \in Dashboard!Kind : k <= l.of /\ x.events[k].count > 0 /\ x.events[k].ago = 0
<1> DEFINE lines == Dashboard!LinesIn(text)
           nodes == {l.of : l \in {y \in lines : y.is = "node"}}
           kinds == {l.of : l \in {y \in lines : y.is = "trouble"}}
           named == IF r.node = 0 /\ nodes # {} THEN {[r EXCEPT !.node = n] : n \in nodes} ELSE {r}
           h == Dashboard!FirstHealth(text)
           f == Dashboard!FirstRule(kinds)
<1>1. /\ (\E l \in lines : l.is = "health") => x = [r EXCEPT !.state = h, !.last = 0]
      /\ ~(\E l \in lines : l.is = "health") =>
           /\ kinds = {} => x \in named
           /\ kinds # {} => \E y \in named : x = [y EXCEPT !.events[f] = [count |-> @.count + 1, ago |-> 0]]
  BY DEF Dashboard!Ingested
<1>2. ASSUME NEW i \in DOMAIN text PROVE text[i] \in PieceRecord /\ text[i].line \in DashLine /\ i \in Nat
  <2>1. DOMAIN text = 1 .. Len(text) /\ Len(text) \in Nat
    OBVIOUS
  <2>2. i \in 1 .. Len(text)
    BY <2>1
  <2>3. text[i] \in PieceRecord
    BY <2>2
  <2> QED BY <2>1, <2>2, <2>3 DEF PieceRecord
<1>3. lines \subseteq DashLine
  BY <1>2 DEF Dashboard!LinesIn
<1>4. (\E l \in lines : l.is = "health") => h \in DashLine
  <2> SUFFICES ASSUME NEW l \in lines, l.is = "health" PROVE h \in DashLine
    OBVIOUS
  <2> DEFINE at == {i \in DOMAIN text : Dashboard!Legible(text, i) /\ text[i].line.is = "health"}
  <2>1. at # {} /\ at \subseteq Nat
    BY <1>2 DEF Dashboard!LinesIn
  <2>2. \E i \in at : \A j \in at : i <= j
    BY <2>1, LeastOf
  <2>3. PICK i : i = (CHOOSE g \in at : \A j \in at : g <= j)
    OBVIOUS
  <2>4. i \in at
    BY <2>2, <2>3
  <2>5. h = text[i].line
    BY <2>3 DEF Dashboard!FirstHealth
  <2> QED BY <1>2, <2>4, <2>5
<1>5. kinds \subseteq Dashboard!Kind /\ nodes \subseteq Nat
  BY <1>3, LinesAre
<1>6. kinds # {} => f \in Dashboard!Kind /\ \A j \in kinds : f <= j
  BY <1>5, FirstOfKinds
<1>7. \A y \in named : y \in RowRecord /\ y.op = r.op /\ y.events = r.events
  <2>1. ASSUME NEW n \in Nat PROVE LET y == [r EXCEPT !.node = n] IN y \in RowRecord /\ y.op = r.op /\ y.events = r.events
    BY DEF RowRecord
  <2> QED BY <1>5, <2>1
<1>8. \A l \in lines : l.is = "trouble" => l.of \in kinds
  OBVIOUS
<1> HIDE DEF lines, nodes, kinds, named, h, f
<1>9. CASE \E l \in lines : l.is = "health"
  <2>1. x = [r EXCEPT !.state = h, !.last = 0] /\ h \in DashLine \cup {Dashboard!NoLine}
    BY <1>1, <1>4, <1>9
  <2>2. [r EXCEPT !.state = h] \in RowRecord
    BY <2>1 DEF RowRecord
  <2>3. x = [[r EXCEPT !.state = h] EXCEPT !.last = 0]
    BY <2>1 DEF RowRecord
  <2>4. x \in RowRecord
    BY <2>2, <2>3 DEF RowRecord
  <2>5. x.op = r.op /\ x.events = r.events
    BY <2>1 DEF RowRecord
  <2> QED BY <1>9, <2>4, <2>5 DEF lines
<1>10. CASE ~(\E l \in lines : l.is = "health") /\ kinds = {}
  <2>1. x \in RowRecord /\ x.op = r.op /\ x.events = r.events
    BY <1>1, <1>7, <1>10
  <2>2. \A l \in lines : l.is # "trouble"
    BY <1>8, <1>10
  <2> QED BY <2>1, <2>2 DEF lines
<1>11. CASE ~(\E l \in lines : l.is = "health") /\ kinds # {}
  <2>1. PICK y \in named : x = [y EXCEPT !.events[f] = [count |-> @.count + 1, ago |-> 0]]
    BY <1>1, <1>11
  <2>2. y \in RowRecord /\ y.op = r.op /\ y.events = r.events /\ f \in Dashboard!Kind
    BY <1>6, <1>7, <1>11
  <2>3. y.events[f] \in EventRecord /\ y.events[f].count \in Nat
    BY <2>2 DEF RowRecord, EventRecord
  <2>4. [count |-> y.events[f].count + 1, ago |-> 0] \in EventRecord
    BY <2>3 DEF EventRecord
  <2> DEFINE e == [count |-> y.events[f].count + 1, ago |-> 0]
  <2>5. x = [y EXCEPT !.events = [y.events EXCEPT ![f] = e]]
    BY <2>1
  <2>6. e \in EventRecord /\ e.count > 0 /\ e.ago = 0
    BY <2>3, <2>4
  <2> HIDE DEF e
  <2>7. x \in RowRecord /\ x.op = y.op /\ x.events = [y.events EXCEPT ![f] = e]
    BY <2>2, <2>5, <2>6 DEF RowRecord
  <2>8. x.events[f] = e /\ \A k \in Dashboard!Kind : k # f => x.events[k] = r.events[k]
    BY <2>2, <2>7 DEF RowRecord
  <2>9. \A l \in lines : l.is = "trouble" => f <= l.of
    BY <1>6, <1>8, <1>11
  <2> QED BY <1>11, <2>2, <2>6, <2>7, <2>8, <2>9 DEF lines
<1> QED BY <1>9, <1>10, <1>11

\* What one line makes of a row, and what it makes of rows that are alike.
One(r, ln) ==
  IF ln.is = "health" THEN [r EXCEPT !.state = ln, !.last = 0]
  ELSE IF ln.is = "trouble" THEN [r EXCEPT !.events[ln.of] = [count |-> @.count + 1, ago |-> 0]]
  ELSE IF r.node = 0 THEN [r EXCEPT !.node = ln.of] ELSE r

\* Two rows that differ only in what is not compared stay alike when both ingest one line.
LEMMA OneKeepsAlike ==
  ASSUME NEW r \in RowRecord, NEW q \in RowRecord, NEW ln \in DashLine, Alike(r, q)
  PROVE  Alike(One(r, ln), One(q, ln))
<1>1. ln.is = "trouble" => ln.of \in Dashboard!Kind
  BY LinesAre
<1>2. r.node = q.node /\ r.events = q.events /\ r.state = q.state /\ r.last = q.last /\ r.exited = q.exited
  BY DEF Alike
<1>3. CASE ln.is = "health"
  BY <1>2, <1>3 DEF Alike, One, RowRecord
<1>4. CASE ln.is = "trouble"
  <2> DEFINE e == [r.events EXCEPT ![ln.of] = [count |-> @.count + 1, ago |-> 0]]
  <2>1. One(r, ln) = [r EXCEPT !.events = e]
    BY <1>4 DEF One
  <2>2. One(q, ln) = [q EXCEPT !.events = e]
    BY <1>2, <1>4 DEF One
  <2> HIDE DEF e
  <2> QED BY <1>2, <2>1, <2>2 DEF Alike, RowRecord
<1>5. CASE ln.is # "health" /\ ln.is # "trouble"
  BY <1>2, <1>5 DEF Alike, One, RowRecord
<1> QED BY <1>3, <1>4, <1>5

\* A text that holds exactly one whole line leaves the row as that line says.
LEMMA OneLineIs ==
  ASSUME NEW r \in RowRecord, NEW text \in Seq(PieceRecord), NEW ln \in DashLine,
         Dashboard!LinesIn(text) = {ln}, NEW x \in Dashboard!Ingested(r, text)
  PROVE  x = One(r, ln)
<1> DEFINE lines == Dashboard!LinesIn(text)
           nodes == {l.of : l \in {y \in lines : y.is = "node"}}
           kinds == {l.of : l \in {y \in lines : y.is = "trouble"}}
           named == IF r.node = 0 /\ nodes # {} THEN {[r EXCEPT !.node = n] : n \in nodes} ELSE {r}
           h == Dashboard!FirstHealth(text)
           f == Dashboard!FirstRule(kinds)
<1>1. /\ (\E l \in lines : l.is = "health") => x = [r EXCEPT !.state = h, !.last = 0]
      /\ ~(\E l \in lines : l.is = "health") =>
           /\ kinds = {} => x \in named
           /\ kinds # {} => \E y \in named : x = [y EXCEPT !.events[f] = [count |-> @.count + 1, ago |-> 0]]
  BY DEF Dashboard!Ingested
<1>2. ln.is \in {"health", "node", "trouble"} /\ (ln.is = "trouble" => ln.of \in Dashboard!Kind)
  BY LinesAre
<1>3. ln.is = "health" => h = ln
  <2> SUFFICES ASSUME ln.is = "health" PROVE h = ln
    OBVIOUS
  <2> DEFINE at == {i \in DOMAIN text : Dashboard!Legible(text, i) /\ text[i].line.is = "health"}
  <2>1. at # {}
    BY DEF Dashboard!LinesIn
  <2>2. at \subseteq Nat
    <3>1. DOMAIN text = 1 .. Len(text) /\ Len(text) \in Nat
      OBVIOUS
    <3> QED BY <3>1
  <2>3. \E i \in at : \A j \in at : i <= j
    BY <2>1, <2>2, LeastOf
  <2>4. PICK i : i = (CHOOSE g \in at : \A j \in at : g <= j)
    OBVIOUS
  <2>5. i \in at
    BY <2>3, <2>4
  <2>6. h = text[i].line
    BY <2>4 DEF Dashboard!FirstHealth
  <2> QED BY <2>5, <2>6 DEF Dashboard!LinesIn
<1>4. /\ nodes = IF ln.is = "node" THEN {ln.of} ELSE {}
      /\ kinds = IF ln.is = "trouble" THEN {ln.of} ELSE {}
  OBVIOUS
<1>5. ln.is = "trouble" => f = ln.of
  <2> SUFFICES ASSUME ln.is = "trouble" PROVE f = ln.of
    OBVIOUS
  <2>1. kinds = {ln.of} /\ kinds \subseteq Dashboard!Kind
    BY <1>2, <1>4
  <2> QED BY <2>1, FirstOfKinds
<1> HIDE DEF lines, nodes, kinds, named, h, f
<1>6. named = IF r.node = 0 /\ nodes # {} THEN {[r EXCEPT !.node = n] : n \in nodes} ELSE {r}
  BY DEF named
<1>7. CASE ln.is = "health"
  BY <1>1, <1>3, <1>7 DEF One, lines
<1>8. CASE ln.is = "trouble"
  <2>1. kinds = {ln.of} /\ nodes = {} /\ named = {r} /\ ~(\E l \in lines : l.is = "health")
    BY <1>4, <1>6, <1>8 DEF lines
  <2>2. x = [r EXCEPT !.events[f] = [count |-> @.count + 1, ago |-> 0]]
    BY <1>1, <2>1
  <2> QED BY <1>5, <1>8, <2>2 DEF One
<1>9. CASE ln.is = "node"
  <2>1. kinds = {} /\ nodes = {ln.of} /\ ~(\E l \in lines : l.is = "health")
    BY <1>4, <1>9 DEF lines
  <2>2. x \in named
    BY <1>1, <2>1
  <2> QED BY <1>6, <1>9, <2>1, <2>2 DEF One
<1> QED BY <1>2, <1>7, <1>8, <1>9

\* The lines of a text of one whole line, and of two halves of one.
LEMMA OneWholeLine ==
  ASSUME NEW src \in Dashboard!Source, NEW ln \in DashLine
  PROVE  LET text == <<Dashboard!Piece(src, ln, TRUE)>> IN
           text \in Seq(PieceRecord) /\ Dashboard!LinesIn(text) = {ln}
<1> DEFINE piece == Dashboard!Piece(src, ln, TRUE)
           text == <<piece>>
<1>1. piece \in PieceRecord /\ piece.line = ln /\ piece.says
  BY DEF Dashboard!Piece, PieceRecord
<1> HIDE DEF piece
<1>2. text \in Seq(PieceRecord) /\ DOMAIN text = {1} /\ text[1] = piece
  BY <1>1
<1> HIDE DEF text
<1>3. \A i \in DOMAIN text : Dashboard!Legible(text, i)
  BY <1>1, <1>2 DEF Dashboard!Legible
<1>4. Dashboard!LinesIn(text) = {ln}
  BY <1>1, <1>2, <1>3 DEF Dashboard!LinesIn
<1> QED BY <1>2, <1>4 DEF text, piece

\* The two halves of one line, put together in the carry buffer, read as that line.
LEMMA TwoHalves ==
  ASSUME NEW p \in PieceRecord, NEW q \in PieceRecord, p.src = q.src, p.line = q.line,
         NEW text \in Seq(PieceRecord), Len(text) = 2, text[1] = p, text[2] = q
  PROVE  Dashboard!LinesIn(text) = {p.line}
<1>1. DOMAIN text = 1 .. 2
  OBVIOUS
<1>2. 1 \in DOMAIN text /\ \A i \in DOMAIN text : text[i].line = p.line
  BY <1>1
<1>3. Dashboard!Legible(text, 1)
  BY DEF Dashboard!Legible
<1> QED BY <1>2, <1>3 DEF Dashboard!LinesIn

\* A line that ends, whole or after its first half, keeps the invariant.
LEMMA EndsKeep ==
  ASSUME DashIInv, NEW src \in Dashboard!Source, NEW ln \in Dashboard!LinesOf(src), NEW says \in BOOLEAN,
         src[1] <= serving, Dashboard!LineEnds(src, ln, says),
         \/ halves' = halves /\ halves[src].line = Dashboard!NoLine /\ says = TRUE
         \/ /\ halves[src].line = ln
            /\ halves' = [halves EXCEPT ![src] = [line |-> Dashboard!NoLine, says |-> FALSE]]
  PROVE  DashIInv'
<1> DEFINE piece == Dashboard!Piece(src, ln, says)
           text == Append(carry, piece)
           whole == <<Dashboard!Piece(src, ln, TRUE)>>
<1>1. /\ serving \in Nat /\ carry \in Seq(PieceRecord) /\ row \in RowRecord /\ told \in RowRecord
      /\ owed \in [1 .. 3 -> Nat] /\ met \in BOOLEAN
  BY DEF DashIInv, DashTypeOK
<1>2. ln \in DashLine /\ ln # Dashboard!NoLine
  BY LinesAre
<1>3. piece \in PieceRecord /\ piece.src = src /\ piece.line = ln /\ piece.says = says
  BY <1>2 DEF Dashboard!Piece, PieceRecord
<1>4. /\ carry' = <<>> /\ row' \in Dashboard!Ingested(row, text)
      /\ told' \in (IF src[1] = serving THEN Dashboard!Ingested(told, whole) ELSE {told})
      /\ owed' = IF ln.is = "trouble" /\ says /\ ~\E l \in Dashboard!LinesIn(text) : l.is = "health"
                 THEN [owed EXCEPT ![Severities[ln.of]] = 0] ELSE owed
      /\ met' = (met \/ Dashboard!Meets(src)) /\ serving' = serving
  BY DEF Dashboard!LineEnds
<1> HIDE DEF piece
<1>5. text \in Seq(PieceRecord) /\ Len(text) = Len(carry) + 1 /\ text[Len(text)] = piece /\ Len(text) \in DOMAIN text
  <2>1. Len(carry) \in Nat
    BY <1>1
  <2> QED BY <1>1, <1>3, <2>1
<1> HIDE DEF text
<1>6. /\ row' \in RowRecord /\ row'.op = row.op
      /\ \A k \in Dashboard!Kind : row'.events[k] = row.events[k] \/ (row'.events[k].count > 0 /\ row'.events[k].ago = 0)
      /\ \A l \in Dashboard!LinesIn(text) :
           (l.is = "trouble" /\ ~\E h \in Dashboard!LinesIn(text) : h.is = "health") =>
             \E k \in Dashboard!Kind : k <= l.of /\ row'.events[k].count > 0 /\ row'.events[k].ago = 0
  BY <1>1, <1>4, <1>5, IngestedIs
<1>7. whole \in Seq(PieceRecord) /\ Dashboard!LinesIn(whole) = {ln}
  BY <1>2, OneWholeLine
<1> HIDE DEF whole
<1>8. told' \in RowRecord
  BY <1>1, <1>4, <1>7, IngestedIs
<1>9. \/ owed' = owed
      \/ ln.is = "trouble" /\ says /\ (~\E l \in Dashboard!LinesIn(text) : l.is = "health")
         /\ ln.of \in Dashboard!Kind /\ Severities[ln.of] \in 1 .. 3 /\ owed' = [owed EXCEPT ![Severities[ln.of]] = 0]
  BY <1>2, <1>4, LinesAre, SeverityOf
<1>10. owed' \in [1 .. 3 -> Nat] /\ met' \in BOOLEAN /\ serving' \in Nat /\ carry' \in Seq(PieceRecord)
  <2>1. owed' \in [1 .. 3 -> Nat]
    BY <1>1, <1>9
  <2> QED BY <1>1, <1>4, <2>1
<1>11. /\ halves' \in [Dashboard!Source -> [line : DashLine \cup {Dashboard!NoLine}, says : BOOLEAN]]
       /\ halves'[src].line = Dashboard!NoLine /\ \A o \in Dashboard!Source : o # src => halves'[o] = halves[o]
  <2>1. halves \in [Dashboard!Source -> [line : DashLine \cup {Dashboard!NoLine}, says : BOOLEAN]]
    BY DEF DashIInv, DashTypeOK
  <2>2. [line |-> Dashboard!NoLine, says |-> FALSE] \in [line : DashLine \cup {Dashboard!NoLine}, says : BOOLEAN]
    OBVIOUS
  <2>3. CASE halves' = halves /\ halves[src].line = Dashboard!NoLine
    BY <2>1, <2>3
  <2> DEFINE none == [line |-> Dashboard!NoLine, says |-> FALSE]
  <2>4. none.line = Dashboard!NoLine
    OBVIOUS
  <2>5. CASE halves' = [halves EXCEPT ![src] = none]
    <3> HIDE DEF none
    <3> QED BY <2>1, <2>2, <2>4, <2>5 DEF none
  <2> QED BY <2>3, <2>5
<1>12. /\ (row.op = "draining" => serving < RelayCount)
       /\ \A o \in Dashboard!Source : /\ halves[o].line = Dashboard!NoLine \/ halves[o].line \in Dashboard!LinesOf(o)
                                      /\ o[1] > serving => halves[o].line = Dashboard!NoLine
  BY DEF DashIInv, DashTypeOK
<1>13. \A o \in Dashboard!Source : /\ halves'[o].line = Dashboard!NoLine \/ halves'[o].line \in Dashboard!LinesOf(o)
                                   /\ o[1] > serving' => halves'[o].line = Dashboard!NoLine
  BY <1>4, <1>11, <1>12
<1>14. DashTypeOK'
  BY <1>4, <1>6, <1>8, <1>10, <1>11, <1>12, <1>13 DEF DashTypeOK
<1>15. Remembers'
  <2> SUFFICES ASSUME NEW s \in 1 .. 3, owed'[s] < Dashboard!Old
               PROVE  \E k \in Dashboard!Kind :
                        row'.events[k].count > 0 /\ Severities[k] >= s /\ row'.events[k].ago <= owed'[s]
    BY DEF Remembers, Recalls
  <2>1. CASE owed'[s] = owed[s]
    <3>1. PICK k \in Dashboard!Kind : row.events[k].count > 0 /\ Severities[k] >= s /\ row.events[k].ago <= owed[s]
      BY <2>1 DEF DashIInv, Remembers, Recalls
    <3>2. owed[s] \in Nat
      BY <1>1
    <3>3. CASE row'.events[k] = row.events[k]
      BY <2>1, <3>1, <3>3
    <3>4. CASE row'.events[k].count > 0 /\ row'.events[k].ago = 0
      BY <2>1, <3>1, <3>2, <3>4
    <3> QED BY <1>6, <3>3, <3>4
  <2>2. CASE owed'[s] # owed[s]
    <3>1. /\ ln.is = "trouble" /\ says /\ (~\E l \in Dashboard!LinesIn(text) : l.is = "health")
          /\ ln.of \in Dashboard!Kind /\ Severities[ln.of] = s /\ owed'[s] = 0
      BY <1>1, <1>9, <2>2
    <3>2. ln \in Dashboard!LinesIn(text)
      BY <1>3, <1>5, <3>1 DEF Dashboard!LinesIn, Dashboard!Legible
    <3>3. PICK k \in Dashboard!Kind : k <= ln.of /\ row'.events[k].count > 0 /\ row'.events[k].ago = 0
      BY <1>6, <3>1, <3>2
    <3>4. Severities[k] >= s /\ Severities[k] \in Nat
      BY <3>1, <3>3, SeverityOf
    <3> QED BY <3>1, <3>3, <3>4
  <2> QED BY <2>1, <2>2
<1>16. ASSUME ~met' PROVE carry' = <<>> /\ AllWhole' /\ Alike(row', told')
  <2>1. /\ ~met /\ src[1] = serving
        /\ ~\E i \in DOMAIN carry : carry[i].src[1] = serving /\ carry[i].src # src
    BY <1>1, <1>4, <1>16 DEF Dashboard!Meets
  <2>2. Alike(row, told) /\ ((carry = <<>> /\ AllWhole) \/ \E o \in Dashboard!Source : OnePiece(o))
    BY <2>1 DEF DashIInv, CarriesOne, RowIsTold
  <2>3. ASSUME NEW o \in Dashboard!Source, OnePiece(o) PROVE o = src
    <3>1. Len(carry) = 1 /\ carry[1].src = o /\ o[1] = serving
      BY <2>3 DEF OnePiece
    <3>2. 1 \in DOMAIN carry
      BY <1>1, <3>1
    <3> QED BY <2>1, <3>1, <3>2
  <2>4. Dashboard!LinesIn(text) = {ln} /\ \A o \in Dashboard!Source : o[1] = serving /\ o # src => halves[o].line = Dashboard!NoLine
    <3>1. CASE halves[src].line = Dashboard!NoLine
      <4>1. ~OnePiece(src)
        BY <3>1 DEF OnePiece
      <4>2. carry = <<>> /\ AllWhole
        BY <2>2, <2>3, <4>1
      <4>3. says = TRUE
        BY <1>2, <3>1
      <4>4. text = whole
        BY <4>2, <4>3 DEF text, piece, whole
      <4> QED BY <1>7, <4>2, <4>4 DEF AllWhole
    <3>2. CASE halves[src].line # Dashboard!NoLine
      <4>1. OnePiece(src)
        BY <2>1, <2>2, <2>3, <3>2 DEF AllWhole
      <4>2. /\ Len(carry) = 1 /\ carry[1].src = src /\ carry[1].line = ln
            /\ \A o \in Dashboard!Source : o[1] = serving /\ o # src => halves[o].line = Dashboard!NoLine
        BY <3>2, <4>1 DEF OnePiece
      <4>3. carry[1] \in PieceRecord /\ text[1] = carry[1] /\ Len(text) = 2 /\ text[2] = piece
        <5>1. 1 \in 1 .. Len(carry)
          BY <4>2
        <5>2. carry[1] \in PieceRecord
          BY <1>1, <5>1
        <5>3. text[1] = carry[1]
          BY <1>1, <1>3, <5>1 DEF text
        <5> QED BY <1>5, <4>2, <5>2, <5>3
      <4>4. Dashboard!LinesIn(text) = {ln}
        BY <1>3, <1>5, <4>2, <4>3, TwoHalves
      <4> QED BY <4>2, <4>4
    <3> QED BY <3>1, <3>2
  <2>5. row' = One(row, ln)
    BY <1>1, <1>2, <1>4, <1>5, <2>4, OneLineIs
  <2>6. told' = One(told, ln)
    BY <1>1, <1>2, <1>4, <1>7, <2>1, OneLineIs
  <2>7. Alike(row', told')
    BY <1>1, <1>2, <2>2, <2>5, <2>6, OneKeepsAlike
  <2>8. \A o \in Dashboard!Source : o[1] = serving' => halves'[o].line = Dashboard!NoLine
    BY <1>4, <1>11, <2>4
  <2> QED BY <1>4, <2>7, <2>8 DEF AllWhole
<1> QED BY <1>14, <1>15, <1>16 DEF DashIInv, CarriesOne, RowIsTold

\* What a half line leaves.
LEMMA HalfKeeps ==
  ASSUME DashIInv, NEW src \in Dashboard!Source, NEW ln \in Dashboard!LinesOf(src), NEW cut \in Dashboard!Cuts(ln),
         Dashboard!HalfArrives(src, ln, cut)
  PROVE  DashIInv'
<1> DEFINE piece == Dashboard!Piece(src, ln, cut[1])
           half == [line |-> ln, says |-> cut[2]]
<1>1. /\ serving \in Nat /\ carry \in Seq(PieceRecord) /\ row \in RowRecord /\ told \in RowRecord
      /\ owed \in [1 .. 3 -> Nat] /\ met \in BOOLEAN /\ (row.op = "draining" => serving < RelayCount)
  BY DEF DashIInv, DashTypeOK
<1>2. ln \in DashLine /\ ln # Dashboard!NoLine /\ cut[1] \in BOOLEAN /\ cut[2] \in BOOLEAN
  <2>1. cut = <<TRUE, FALSE>> \/ cut = <<FALSE, ln.is # "health">>
    BY DEF Dashboard!Cuts
  <2>2. CASE cut = <<TRUE, FALSE>>
    BY <2>2, LinesAre
  <2>3. ASSUME NEW b \in BOOLEAN, cut = <<FALSE, b>> PROVE cut[1] \in BOOLEAN /\ cut[2] \in BOOLEAN
    BY <2>3
  <2> QED BY <2>1, <2>2, <2>3, LinesAre
<1>3. piece \in PieceRecord /\ piece.src = src /\ piece.line = ln
  BY <1>2 DEF Dashboard!Piece, PieceRecord
<1>4. half \in [line : DashLine \cup {Dashboard!NoLine}, says : BOOLEAN] /\ half.line = ln
  BY <1>2
<1>5. /\ src[1] <= serving /\ halves[src].line = Dashboard!NoLine
      /\ carry' = Append(carry, piece) /\ halves' = [halves EXCEPT ![src] = half]
      /\ met' = (met \/ Dashboard!Meets(src))
      /\ serving' = serving /\ row' = row /\ told' = told /\ owed' = owed
  BY DEF Dashboard!HalfArrives
<1> HIDE DEF piece, half
<1>6. /\ halves' \in [Dashboard!Source -> [line : DashLine \cup {Dashboard!NoLine}, says : BOOLEAN]]
      /\ halves'[src] = half /\ \A o \in Dashboard!Source : o # src => halves'[o] = halves[o]
  <2>1. halves \in [Dashboard!Source -> [line : DashLine \cup {Dashboard!NoLine}, says : BOOLEAN]]
    BY DEF DashIInv, DashTypeOK
  <2> QED BY <1>4, <1>5, <2>1
<1>7. \A o \in Dashboard!Source : /\ halves[o].line = Dashboard!NoLine \/ halves[o].line \in Dashboard!LinesOf(o)
                                  /\ o[1] > serving => halves[o].line = Dashboard!NoLine
  BY DEF DashIInv, DashTypeOK
<1>8. src[1] \in Nat
  <2>1. src[1] \in 1 .. RelayCount
    BY DEF Dashboard!Source
  <2> QED BY <2>1
<1>9. \A o \in Dashboard!Source : /\ halves'[o].line = Dashboard!NoLine \/ halves'[o].line \in Dashboard!LinesOf(o)
                                  /\ o[1] > serving' => halves'[o].line = Dashboard!NoLine
  <2> SUFFICES ASSUME NEW o \in Dashboard!Source
               PROVE  /\ halves'[o].line = Dashboard!NoLine \/ halves'[o].line \in Dashboard!LinesOf(o)
                      /\ o[1] > serving => halves'[o].line = Dashboard!NoLine
    BY <1>5
  <2>1. CASE o = src
    BY <1>1, <1>4, <1>5, <1>6, <1>8, <2>1
  <2>2. CASE o # src
    BY <1>6, <1>7, <2>2
  <2> QED BY <2>1, <2>2
<1>10. carry' \in Seq(PieceRecord) /\ Len(carry') = Len(carry) + 1 /\ carry'[Len(carry) + 1] = piece
  BY <1>1, <1>3, <1>5
<1>11. met' \in BOOLEAN
  BY <1>5
<1>12. DashTypeOK'
  BY <1>1, <1>5, <1>6, <1>9, <1>10, <1>11 DEF DashTypeOK
<1>13. Remembers'
  <2>1. Remembers
    BY DEF DashIInv
  <2> QED BY <1>5, <2>1 DEF Remembers, Recalls
<1>14. ASSUME ~met' PROVE OnePiece(src)' /\ Alike(row', told')
  <2>1. /\ ~met /\ src[1] = serving
        /\ ~\E i \in DOMAIN carry : carry[i].src[1] = serving /\ carry[i].src # src
    BY <1>1, <1>5, <1>14 DEF Dashboard!Meets
  <2>2. Alike(row, told) /\ ((carry = <<>> /\ AllWhole) \/ \E o \in Dashboard!Source : OnePiece(o))
    BY <2>1 DEF DashIInv, CarriesOne, RowIsTold
  <2>3. ASSUME NEW o \in Dashboard!Source, OnePiece(o) PROVE FALSE
    <3>1. Len(carry) = 1 /\ carry[1].src = o /\ o[1] = serving /\ halves[o].line # Dashboard!NoLine
      BY <2>3 DEF OnePiece
    <3>2. 1 \in DOMAIN carry
      BY <1>1, <3>1
    <3> QED BY <1>5, <2>1, <3>1, <3>2
  <2>4. carry = <<>> /\ \A o \in Dashboard!Source : o[1] = serving => halves[o].line = Dashboard!NoLine
    BY <2>2, <2>3 DEF AllWhole
  <2>5. Len(carry') = 1 /\ carry'[1] = piece
    <3>1. Len(carry) = 0
      BY <2>4
    <3> QED BY <1>10, <3>1
  <2> QED BY <1>2, <1>3, <1>4, <1>5, <1>6, <2>1, <2>2, <2>4, <2>5 DEF OnePiece
<1> QED BY <1>12, <1>13, <1>14 DEF DashIInv, CarriesOne, RowIsTold

\* Time makes every age greater by one, up to the age past all limits.
LEMMA AgedIs ==
  ASSUME NEW r \in RowRecord
  PROVE  LET x == Dashboard!Aged(r) IN
           /\ x \in RowRecord /\ x.op = r.op /\ x.state = r.state /\ x.node = r.node /\ x.exited = r.exited
           /\ x.last = Dashboard!Older(r.last)
           /\ \A k \in Dashboard!Kind :
                /\ x.events[k].count = r.events[k].count
                /\ r.events[k].count > 0 => x.events[k].ago = Dashboard!Older(r.events[k].ago)
           /\ \A q \in RowRecord : Alike(r, q) => Alike(x, Dashboard!Aged(q))
<1> DEFINE ev == [k \in Dashboard!Kind |->
                    LET e == r.events[k]
                    IN  IF e.count = 0 THEN e ELSE [e EXCEPT !.ago = Dashboard!Older(e.ago)]]
           last == Dashboard!Older(r.last)
<1>1. Dashboard!Old \in Nat
  <2>1. TTL \in [1 .. 3 -> Nat]
    BY RulesAssumption
  <2> QED BY <2>1 DEF Dashboard!Old
<1>2. \A a \in Nat : Dashboard!Older(a) \in Nat
  BY <1>1 DEF Dashboard!Older
<1>3. ASSUME NEW k \in Dashboard!Kind
      PROVE  /\ ev[k] \in EventRecord /\ ev[k].count = r.events[k].count
             /\ r.events[k].count > 0 => ev[k].ago = Dashboard!Older(r.events[k].ago)
  <2>1. r.events[k] \in EventRecord
    BY DEF RowRecord
  <2>2. r.events[k].count \in Nat /\ r.events[k].ago \in Nat
    BY <2>1 DEF EventRecord
  <2> DEFINE a == Dashboard!Older(r.events[k].ago)
  <2>3. a \in Nat /\ ev[k] = IF r.events[k].count = 0 THEN r.events[k] ELSE [r.events[k] EXCEPT !.ago = a]
    BY <1>2, <2>2
  <2> HIDE DEF a, ev
  <2>4. CASE r.events[k].count = 0
    BY <2>1, <2>3, <2>4
  <2>5. CASE r.events[k].count # 0
    BY <2>1, <2>3, <2>5 DEF EventRecord, a
  <2> QED BY <2>4, <2>5
<1>4. ev \in [Dashboard!Kind -> EventRecord]
  BY <1>3
<1>5. last \in Nat
  BY <1>2 DEF RowRecord
<1>6. Dashboard!Aged(r) = [[r EXCEPT !.last = last] EXCEPT !.events = ev]
  <2>1. Dashboard!Aged(r) = [r EXCEPT !.last = last, !.events = ev]
    BY DEF Dashboard!Aged
  <2> HIDE DEF ev, last
  <2> QED BY <2>1 DEF RowRecord
<1> HIDE DEF ev, last
<1>7. Dashboard!Aged(r) \in RowRecord
  <2>1. [r EXCEPT !.last = last] \in RowRecord
    BY <1>5 DEF RowRecord
  <2> QED BY <1>4, <1>6, <2>1 DEF RowRecord
<1>8. Dashboard!Aged(r).events = ev /\ Dashboard!Aged(r).last = last
  BY <1>6 DEF RowRecord
<1>9. /\ Dashboard!Aged(r).op = r.op /\ Dashboard!Aged(r).state = r.state
      /\ Dashboard!Aged(r).node = r.node /\ Dashboard!Aged(r).exited = r.exited
  BY <1>6 DEF RowRecord
<1>10. ASSUME NEW q \in RowRecord, Alike(r, q) PROVE Alike(Dashboard!Aged(r), Dashboard!Aged(q))
  <2>1. q.events = r.events /\ q.last = r.last /\ q.state = r.state /\ q.node = r.node /\ q.exited = r.exited
    BY <1>10 DEF Alike
  <2>2. Dashboard!Aged(q) = [q EXCEPT !.last = last, !.events = ev]
    BY <2>1 DEF Dashboard!Aged, last, ev
  <2> HIDE DEF last, ev
  <2>3. /\ Dashboard!Aged(q).events = ev /\ Dashboard!Aged(q).last = last /\ Dashboard!Aged(q).state = q.state
        /\ Dashboard!Aged(q).node = q.node /\ Dashboard!Aged(q).exited = q.exited
    BY <2>2 DEF RowRecord
  <2> QED BY <1>8, <1>9, <2>1, <2>3 DEF Alike
<1> QED BY <1>3, <1>7, <1>8, <1>9, <1>10 DEF last

\* The clock ages the row and what the relay told alike.
LEMMA TimeKeeps == ASSUME DashIInv, Dashboard!TimePasses PROVE DashIInv'
<1>1. /\ serving \in Nat /\ carry \in Seq(PieceRecord) /\ row \in RowRecord /\ told \in RowRecord
      /\ owed \in [1 .. 3 -> Nat] /\ met \in BOOLEAN /\ (row.op = "draining" => serving < RelayCount)
  BY DEF DashIInv, DashTypeOK
<1>2. /\ row' = Dashboard!Aged(row) /\ told' = Dashboard!Aged(told) /\ owed' = [s \in 1 .. 3 |-> Dashboard!Older(owed[s])]
      /\ serving' = serving /\ halves' = halves /\ carry' = carry /\ met' = met
  BY DEF Dashboard!TimePasses
<1>3. Dashboard!Old \in Nat
  <2>1. TTL \in [1 .. 3 -> Nat]
    BY RulesAssumption
  <2> QED BY <2>1 DEF Dashboard!Old
<1>4. /\ row' \in RowRecord /\ told' \in RowRecord /\ row'.op = row.op
      /\ \A k \in Dashboard!Kind :
           /\ row'.events[k].count = row.events[k].count
           /\ row.events[k].count > 0 => row'.events[k].ago = Dashboard!Older(row.events[k].ago)
      /\ Alike(row, told) => Alike(row', told')
  BY <1>1, <1>2, AgedIs
<1>5. owed' \in [1 .. 3 -> Nat]
  <2>1. \A s \in 1 .. 3 : Dashboard!Older(owed[s]) \in Nat
    BY <1>1, <1>3 DEF Dashboard!Older
  <2> QED BY <1>2, <2>1
<1>6. DashTypeOK'
  BY <1>1, <1>2, <1>4, <1>5 DEF DashIInv, DashTypeOK
<1>7. Remembers'
  <2> SUFFICES ASSUME NEW s \in 1 .. 3, owed'[s] < Dashboard!Old
               PROVE  \E k \in Dashboard!Kind :
                        row'.events[k].count > 0 /\ Severities[k] >= s /\ row'.events[k].ago <= owed'[s]
    BY DEF Remembers, Recalls
  <2>1. owed[s] \in Nat /\ owed'[s] = owed[s] + 1 /\ owed[s] < Dashboard!Old
    BY <1>1, <1>2, <1>3 DEF Dashboard!Older
  <2>2. PICK k \in Dashboard!Kind : row.events[k].count > 0 /\ Severities[k] >= s /\ row.events[k].ago <= owed[s]
    BY <2>1 DEF DashIInv, Remembers, Recalls
  <2>3. row.events[k].ago \in Nat
    BY <1>1, <2>2 DEF RowRecord, EventRecord
  <2>4. row'.events[k].ago = row.events[k].ago + 1
    BY <1>3, <1>4, <2>1, <2>2, <2>3 DEF Dashboard!Older
  <2> QED BY <1>4, <2>1, <2>2, <2>3, <2>4
<1>8. CarriesOne'
  BY <1>2 DEF DashIInv, CarriesOne, AllWhole, OnePiece
<1>9. RowIsTold'
  BY <1>2, <1>4 DEF DashIInv, RowIsTold
<1> QED BY <1>6, <1>7, <1>8, <1>9 DEF DashIInv

\* An exit blanks the row of the relay that is serving; a late one mixes the row.
LEMMA ExitKeeps == ASSUME DashIInv, NEW relay \in 1 .. RelayCount, Dashboard!Exits(relay) PROVE DashIInv'
<1>1. /\ serving \in Nat /\ row \in RowRecord /\ told \in RowRecord /\ met \in BOOLEAN
  BY DEF DashIInv, DashTypeOK
<1>2. /\ row' = [row EXCEPT !.exited = TRUE] /\ told' = [told EXCEPT !.exited = (told.exited \/ relay = serving)]
      /\ met' = (met \/ relay # serving)
      /\ serving' = serving /\ halves' = halves /\ carry' = carry /\ owed' = owed
  BY DEF Dashboard!Exits
<1>3. row' \in RowRecord /\ row'.op = row.op /\ row'.events = row.events
  BY <1>1, <1>2 DEF RowRecord
<1>4. told' \in RowRecord
  <2> DEFINE gone == told.exited \/ relay = serving
  <2>1. gone \in BOOLEAN /\ told' = [told EXCEPT !.exited = gone]
    BY <1>2
  <2> HIDE DEF gone
  <2> QED BY <1>1, <2>1 DEF RowRecord
<1>5. met' \in BOOLEAN
  BY <1>2
<1>6. DashTypeOK'
  BY <1>2, <1>3, <1>4, <1>5 DEF DashIInv, DashTypeOK
<1>7. Remembers'
  BY <1>2, <1>3 DEF DashIInv, Remembers, Recalls
<1>8. CarriesOne'
  BY <1>2 DEF DashIInv, CarriesOne, AllWhole, OnePiece
<1>9. ASSUME ~met' PROVE Alike(row', told')
  <2>1. ~met /\ relay = serving
    BY <1>2, <1>9
  <2>2. Alike(row, told)
    BY <2>1 DEF DashIInv, RowIsTold
  <2>3. told' = [told EXCEPT !.exited = TRUE]
    BY <1>2, <2>1
  <2> QED BY <1>1, <1>2, <2>2, <2>3 DEF Alike, RowRecord
<1> QED BY <1>6, <1>7, <1>8, <1>9 DEF DashIInv, RowIsTold

\* A rolling restart: the row says so, and the new relay's row is blank.
LEMMA BlankIs ==
  /\ Dashboard!Old \in Nat /\ Dashboard!Blank \in RowRecord /\ Dashboard!Blank.op = ""
<1>1. Dashboard!Old \in Nat
  <2>1. TTL \in [1 .. 3 -> Nat]
    BY RulesAssumption
  <2> QED BY <2>1 DEF Dashboard!Old
<1>2. Dashboard!Clean \in [Dashboard!Kind -> EventRecord]
  BY DEF Dashboard!Clean, EventRecord
<1> QED BY <1>1, <1>2 DEF Dashboard!Blank, RowRecord

\* The steps of a rolling restart change only what the supervisor is doing with the slot.
LEMMA RollKeeps ==
  ASSUME DashIInv, Dashboard!Drains \/ Dashboard!Respawns \/ Dashboard!Remeshed
  PROVE  DashIInv'
<1>1. /\ serving \in Nat /\ row \in RowRecord /\ told \in RowRecord /\ met \in BOOLEAN
      /\ (row.op = "draining" => serving < RelayCount)
  BY DEF DashIInv, DashTypeOK
<1>2. ASSUME NEW o \in {"", "draining"}, row' = [row EXCEPT !.op = o], o = "draining" => serving < RelayCount,
             UNCHANGED <<serving, halves, carry, told, owed, met>>
      PROVE  DashIInv'
  <2>1. /\ row' \in RowRecord /\ row'.op = o /\ row'.events = row.events /\ row'.state = row.state
        /\ row'.last = row.last /\ row'.node = row.node /\ row'.exited = row.exited
    BY <1>1, <1>2 DEF RowRecord
  <2>2. DashTypeOK'
    BY <1>2, <2>1 DEF DashIInv, DashTypeOK
  <2>3. Remembers' /\ CarriesOne' /\ RowIsTold'
    BY <1>2, <2>1 DEF DashIInv, Remembers, Recalls, CarriesOne, AllWhole, OnePiece, RowIsTold, Alike
  <2> QED BY <2>2, <2>3 DEF DashIInv
<1>3. CASE Dashboard!Drains
  BY <1>2, <1>3 DEF Dashboard!Drains
<1>4. CASE Dashboard!Remeshed
  BY <1>2, <1>4 DEF Dashboard!Remeshed
<1>5. CASE Dashboard!Respawns
  <2>1. /\ serving' = serving + 1 /\ row' = [Dashboard!Blank EXCEPT !.op = "re-meshing"] /\ carry' = <<>>
        /\ told' = Dashboard!Blank /\ owed' = [s \in 1 .. 3 |-> Dashboard!Old] /\ met' = FALSE /\ halves' = halves
    BY <1>5 DEF Dashboard!Respawns
  <2>2. /\ row' \in RowRecord /\ row'.op = "re-meshing" /\ told' \in RowRecord /\ Alike(row', told')
    BY <2>1, BlankIs DEF RowRecord, Alike
  <2>3. owed' \in [1 .. 3 -> Nat] /\ \A s \in 1 .. 3 : ~(owed'[s] < Dashboard!Old)
    <3>1. Dashboard!Old \in Nat
      BY BlankIs
    <3>2. \A s \in 1 .. 3 : owed'[s] = Dashboard!Old
      BY <2>1
    <3>3. owed' \in [1 .. 3 -> Nat]
      BY <2>1, <3>1
    <3> QED BY <3>1, <3>2, <3>3
  <2>4. /\ halves \in [Dashboard!Source -> [line : DashLine \cup {Dashboard!NoLine}, says : BOOLEAN]]
        /\ \A o \in Dashboard!Source : /\ (halves[o].line = Dashboard!NoLine \/ halves[o].line \in Dashboard!LinesOf(o))
                                        /\ (o[1] > serving => halves[o].line = Dashboard!NoLine)
    BY DEF DashIInv, DashTypeOK
  <2>5. \A o \in Dashboard!Source : o[1] \in Nat
    BY DEF Dashboard!Source
  <2>6. \A o \in Dashboard!Source : o[1] > serving' \/ o[1] = serving' => halves'[o].line = Dashboard!NoLine
    BY <1>1, <2>1, <2>4, <2>5
  <2>7. carry' \in Seq(PieceRecord) /\ serving' \in Nat /\ met' \in BOOLEAN /\ (row'.op = "draining" => serving' < RelayCount)
    <3>1. carry' \in Seq(PieceRecord)
      <4>1. carry' = <<>>
        BY <2>1
      <4> QED BY <4>1
    <3>2. serving' \in Nat
      BY <1>1, <2>1
    <3>3. met' \in BOOLEAN
      BY <2>1
    <3> QED BY <2>2, <3>1, <3>2, <3>3
  <2>8. DashTypeOK'
    BY <2>1, <2>2, <2>3, <2>4, <2>6, <2>7 DEF DashTypeOK
  <2>9. Remembers'
    BY <2>3 DEF Remembers
  <2> QED BY <2>1, <2>2, <2>6, <2>8, <2>9 DEF DashIInv, CarriesOne, AllWhole, RowIsTold
<1> QED BY <1>3, <1>4, <1>5

\* Every step of the dashboard keeps its invariant.
LEMMA DashKept == ASSUME DashIInv, [Dashboard!DashStep]_(Dashboard!dashVars) PROVE DashIInv'
<1>1. CASE UNCHANGED Dashboard!dashVars
  BY <1>1 DEF Dashboard!dashVars, DashIInv, DashTypeOK, Remembers, Recalls, CarriesOne, AllWhole, OnePiece, RowIsTold, Alike
<1>2. ASSUME NEW src \in Dashboard!Source, Dashboard!WholeArrives(src) PROVE DashIInv'
  <2>1. PICK ln \in Dashboard!LinesOf(src) : Dashboard!LineEnds(src, ln, TRUE)
    BY <1>2 DEF Dashboard!WholeArrives
  <2> QED BY <1>2, <2>1, EndsKeep DEF Dashboard!WholeArrives
<1>3. ASSUME NEW src \in Dashboard!Source, Dashboard!RestArrives(src) PROVE DashIInv'
  <2>1. /\ halves[src].line # Dashboard!NoLine /\ Dashboard!LineEnds(src, halves[src].line, halves[src].says)
        /\ halves' = [halves EXCEPT ![src] = [line |-> Dashboard!NoLine, says |-> FALSE]]
    BY <1>3 DEF Dashboard!RestArrives
  <2>2. serving \in Nat /\ halves[src].says \in BOOLEAN
    BY DEF DashIInv, DashTypeOK
  <2>3. halves[src].line \in Dashboard!LinesOf(src) /\ ~(src[1] > serving)
    BY <2>1 DEF DashIInv, DashTypeOK
  <2>4. src[1] \in Nat
    BY DEF Dashboard!Source
  <2>5. src[1] <= serving
    BY <2>2, <2>3, <2>4
  <2> QED BY <2>1, <2>2, <2>3, <2>5, EndsKeep
<1> QED BY <1>1, <1>2, <1>3, HalfKeeps, TimeKeeps, ExitKeeps, RollKeeps DEF Dashboard!DashStep

\* A dashboard that has read nothing satisfies the invariant.
LEMMA DashBegins == Dashboard!DashInit => DashIInv
<1> SUFFICES ASSUME Dashboard!DashInit PROVE DashIInv
  OBVIOUS
<1>1. /\ serving = 1 /\ halves = [src \in Dashboard!Source |-> [line |-> Dashboard!NoLine, says |-> FALSE]]
      /\ carry = <<>> /\ row = Dashboard!Blank /\ told = Dashboard!Blank /\ owed = [s \in 1 .. 3 |-> Dashboard!Old]
      /\ met = FALSE
  BY DEF Dashboard!DashInit
<1>2. row \in RowRecord /\ told \in RowRecord /\ row.op = "" /\ Alike(row, told)
  BY <1>1, BlankIs DEF Alike
<1>3. owed \in [1 .. 3 -> Nat] /\ \A s \in 1 .. 3 : ~(owed[s] < Dashboard!Old)
  <2>1. Dashboard!Old \in Nat
    BY BlankIs
  <2>2. \A s \in 1 .. 3 : owed[s] = Dashboard!Old
    BY <1>1
  <2>3. owed \in [1 .. 3 -> Nat]
    BY <1>1, <2>1
  <2> QED BY <2>1, <2>2, <2>3
<1>4. /\ halves \in [Dashboard!Source -> [line : DashLine \cup {Dashboard!NoLine}, says : BOOLEAN]]
      /\ \A o \in Dashboard!Source : halves[o].line = Dashboard!NoLine
  BY <1>1
<1>5. carry \in Seq(PieceRecord) /\ serving \in Nat /\ met \in BOOLEAN
  <2>1. carry = <<>>
    BY <1>1
  <2>2. carry \in Seq(PieceRecord)
    BY <2>1
  <2>3. serving = 1 /\ met = FALSE
    BY <1>1
  <2> QED BY <2>2, <2>3
<1>6. DashTypeOK
  BY <1>2, <1>3, <1>4, <1>5 DEF DashTypeOK
<1> QED BY <1>1, <1>2, <1>3, <1>4, <1>6 DEF DashIInv, Remembers, CarriesOne, AllWhole, RowIsTold

\* What the row shows is what it was told, and the note ranks no trouble too low.
LEMMA RowTells == DashIInv => Dashboard!RowTellsTheTruth
<1> SUFFICES ASSUME DashIInv PROVE Dashboard!RowTellsTheTruth
  OBVIOUS
<1>1. row \in RowRecord /\ told \in RowRecord /\ owed \in [1 .. 3 -> Nat]
  BY DEF DashIInv, DashTypeOK
<1>2. ~met => Alike(row, told)
  BY DEF DashIInv, RowIsTold
<1>3. ~met => row = [told EXCEPT !.op = row.op]
  BY <1>1, <1>2 DEF Alike, RowRecord
<1>4. (~met /\ Dashboard!Cell(row) = "live" /\ row.state # Dashboard!NoLine) => ~told.exited /\ told.last <= StaleAfter
  <2>1. row.last \in Nat /\ StaleAfter \in Nat
    BY <1>1, ToolsAssumption DEF RowRecord
  <2> QED BY <1>2, <2>1 DEF Alike, Dashboard!Cell
<1>5. ASSUME NEW s \in 1 .. 3, owed[s] <= TTL[s], row.op = ""
      PROVE  Dashboard!Note(row).top # {} /\ \A k \in Dashboard!Note(row).top : Severities[k] >= s
  <2>1. TTL \in [1 .. 3 -> Nat] /\ TTL[1] <= TTL[2] /\ TTL[2] <= TTL[3]
    BY RulesAssumption
  <2>2. owed[s] \in Nat /\ owed[s] < Dashboard!Old
    <3>1. TTL[s] <= TTL[3] /\ TTL[s] \in Nat /\ TTL[3] \in Nat
      BY <2>1
    <3>2. owed[s] \in Nat
      BY <1>1
    <3>3. owed[s] <= TTL[s]
      BY <1>5
    <3> QED BY <3>1, <3>2, <3>3 DEF Dashboard!Old
  <2>3. PICK c \in Dashboard!Kind : row.events[c].count > 0 /\ Severities[c] >= s /\ row.events[c].ago <= owed[s]
    BY <2>2 DEF DashIInv, Remembers, Recalls
  <2>4. \A k \in Dashboard!Kind : Severities[k] \in 1 .. 3 /\ row.events[k].ago \in Nat
    BY <1>1, SeverityOf DEF RowRecord, EventRecord
  <2>5. c \in Dashboard!Live(row)
    <3>1. TTL[s] <= TTL[Severities[c]]
      BY <2>1, <2>3, <2>4
    <3>2. TTL[s] \in Nat /\ TTL[Severities[c]] \in Nat /\ row.events[c].ago \in Nat
      BY <2>1, <2>4
    <3>3. owed[s] <= TTL[s]
      BY <1>5
    <3>4. row.events[c].ago <= TTL[Severities[c]]
      BY <2>2, <2>3, <3>1, <3>2, <3>3
    <3> QED BY <2>3, <3>4 DEF Dashboard!Live
  <2>6. Dashboard!Live(row) \subseteq Dashboard!Kind
    BY DEF Dashboard!Live
  <2>7. Dashboard!Note(row).top = Dashboard!Top(row)
    BY <1>5 DEF Dashboard!Note
  <2>8. \A k \in Dashboard!Top(row) : Severities[k] >= s
    BY <2>3, <2>4, <2>5, <2>6 DEF Dashboard!Top
  <2> DEFINE mild == {3 - Severities[k] : k \in Dashboard!Live(row)}
  <2>9. mild \subseteq Nat /\ mild # {}
    BY <2>4, <2>5, <2>6
  <2>10. PICK m \in mild : \A n \in mild : m <= n
    BY <2>9, LeastOf
  <2> DEFINE ages == {row.events[k].ago : k \in {j \in Dashboard!Live(row) : 3 - Severities[j] = m}}
  <2>11. ages \subseteq Nat /\ ages # {}
    BY <2>4, <2>6, <2>10
  <2>12. PICK a \in ages : \A n \in ages : a <= n
    BY <2>11, LeastOf
  <2>13. PICK t \in Dashboard!Live(row) : 3 - Severities[t] = m /\ row.events[t].ago = a
    BY <2>12
  <2>14. ASSUME NEW j \in Dashboard!Live(row)
         PROVE  \/ Severities[j] < Severities[t]
                \/ Severities[j] = Severities[t] /\ row.events[j].ago >= row.events[t].ago
    <3>1. 3 - Severities[j] \in mild /\ Severities[j] \in 1 .. 3 /\ Severities[t] \in 1 .. 3
      BY <2>4, <2>6
    <3>2. m <= 3 - Severities[j]
      BY <2>10, <3>1
    <3>3. 3 - Severities[j] = m => row.events[j].ago \in ages
      OBVIOUS
    <3> HIDE DEF mild, ages
    <3>4. 3 - Severities[j] = m => a <= row.events[j].ago
      BY <2>12, <3>3
    <3>5. row.events[j].ago \in Nat /\ row.events[t].ago \in Nat
      BY <2>4, <2>6
    <3> QED BY <2>13, <3>1, <3>2, <3>4, <3>5
  <2>15. t \in Dashboard!Top(row)
    BY <2>14 DEF Dashboard!Top
  <2> QED BY <2>7, <2>8, <2>15
<1> QED BY <1>3, <1>4, <1>5 DEF Dashboard!RowTellsTheTruth

\* Settings, relay, menu, tray, light and graph agree once no start is under
\* way and no event met the page's snapshot; and a row of the dashboard tells
\* what its own relay said, unless two streams met in a half line
\* (bootstrap.js 23-63, relay-controller.js 24-36 and 169-179, renderer.js
\* 23-108, fleet.mjs 101-163 and 222-251).
THEOREM AllViewsAgree == ToolSpec => []ViewsAgree
<1> DEFINE All == AppIInv /\ ViewIInv /\ DashIInv
<1>1. ToolInit => All
  <2> SUFFICES ASSUME ToolInit PROVE All
    OBVIOUS
  <2>1. Desktop!AppInit /\ View!ViewInit /\ Dashboard!DashInit
    BY DEF ToolInit
  <2> QED BY <2>1, AppBegins, ViewBegins, DashBegins
<1>2. [ToolNext]_toolVars => [Desktop!AppStep]_(Desktop!appVars)
  BY DEF ToolNext, toolVars, Others, desktopVs, Desktop!appVars
<1>3. [ToolNext]_toolVars => [View!ViewStep]_(View!viewVars)
  BY DEF ToolNext, toolVars, Others, viewVs, View!viewVars
<1>4. [ToolNext]_toolVars => [Dashboard!DashStep]_(Dashboard!dashVars)
  BY DEF ToolNext, toolVars, Others, dashVs, Dashboard!dashVars
<1>5. All /\ [ToolNext]_toolVars => All'
  BY <1>2, <1>3, <1>4, AppKept, ViewKept, DashKept
<1>6. All => ViewsAgree
  BY AllAgree, ViewsTellOneStory, RowTells DEF ViewsAgree
<1> QED BY <1>1, <1>5, <1>6, PTL DEF ToolSpec

-----------------------------------------------------------------------------
(* The log line.  While evidence is reduced, the values that went are worth *)
(* going, every value that was passed over comes before every one that is   *)
(* left, and without the last loss the line would not have fitted.          *)

ValuesGone == {k \in Key : fate[k] = "note"}
Worth ==
  {k \in Key : Log!Structured(line.ctx[k]) /\ Log!Note(line.ctx[k]) < line.ctx[k].size}

LogTypeOK ==
  /\ line.ctx \in [Key -> [kind : Log!Kinds, size : Nat]]
  /\ fate \in [Key -> {"whole", "cut", "note"}] /\ order \subseteq Key

LargestFirst ==
  /\ \A k \in order : Log!Structured(line.ctx[k]) /\ fate[k] = "whole"
  /\ ValuesGone \subseteq Worth /\ Worth \subseteq ValuesGone \cup order
  /\ \A k \in ValuesGone, j \in order : Log!Larger(k, j)

LastLossNeeded ==
  \A k \in ValuesGone : (\A j \in ValuesGone \ {k} : Log!Larger(j, k)) =>
    Log!Length(line.ctx, [fate EXCEPT ![k] = "whole"]) > EvidenceCap

LogIInv ==
  /\ LogTypeOK
  /\ (noted = "reduce" => ~Log!isFullFidelity(line))
  /\ (noted = "done" /\ Log!isFullFidelity(line)) => fate = Log!Whole
  /\ (ValuesGone = {} /\ order = {} /\ noted # "reduce") \/ (LargestFirst /\ LastLossNeeded)

\* The order of the values has no two that come before each other.
LEMMA LargerIsStrict ==
  ASSUME LogTypeOK, NEW k \in Key, NEW j \in Key, Log!Larger(k, j), k # j
  PROVE  ~Log!Larger(j, k)
<1>1. line.ctx[k].size \in Nat /\ line.ctx[j].size \in Nat
  BY DEF LogTypeOK
<1>2. k \in Nat /\ j \in Nat
  BY ToolsAssumption
<1> QED BY <1>1, <1>2 DEF Log!Larger

\* The size of a value, and of the note that replaces it, is a number.
LEMMA NoteIsNat ==
  ASSUME LogTypeOK, NEW k \in Key
  PROVE  Log!Note(line.ctx[k]) \in Nat /\ line.ctx[k].size \in Nat
<1>1. ArrayNote \in Nat /\ ObjectNote \in Nat
  BY ToolsAssumption
<1>2. line.ctx[k].size \in Nat
  BY DEF LogTypeOK
<1> QED BY <1>1, <1>2 DEF Log!Note

\* A line that comes in loses nothing yet, or the tails of its texts.
LEMMA LineKeeps ==
  ASSUME LogIInv, NEW l \in Log!Lines, Log!LogLine(l)
  PROVE  LogIInv'
<1>1. l.ctx \in [Key -> [kind : Log!Kinds, size : Nat]]
  <2>1. CASE l.ctx \in [Key -> Log!Values]
    BY <2>1 DEF Log!Values
  <2>2. CASE l.ctx = Log!NoLine.ctx
    BY <2>2 DEF Log!NoLine, Log!Kinds
  <2> QED BY <2>1, <2>2 DEF Log!Lines
<1> DEFINE trimmed == [k \in Key |-> IF l.ctx[k].kind = "text" /\ l.ctx[k].size > CtxCap THEN "cut" ELSE "whole"]
           S == {k \in Key : Log!Structured(l.ctx[k])}
<1>2. /\ line' = l
      /\ \/ order' = {} /\ fate' = Log!Whole /\ noted' \in {"dropped", "done"}
         \/ order' = {} /\ fate' = trimmed /\ noted' = "done" /\ ~Log!isFullFidelity(l)
         \/ order' = S /\ fate' = Log!Whole /\ noted' = "reduce" /\ ~Log!isFullFidelity(l)
  BY DEF Log!LogLine
<1>3. fate' = Log!Whole \/ fate' = trimmed
  BY <1>2
<1>4. fate' \in [Key -> {"whole", "cut"}]
  BY <1>3 DEF Log!Whole
<1>5. LogTypeOK'
  BY <1>1, <1>2, <1>4 DEF LogTypeOK
<1>6. ValuesGone' = {}
  BY <1>4 DEF ValuesGone
<1>7. LastLossNeeded'
  BY <1>6 DEF LastLossNeeded
<1>8. ASSUME order' = S, fate' = Log!Whole PROVE LargestFirst'
  <2>1. Worth' \subseteq order'
    BY <1>2, <1>8 DEF Worth
  <2>2. \A k \in order' : Log!Structured(line'.ctx[k]) /\ fate'[k] = "whole"
    BY <1>2, <1>8 DEF Log!Whole
  <2> QED BY <1>6, <2>1, <2>2 DEF LargestFirst
<1> QED BY <1>2, <1>5, <1>6, <1>7, <1>8 DEF LogIInv

\* One step of the reduction: the line fits, or the largest value goes.
LEMMA ReduceKeeps == ASSUME LogIInv, Log!Reduce PROVE LogIInv'
<1>1. /\ LogTypeOK /\ ~Log!isFullFidelity(line) /\ LargestFirst /\ LastLossNeeded
      /\ noted = "reduce" /\ line' = line
  BY DEF LogIInv, Log!Reduce
<1>2. CASE order = {} \/ ~Log!Over
  <2>1. noted' = "done" /\ fate' = fate /\ order' = order
    BY <1>2 DEF Log!Reduce
  <2>2. LogTypeOK' /\ LargestFirst' /\ LastLossNeeded'
    BY <1>1, <2>1 DEF LogTypeOK, LargestFirst, LastLossNeeded, ValuesGone, Worth, Log!Larger
  <2> QED BY <1>1, <2>1, <2>2 DEF LogIInv, Log!isFullFidelity
<1>3. ASSUME order # {}, Log!Over,
             NEW k \in order, \A j \in order \ {k} : Log!Larger(k, j), order' = order \ {k}, noted' = noted,
             fate' = IF Log!Note(line.ctx[k]) >= line.ctx[k].size THEN fate ELSE [fate EXCEPT ![k] = "note"]
      PROVE  LogIInv'
  <2>1. /\ fate \in [Key -> {"whole", "cut", "note"}] /\ k \in Key /\ order \subseteq Key
        /\ fate[k] = "whole" /\ Log!Structured(line.ctx[k])
        /\ ValuesGone \subseteq Worth /\ Worth \subseteq ValuesGone \cup order /\ ValuesGone \subseteq Key
        /\ \A g \in ValuesGone, j \in order : Log!Larger(g, j)
        /\ \A j \in order : Log!Structured(line.ctx[j]) /\ fate[j] = "whole"
    BY <1>1, <1>3 DEF LogTypeOK, LargestFirst, ValuesGone
  <2>2. LogTypeOK' /\ Worth' = Worth /\ \A g, j : Log!Larger(g, j)' <=> Log!Larger(g, j)
    BY <1>1, <1>3, <2>1 DEF LogTypeOK, Worth, Log!Larger
  <2>3. CASE Log!Note(line.ctx[k]) >= line.ctx[k].size
    <3>1. fate' = fate /\ ValuesGone' = ValuesGone /\ k \notin Worth
      <4>1. Log!Note(line.ctx[k]) \in Nat /\ line.ctx[k].size \in Nat
        BY <1>1, <2>1, NoteIsNat
      <4>2. fate' = fate /\ ValuesGone' = ValuesGone
        BY <1>3, <2>3 DEF ValuesGone
      <4>3. ~(Log!Note(line.ctx[k]) < line.ctx[k].size)
        BY <2>3, <4>1
      <4> QED BY <4>2, <4>3 DEF Worth
    <3>2. LargestFirst'
      BY <1>1, <1>3, <2>1, <2>2, <3>1 DEF LargestFirst
    <3>3. LastLossNeeded'
      BY <1>1, <2>2, <3>1 DEF LastLossNeeded
    <3> QED BY <1>1, <1>3, <2>2, <3>2, <3>3 DEF LogIInv, Log!isFullFidelity
  <2>4. CASE ~(Log!Note(line.ctx[k]) >= line.ctx[k].size)
    <3>1. fate' = [fate EXCEPT ![k] = "note"] /\ ValuesGone' = ValuesGone \cup {k} /\ k \notin ValuesGone
      BY <1>3, <2>1, <2>4 DEF ValuesGone
    <3>2. k \in Worth
      BY <1>1, <2>1, <2>4, NoteIsNat DEF Worth
    <3>3. LargestFirst'
      <4>1. ValuesGone' \subseteq Worth' /\ Worth' \subseteq ValuesGone' \cup order'
        BY <1>3, <2>1, <2>2, <3>1, <3>2
      <4>2. \A j \in order' : Log!Structured(line'.ctx[j]) /\ fate'[j] = "whole"
        BY <1>1, <1>3, <2>1, <3>1
      <4>3. \A g \in ValuesGone', j \in order' : Log!Larger(g, j)'
        BY <1>3, <2>1, <2>2, <3>1
      <4> QED BY <4>1, <4>2, <4>3 DEF LargestFirst
    <3>4. [fate' EXCEPT ![k] = "whole"] = fate
      BY <2>1, <3>1
    <3>5. Log!Length(line'.ctx, [fate' EXCEPT ![k] = "whole"]) > EvidenceCap
      BY <1>1, <1>3, <3>4 DEF Log!Over
    <3>6. ASSUME NEW g \in ValuesGone', \A j \in ValuesGone' \ {g} : Log!Larger(j, g)' PROVE g = k
      <4> SUFFICES ASSUME g # k PROVE FALSE
        OBVIOUS
      <4>1. Log!Larger(k, g) /\ Log!Larger(g, k) /\ g \in Key
        BY <2>1, <2>2, <3>1, <3>6
      <4> QED BY <1>1, <2>1, <4>1, LargerIsStrict
    <3>7. LastLossNeeded'
      BY <3>5, <3>6 DEF LastLossNeeded
    <3> QED BY <1>1, <1>3, <2>2, <3>3, <3>7 DEF LogIInv, Log!isFullFidelity
  <2> QED BY <2>3, <2>4
<1> QED BY <1>1, <1>2, <1>3 DEF Log!Reduce

\* Every step of rendering keeps the invariant.
LEMMA LogKept == ASSUME LogIInv, [Log!LogStep]_(Log!logVars) PROVE LogIInv'
<1>1. CASE UNCHANGED Log!logVars
  BY <1>1 DEF Log!logVars, LogIInv, LogTypeOK, LargestFirst, LastLossNeeded, ValuesGone, Worth, Log!Larger, Log!isFullFidelity
<1> QED BY <1>1, LineKeeps, ReduceKeeps DEF Log!LogStep

\* A line not yet rendered satisfies the invariant.
LEMMA LogBegins == Log!LogInit => LogIInv
<1> SUFFICES ASSUME Log!LogInit PROVE LogIInv
  OBVIOUS
<1>1. line = Log!NoLine /\ fate = Log!Whole /\ order = {} /\ noted = "out"
  BY DEF Log!LogInit
<1>2. line.ctx \in [Key -> [kind : Log!Kinds, size : Nat]]
  BY <1>1 DEF Log!NoLine, Log!Kinds
<1>3. LogTypeOK /\ ValuesGone = {}
  BY <1>1, <1>2 DEF LogTypeOK, ValuesGone, Log!Whole
<1> QED BY <1>1, <1>3 DEF LogIInv

\* An evidence line loses no more than it must (logctx.js 28-50, 126-155).
THEOREM CutsTheLeast == ToolSpec => []LosesTheLeast
<1>1. ToolInit => LogIInv
  BY LogBegins DEF ToolInit
<1>2. [ToolNext]_toolVars => [Log!LogStep]_(Log!logVars)
  BY DEF ToolNext, toolVars, Others, logVs, Log!logVars
<1>3. LogIInv /\ [ToolNext]_toolVars => LogIInv'
  BY <1>2, LogKept
<1>4. LogIInv => LosesTheLeast
  <2> SUFFICES ASSUME LogIInv, noted = "done" PROVE Log!LosesTheLeast
    BY DEF LosesTheLeast, Log!LosesTheLeast
  <2>1. Log!isFullFidelity(line) => fate = Log!Whole
    BY DEF LogIInv
  <2>2. CASE ValuesGone = {}
    BY <2>1, <2>2 DEF Log!LosesTheLeast, ValuesGone
  <2>3. CASE LargestFirst /\ LastLossNeeded
    <3>1. /\ ValuesGone \subseteq Worth /\ Worth \subseteq ValuesGone \cup order
          /\ \A k \in ValuesGone, j \in order : Log!Larger(k, j)
      BY <2>3 DEF LargestFirst
    <3>2. \A k \in ValuesGone, j \in Worth \ ValuesGone : Log!Larger(k, j)
      BY <3>1
    <3>3. order = {} => Worth = ValuesGone
      BY <3>1
    <3> QED BY <2>1, <2>3, <3>1, <3>2, <3>3 DEF Log!LosesTheLeast, LastLossNeeded, ValuesGone, Worth
  <2> QED BY <2>2, <2>3 DEF LogIInv
<1> QED BY <1>1, <1>3, <1>4, PTL DEF ToolSpec

-----------------------------------------------------------------------------
(* The heads of a topic.  In one life of a reader its head only rises, and  *)
(* the rows follow it; a head that has risen since the last row has been    *)
(* heard since that row, in whatever life, so the row that shows the rise   *)
(* comes after an arrival no older than the row before it.                  *)

HeadRecord == [seq : Nat, by : Nat]
HeadRow == [at : Nat, seq : Nat, by : Nat]

SweepTypeOK ==
  /\ tick \in Nat /\ author \in 1 .. (Restarts + 1) /\ seqs \in [1 .. (Restarts + 1) -> Nat]
  /\ lives \in [Reader -> Nat] /\ head \in [Reader -> HeadRecord]
  /\ headRows \in [Reader -> Seq(HeadRow)] /\ heardAt \in [Reader -> Nat]

ByAnAuthor(r) ==
  /\ heardAt[r] <= tick /\ lives[r] >= 1
  /\ head[r] # Heads!NoHead => head[r].by \in 1 .. author
  /\ \A i \in DOMAIN headRows[r] : headRows[r][i].by \in 1 .. author /\ headRows[r][i].at <= tick

OnlyRises(r) ==
  lives[r] = 1 =>
    /\ \A i \in DOMAIN headRows[r] : headRows[r][i].seq <= head[r].seq
    /\ \A i, j \in DOMAIN headRows[r] : i < j => headRows[r][i].seq <= headRows[r][j].seq

RisesAreHeard(r) ==
  \A i \in DOMAIN headRows[r] :
    i > 1 /\ headRows[r][i].seq > headRows[r][i - 1].seq => headRows[r][i - 1].at <= heardAt[r]

NextRiseIsHeard(r) ==
  headRows[r] # <<>> /\ head[r].seq > headRows[r][Len(headRows[r])].seq =>
    headRows[r][Len(headRows[r])].at <= heardAt[r]

SweepIInv ==
  SweepTypeOK /\ \A r \in Reader : ByAnAuthor(r) /\ OnlyRises(r) /\ RisesAreHeard(r) /\ NextRiseIsHeard(r)

\* What a row of a reader is made of.
LEMMA RowFields ==
  ASSUME NEW rs \in Seq(HeadRow), NEW i \in DOMAIN rs
  PROVE  rs[i].seq \in Nat /\ rs[i].at \in Nat /\ rs[i].by \in Nat
<1>1. rs[i] \in HeadRow
  OBVIOUS
<1> QED BY <1>1 DEF HeadRow

\* Time, a publish, a new life of the publisher, and the stages of a sampler
\* move no row and no head.
LEMMA TimePassesFor ==
  ASSUME SweepIInv, UNCHANGED <<lives, head, headRows, heardAt>>, tick' \in Nat, tick <= tick',
         author' \in 1 .. (Restarts + 1), author <= author', seqs' \in [1 .. (Restarts + 1) -> Nat]
  PROVE  SweepIInv'
<1>1. SweepTypeOK /\ SweepTypeOK'
  BY DEF SweepIInv, SweepTypeOK
<1>2. tick \in Nat /\ author \in Nat /\ author' \in Nat
  BY SweepAssumption DEF SweepIInv, SweepTypeOK
<1>3. ASSUME NEW r \in Reader PROVE (ByAnAuthor(r) /\ OnlyRises(r) /\ RisesAreHeard(r) /\ NextRiseIsHeard(r))'
  <2>0. ByAnAuthor(r) /\ OnlyRises(r) /\ RisesAreHeard(r) /\ NextRiseIsHeard(r) /\ heardAt[r] \in Nat
    BY <1>1 DEF SweepIInv, SweepTypeOK
  <2>1. \A i \in DOMAIN headRows[r] : headRows[r][i].by \in 1 .. author' /\ headRows[r][i].at <= tick'
    <3> SUFFICES ASSUME NEW i \in DOMAIN headRows[r]
                 PROVE  headRows[r][i].by \in 1 .. author' /\ headRows[r][i].at <= tick'
      OBVIOUS
    <3>1. headRows[r][i].by \in 1 .. author /\ headRows[r][i].at <= tick
      BY <2>0 DEF ByAnAuthor
    <3>2. headRows[r][i].at \in Nat
      BY <1>1, RowFields DEF SweepTypeOK
    <3> QED BY <1>2, <3>1, <3>2
  <2>2. ByAnAuthor(r)'
    <3>1. heardAt[r] <= tick'
      BY <1>2, <2>0 DEF ByAnAuthor
    <3>2. head[r] # Heads!NoHead => head[r].by \in 1 .. author'
      BY <1>2, <2>0 DEF ByAnAuthor
    <3> QED BY <2>0, <2>1, <3>1, <3>2 DEF ByAnAuthor
  <2>3. OnlyRises(r)' /\ RisesAreHeard(r)' /\ NextRiseIsHeard(r)'
    BY <2>0 DEF OnlyRises, RisesAreHeard, NextRiseIsHeard
  <2> QED BY <2>2, <2>3
<1> QED BY <1>1, <1>3 DEF SweepIInv

\* What a reader hears, and its new life.
LEMMA ReaderKeeps ==
  ASSUME SweepIInv, NEW r \in Reader, Heads!Hears(r) \/ Heads!ReaderRestarts(r)
  PROVE  SweepIInv'
<1>0. SweepTypeOK /\ ByAnAuthor(r) /\ OnlyRises(r) /\ RisesAreHeard(r) /\ NextRiseIsHeard(r)
  BY DEF SweepIInv
<1>1. PICK h : h = head[r]
  OBVIOUS
<1>2. /\ tick \in Nat /\ author \in Nat /\ h \in HeadRecord /\ h.seq \in Nat /\ h.by \in Nat /\ heardAt[r] \in Nat
      /\ lives[r] \in Nat /\ headRows[r] \in Seq(HeadRow) /\ UNCHANGED <<tick, author, seqs, headRows>>
  BY <1>0, <1>1, SweepAssumption DEF SweepTypeOK, HeadRecord, Heads!Hears, Heads!ReaderRestarts
<1>3. PICK g \in HeadRecord :
        /\ head' = [head EXCEPT ![r] = g]
        /\ \/ Heads!Hears(r) /\ g.seq >= h.seq /\ (g = h \/ g.by \in 1 .. author)
           \/ Heads!ReaderRestarts(r) /\ g = Heads!NoHead
  <2>1. CASE Heads!Hears(r)
    <3>0. PICK a \in 1 .. author : \E n \in 1 .. seqs[a] :
            head' = [head EXCEPT ![r] = IF Heads!Newer(r, [seq |-> n, by |-> a]) THEN [seq |-> n, by |-> a] ELSE @]
      BY <2>1 DEF Heads!Hears
    <3>1. PICK n \in 1 .. seqs[a] :
            head' = [head EXCEPT ![r] = IF Heads!Newer(r, [seq |-> n, by |-> a]) THEN [seq |-> n, by |-> a] ELSE @]
      BY <3>0
    <3>2. PICK m : m = [seq |-> n, by |-> a]
      OBVIOUS
    <3>3. n \in Nat /\ a \in Nat /\ m \in HeadRecord /\ m.seq = n /\ m.by = a
      BY <1>0, <1>2, <3>1, <3>2, SweepAssumption DEF SweepTypeOK, HeadRecord
    <3>4. head' = [head EXCEPT ![r] = IF m.seq > h.seq THEN m ELSE h]
      BY <1>1, <3>1, <3>2 DEF Heads!Newer
    <3>5. CASE m.seq > h.seq
      <4>1. head' = [head EXCEPT ![r] = m]
        BY <3>4, <3>5
      <4>2. m.seq >= h.seq
        BY <1>2, <3>3, <3>5
      <4>3. m.by \in 1 .. author
        BY <3>0, <3>3
      <4> QED BY <2>1, <3>3, <4>1, <4>2, <4>3
    <3>6. CASE ~(m.seq > h.seq)
      <4>1. head' = [head EXCEPT ![r] = h] /\ h.seq >= h.seq
        BY <1>2, <3>4, <3>6
      <4> QED BY <1>2, <2>1, <4>1
    <3> QED BY <3>5, <3>6
  <2>2. CASE Heads!ReaderRestarts(r)
    <3>1. Heads!NoHead \in HeadRecord
      BY DEF Heads!NoHead, HeadRecord
    <3> QED BY <2>2, <3>1 DEF Heads!ReaderRestarts
  <2> QED BY <2>1, <2>2
<1>4. /\ head'[r] = g /\ \A s \in Reader : s # r => head'[s] = head[s] /\ lives'[s] = lives[s] /\ heardAt'[s] = heardAt[s]
      /\ Heads!Hears(r) => heardAt'[r] = tick /\ lives'[r] = lives[r]
      /\ Heads!ReaderRestarts(r) => heardAt'[r] = heardAt[r] /\ lives'[r] = lives[r] + 1 /\ head'[r] = Heads!NoHead
      /\ lives' \in [Reader -> Nat] /\ heardAt' \in [Reader -> Nat]
  <2>1. head'[r] = g /\ \A s \in Reader : s # r => head'[s] = head[s]
    BY <1>0, <1>3 DEF SweepTypeOK
  <2>2. CASE Heads!Hears(r)
    <3>1. heardAt' = [heardAt EXCEPT ![r] = tick] /\ lives' = lives
      BY <2>2 DEF Heads!Hears
    <3>2. ~Heads!ReaderRestarts(r)
      <4> SUFFICES ASSUME lives' = [lives EXCEPT ![r] = @ + 1] PROVE FALSE
        BY DEF Heads!ReaderRestarts
      <4>1. lives'[r] = lives[r] + 1
        BY <1>0 DEF SweepTypeOK
      <4> QED BY <1>2, <3>1, <4>1
    <3> QED BY <1>0, <1>2, <2>1, <3>1, <3>2 DEF SweepTypeOK
  <2>3. CASE Heads!ReaderRestarts(r)
    <3>1. heardAt' = heardAt /\ lives' = [lives EXCEPT ![r] = @ + 1] /\ head' = [head EXCEPT ![r] = Heads!NoHead]
      BY <2>3 DEF Heads!ReaderRestarts
    <3>2. lives'[r] = lives[r] + 1
      BY <1>0, <3>1 DEF SweepTypeOK
    <3>3. ~Heads!Hears(r)
      BY <1>2, <3>1, <3>2 DEF Heads!Hears
    <3>4. lives[r] + 1 \in Nat
      BY <1>2
    <3>5. lives' \in [Reader -> Nat] /\ heardAt' \in [Reader -> Nat]
      BY <1>0, <3>1, <3>4 DEF SweepTypeOK
    <3>6. head'[r] = Heads!NoHead
      BY <1>0, <3>1 DEF SweepTypeOK
    <3>7. \A s \in Reader : s # r => lives'[s] = lives[s] /\ heardAt'[s] = heardAt[s]
      BY <1>0, <3>1 DEF SweepTypeOK
    <3> QED BY <2>1, <3>1, <3>2, <3>3, <3>5, <3>6, <3>7
  <2> QED BY <1>3, <2>2, <2>3
<1>5. SweepTypeOK'
  BY <1>0, <1>2, <1>3, <1>4 DEF SweepTypeOK
<1>6. ByAnAuthor(r)'
  <2>1. CASE Heads!Hears(r)
    BY <1>0, <1>1, <1>2, <1>3, <1>4, <2>1 DEF ByAnAuthor
  <2>2. CASE Heads!ReaderRestarts(r)
    <3>1. lives'[r] >= 1 /\ heardAt'[r] <= tick'
      BY <1>0, <1>2, <1>4, <2>2 DEF ByAnAuthor
    <3>2. head'[r] = Heads!NoHead
      BY <2>2, <1>4
    <3> QED BY <1>0, <1>2, <3>1, <3>2 DEF ByAnAuthor
  <2> QED BY <2>1, <2>2
<1>7. OnlyRises(r)'
  <2>1. CASE Heads!Hears(r)
    <3> SUFFICES ASSUME lives'[r] = 1
                 PROVE  /\ \A i \in DOMAIN headRows[r] : headRows[r][i].seq <= g.seq
                        /\ \A i, j \in DOMAIN headRows[r] : i < j => headRows[r][i].seq <= headRows[r][j].seq
      BY <1>2, <1>4 DEF OnlyRises
    <3>1. \A i \in DOMAIN headRows[r] : headRows[r][i].seq \in Nat
      BY <1>2, RowFields
    <3>2. g.seq \in Nat /\ g.seq >= h.seq
      <4>1. g.seq \in Nat
        BY <1>3 DEF HeadRecord
      <4>2. ~Heads!ReaderRestarts(r)
        BY <1>2, <1>4, <2>1
      <4> QED BY <1>3, <4>1, <4>2
    <3> QED BY <1>0, <1>1, <1>2, <1>4, <2>1, <3>1, <3>2 DEF OnlyRises
  <2>2. CASE Heads!ReaderRestarts(r)
    BY <1>0, <1>2, <1>4, <2>2 DEF OnlyRises, ByAnAuthor
  <2> QED BY <2>1, <2>2
<1>8. heardAt[r] <= heardAt'[r] /\ heardAt'[r] \in Nat
  BY <1>0, <1>2, <1>4 DEF ByAnAuthor
<1>9. RisesAreHeard(r)'
  <2> SUFFICES ASSUME NEW i \in DOMAIN headRows[r], i > 1, headRows[r][i].seq > headRows[r][i - 1].seq
               PROVE  headRows[r][i - 1].at <= heardAt'[r]
    BY <1>2 DEF RisesAreHeard
  <2>1. headRows[r][i - 1].at <= heardAt[r]
    BY <1>0 DEF RisesAreHeard
  <2>2. i - 1 \in DOMAIN headRows[r]
    BY <1>2
  <2>3. headRows[r][i - 1].at \in Nat
    BY <1>2, <2>2, RowFields
  <2> QED BY <1>2, <1>8, <2>1, <2>3
<1>10. NextRiseIsHeard(r)'
  <2> SUFFICES ASSUME headRows[r] # <<>>, head'[r].seq > headRows[r][Len(headRows[r])].seq
               PROVE  headRows[r][Len(headRows[r])].at <= heardAt'[r]
    BY <1>2 DEF NextRiseIsHeard
  <2>0. Len(headRows[r]) \in DOMAIN headRows[r]
    BY <1>2
  <2>1. CASE Heads!Hears(r)
    BY <1>0, <1>4, <2>0, <2>1 DEF ByAnAuthor
  <2>2. CASE Heads!ReaderRestarts(r)
    <3>1. head'[r].seq = 0
      BY <1>4, <2>2 DEF Heads!NoHead
    <3>2. headRows[r][Len(headRows[r])].seq \in Nat
      BY <1>2, <2>0, RowFields
    <3> QED BY <3>1, <3>2
  <2> QED BY <2>1, <2>2
<1>11. ASSUME NEW s \in Reader, s # r PROVE (ByAnAuthor(s) /\ OnlyRises(s) /\ RisesAreHeard(s) /\ NextRiseIsHeard(s))'
  <2>1. ByAnAuthor(s) /\ OnlyRises(s) /\ RisesAreHeard(s) /\ NextRiseIsHeard(s)
    BY DEF SweepIInv
  <2>2. ByAnAuthor(s)'
    BY <1>2, <1>4, <1>11, <2>1 DEF ByAnAuthor
  <2>3. OnlyRises(s)' /\ RisesAreHeard(s)' /\ NextRiseIsHeard(s)'
    BY <1>2, <1>4, <1>11, <2>1 DEF OnlyRises, RisesAreHeard, NextRiseIsHeard
  <2> QED BY <2>2, <2>3
<1> QED BY <1>5, <1>6, <1>7, <1>9, <1>10, <1>11 DEF SweepIInv

\* A row shows the head as it is.
LEMMA SweepWrites ==
  ASSUME SweepIInv, NEW r \in Reader, head[r] # Heads!NoHead,
         headRows' = [headRows EXCEPT ![r] = Append(@, Heads!Row(r))],
         UNCHANGED <<tick, author, seqs, lives, head, heardAt>>
  PROVE  SweepIInv'
<1>0. SweepTypeOK /\ tick \in Nat
  BY DEF SweepIInv, SweepTypeOK
<1>1. ByAnAuthor(r) /\ OnlyRises(r) /\ RisesAreHeard(r) /\ NextRiseIsHeard(r)
  BY DEF SweepIInv
<1>2. PICK old, new, h : old = headRows[r] /\ new = headRows'[r] /\ h = head[r]
  OBVIOUS
<1>3. /\ old \in Seq(HeadRow) /\ h \in HeadRecord /\ h.seq \in Nat /\ h.by \in Nat
      /\ heardAt[r] \in Nat /\ heardAt[r] <= tick
  BY <1>0, <1>1, <1>2 DEF SweepTypeOK, HeadRecord, ByAnAuthor
<1>4. PICK wrote : wrote = Heads!Row(r)
  OBVIOUS
<1>5. wrote \in HeadRow /\ wrote.at = tick /\ wrote.seq = h.seq /\ wrote.by = h.by
  BY <1>0, <1>2, <1>3, <1>4 DEF Heads!Row, HeadRow
<1>6. new = Append(old, wrote) /\ \A s \in Reader : s # r => headRows'[s] = headRows[s]
  BY <1>0, <1>2, <1>4 DEF SweepTypeOK
<1>7. PICK n \in Nat : n = Len(old)
  BY <1>3
<1>8. /\ new \in Seq(HeadRow) /\ DOMAIN old = 1 .. n /\ DOMAIN new = 1 .. (n + 1) /\ Len(new) = n + 1
      /\ new[n + 1] = wrote /\ \A i \in 1 .. n : new[i] = old[i] /\ old[i].seq \in Nat /\ old[i].at \in Nat
  <2>1. DOMAIN old = 1 .. n /\ \A i \in 1 .. n : old[i].seq \in Nat /\ old[i].at \in Nat
    BY <1>3, <1>7, RowFields
  <2>2. new \in Seq(HeadRow) /\ Len(new) = n + 1 /\ new[n + 1] = wrote /\ \A i \in 1 .. n : new[i] = old[i]
    BY <1>3, <1>5, <1>6, <1>7
  <2> QED BY <2>1, <2>2
<1>9. ByAnAuthor(r)'
  <2>1. \A i \in 1 .. n : old[i].by \in 1 .. author /\ old[i].at <= tick
    BY <1>1, <1>2, <1>8 DEF ByAnAuthor
  <2>2. h.by \in 1 .. author
    BY <1>1, <1>2 DEF ByAnAuthor
  <2>3. \A i \in 1 .. (n + 1) : i \in 1 .. n \/ i = n + 1
    OBVIOUS
  <2>4. \A i \in 1 .. (n + 1) : new[i].by \in 1 .. author /\ new[i].at <= tick
    BY <1>0, <1>5, <1>8, <2>1, <2>2, <2>3
  <2> QED BY <1>1, <1>2, <1>8, <2>4 DEF ByAnAuthor
<1>10. OnlyRises(r)'
  <2> SUFFICES ASSUME lives[r] = 1
               PROVE  /\ \A i \in 1 .. (n + 1) : new[i].seq <= h.seq
                      /\ \A i, j \in 1 .. (n + 1) : i < j => new[i].seq <= new[j].seq
    BY <1>2, <1>8 DEF OnlyRises
  <2>1. /\ \A i \in 1 .. n : old[i].seq <= h.seq
        /\ \A i, j \in 1 .. n : i < j => old[i].seq <= old[j].seq
    BY <1>1, <1>2, <1>8 DEF OnlyRises
  <2> QED BY SMTT(30), <1>3, <1>5, <1>8, <2>1
<1>11. RisesAreHeard(r)'
  <2> SUFFICES ASSUME NEW i \in 1 .. (n + 1), i > 1, new[i].seq > new[i - 1].seq
               PROVE  new[i - 1].at <= heardAt[r]
    BY <1>2, <1>8 DEF RisesAreHeard
  <2>1. CASE i = n + 1
    <3>1. i - 1 = n /\ n > 0 /\ new[n] = old[n] /\ h.seq > old[n].seq
      BY <1>5, <1>8, <2>1
    <3>2. old # <<>>
      BY <1>7, <3>1
    <3> QED BY <1>1, <1>2, <1>7, <3>1, <3>2 DEF NextRiseIsHeard
  <2>2. CASE i # n + 1
    <3>1. i \in 1 .. n /\ i - 1 \in 1 .. n
      BY <2>2
    <3> QED BY <1>1, <1>2, <1>8, <3>1 DEF RisesAreHeard
  <2> QED BY <2>1, <2>2
<1>12. NextRiseIsHeard(r)'
  <2>1. new[Len(new)].seq = head'[r].seq /\ head'[r].seq \in Nat
    BY <1>2, <1>3, <1>5, <1>8
  <2> QED BY <1>2, <2>1 DEF NextRiseIsHeard
<1>13. ASSUME NEW s \in Reader, s # r PROVE (ByAnAuthor(s) /\ OnlyRises(s) /\ RisesAreHeard(s) /\ NextRiseIsHeard(s))'
  <2>1. ByAnAuthor(s) /\ OnlyRises(s) /\ RisesAreHeard(s) /\ NextRiseIsHeard(s) /\ headRows'[s] = headRows[s]
    BY <1>6, <1>13 DEF SweepIInv
  <2> QED BY <2>1 DEF ByAnAuthor, OnlyRises, RisesAreHeard, NextRiseIsHeard
<1>14. SweepTypeOK'
  <2>1. Append(headRows[r], Heads!Row(r)) \in Seq(HeadRow)
    BY <1>2, <1>4, <1>6, <1>8
  <2>2. headRows' \in [Reader -> Seq(HeadRow)]
    BY <1>0, <2>1 DEF SweepTypeOK
  <2> QED BY <1>0, <2>2 DEF SweepTypeOK
<1> QED BY <1>9, <1>10, <1>11, <1>12, <1>13, <1>14 DEF SweepIInv

\* Every step of the topic, its readers and their sweeps keeps the invariant.
LEMMA SweepKept == ASSUME SweepIInv, [Heads!SweepStep]_(Heads!sweepVars) PROVE SweepIInv'
<1>0. SweepTypeOK /\ tick \in Nat /\ author \in Nat /\ Restarts \in Nat /\ author \in 1 .. (Restarts + 1)
      /\ seqs \in [1 .. (Restarts + 1) -> Nat]
  BY SweepAssumption DEF SweepIInv, SweepTypeOK
<1>1. CASE UNCHANGED Heads!sweepVars
  BY <1>1 DEF Heads!sweepVars, SweepIInv, SweepTypeOK, ByAnAuthor, OnlyRises, RisesAreHeard, NextRiseIsHeard
<1>2. CASE Heads!PublishNext
  <2>1. UNCHANGED <<tick, author, lives, head, headRows, heardAt>> /\ seqs' = [seqs EXCEPT ![author] = @ + 1]
    BY <1>2 DEF Heads!PublishNext
  <2>2. seqs' \in [1 .. (Restarts + 1) -> Nat]
    BY <1>0, <2>1
  <2> QED BY <1>0, <2>1, <2>2, TimePassesFor
<1>3. CASE Heads!PublisherRestarts
  <2>1. UNCHANGED <<tick, seqs, lives, head, headRows, heardAt>> /\ author' = author + 1 /\ author <= Restarts
    BY <1>3 DEF Heads!PublisherRestarts
  <2> QED BY <1>0, <2>1, TimePassesFor
<1>4. CASE Heads!Ticks
  <2>1. UNCHANGED <<author, seqs, lives, head, headRows, heardAt>> /\ tick' = tick + 1
    BY <1>4 DEF Heads!Ticks
  <2> QED BY <1>0, <2>1, TimePassesFor
<1>5. ASSUME NEW r \in Reader, Heads!Subscribes(r) \/ Heads!StartsSampling(r) PROVE SweepIInv'
  <2>1. UNCHANGED <<tick, author, seqs, lives, head, headRows, heardAt>>
    BY <1>5 DEF Heads!Subscribes, Heads!StartsSampling
  <2> QED BY <1>0, <2>1, TimePassesFor
<1>6. ASSUME NEW r \in Reader, Heads!Sweep(r) \/ Heads!LastSweep(r) PROVE SweepIInv'
  <2>1. UNCHANGED <<tick, author, seqs, lives, head, heardAt>> /\ Heads!Wrote(r)
    BY <1>6 DEF Heads!Sweep, Heads!LastSweep
  <2>2. CASE UNCHANGED headRows
    BY <1>0, <2>1, <2>2, TimePassesFor
  <2>3. CASE head[r] # Heads!NoHead /\ headRows' = [headRows EXCEPT ![r] = Append(@, Heads!Row(r))]
    BY <2>1, <2>3, SweepWrites
  <2> QED BY <2>1, <2>2, <2>3 DEF Heads!Wrote
<1> QED BY <1>1, <1>2, <1>3, <1>4, <1>5, <1>6, ReaderKeeps DEF Heads!SweepStep

\* What the detectors may say of rows like these.
LEMMA DetectorsMean == SweepIInv => Heads!DetectorsMeanRestarts
<1> SUFFICES ASSUME SweepIInv PROVE Heads!DetectorsMeanRestarts
  OBVIOUS
<1>0. SweepTypeOK
  BY DEF SweepIInv
<1>1. ASSUME NEW r \in Reader, Heads!StalePull(r) PROVE lives[r] > 1
  <2>1. PICK i \in DOMAIN headRows[r], j \in DOMAIN headRows[r] : i < j /\ headRows[r][j].seq < headRows[r][i].seq
    BY <1>1 DEF Heads!StalePull
  <2>2. headRows[r] \in Seq(HeadRow) /\ headRows[r][i].seq \in Nat /\ headRows[r][j].seq \in Nat /\ lives[r] \in Nat
    BY <1>0, RowFields DEF SweepTypeOK
  <2>3. ~(headRows[r][i].seq <= headRows[r][j].seq)
    BY <2>1, <2>2
  <2>4. lives[r] # 1
    BY <2>1, <2>3 DEF SweepIInv, OnlyRises
  <2>5. lives[r] >= 1
    BY DEF SweepIInv, ByAnAuthor
  <2> QED BY <2>2, <2>4, <2>5
<1>2. ASSUME Heads!SplitRoot PROVE author > 1
  <2>1. PICK r \in Reader, s \in Reader : \E i \in DOMAIN headRows[r], j \in DOMAIN headRows[s] :
          headRows[r][i].by # headRows[s][j].by
    BY <1>2 DEF Heads!SplitRoot
  <2>2. PICK i \in DOMAIN headRows[r], j \in DOMAIN headRows[s] : headRows[r][i].by # headRows[s][j].by
    BY <2>1
  <2>3. headRows[r][i].by \in 1 .. author /\ headRows[s][j].by \in 1 .. author
    BY DEF SweepIInv, ByAnAuthor
  <2>4. author \in Nat
    BY <1>0, SweepAssumption DEF SweepTypeOK
  <2> QED BY <2>2, <2>3, <2>4
<1>3. ASSUME NEW r \in Reader, NEW i \in DOMAIN headRows[r], Heads!WedgedAt(r, i)
      PROVE  headRows[r][i].at > headRows[r][i - 1].at + Silence
  <2>1. i > 1 /\ headRows[r][i].seq > headRows[r][i - 1].seq /\ headRows[r][i].at > heardAt[r] + Silence
    BY <1>3 DEF Heads!WedgedAt
  <2>2. headRows[r][i - 1].at <= heardAt[r]
    BY <2>1 DEF SweepIInv, RisesAreHeard
  <2>3. headRows[r] \in Seq(HeadRow) /\ heardAt[r] \in Nat
    BY <1>0 DEF SweepTypeOK
  <2>4. i - 1 \in DOMAIN headRows[r]
    BY <2>1, <2>3
  <2>5. headRows[r][i].at \in Nat /\ headRows[r][i - 1].at \in Nat
    BY <2>3, <2>4, RowFields
  <2>6. \A a, b, h, n \in Nat : a > h + n /\ b <= h => a > b + n
    OBVIOUS
  <2>7. Silence \in Nat
    BY SweepAssumption
  <2> QED BY <2>1, <2>2, <2>3, <2>5, <2>6, <2>7
<1> QED BY <1>1, <1>2, <1>3 DEF Heads!DetectorsMeanRestarts

\* No reader begins with a head or a row.
LEMMA SweepBegins == Heads!SweepInit => SweepIInv
<1> SUFFICES ASSUME Heads!SweepInit PROVE SweepIInv
  OBVIOUS
<1>1. Heads!NoHead \in HeadRecord /\ <<>> \in Seq(HeadRow)
  BY DEF Heads!NoHead, HeadRecord
<1>2. SweepTypeOK
  BY <1>1, SweepAssumption DEF Heads!SweepInit, SweepTypeOK
<1>3. ASSUME NEW r \in Reader PROVE ByAnAuthor(r) /\ OnlyRises(r) /\ RisesAreHeard(r) /\ NextRiseIsHeard(r)
  <2>1. head[r] = Heads!NoHead /\ headRows[r] = <<>> /\ heardAt[r] = 0 /\ lives[r] = 1 /\ tick = 1
    BY DEF Heads!SweepInit
  <2> QED BY <2>1 DEF ByAnAuthor, OnlyRises, RisesAreHeard, NextRiseIsHeard
<1> QED BY <1>2, <1>3 DEF SweepIInv
-----------------------------------------------------------------------------
(* The owners of the coordination topic.  Whatever is announced, known,     *)
(* listened to or published under is an author of the plan's publisher, of  *)
(* a life it has had; a reader that listens to another has said so.         *)

PublisherLives == {<<plan.publisher, n>> : n \in 1 .. life[plan.publisher]}

PlanTypeOK ==
  /\ life \in [Sidecar -> Nat] /\ mode \in [Sidecar -> {"off", "coord", "ready"}]
  /\ authors = [s \in Sidecar |-> authors[s]] /\ owner = [s \in Sidecar |-> owner[s]]
  /\ missing = [s \in Sidecar |-> missing[s]]
  /\ plan # Bootstrap!NoPlan => plan.publisher \in Sidecar /\ plan.group \subseteq Sidecar

NothingBeforeThePlan ==
  plan = Bootstrap!NoPlan =>
    /\ announced = {} /\ sent = {}
    /\ \A s \in Sidecar : authors[s] = Bootstrap!NoAuthor /\ owner[s] = Bootstrap!NoAuthor /\ mode[s] = "off"

OnlyThePublisher ==
  /\ announced \subseteq PublisherLives /\ sent \subseteq PublisherLives
  /\ \A s \in Sidecar : /\ mode[s] # "off" => life[s] >= 1
                        /\ authors[s] \in PublisherLives \cup {Bootstrap!NoAuthor}
                        /\ owner[s] # Bootstrap!NoAuthor =>
                             s \notin plan.group \/ missing[s] \/ owner[s] \in PublisherLives

CoordIInv == PlanTypeOK /\ NothingBeforeThePlan /\ OnlyThePublisher

\* The plan is drawn before anything else happens.
LEMMA PlanKeeps == ASSUME CoordIInv, Bootstrap!generatePlan PROVE CoordIInv'
<1>1. /\ plan = Bootstrap!NoPlan /\ UNCHANGED <<life, mode, announced, authors, again, owner, missing, sent>>
      /\ \E p \in Sidecar, g \in SUBSET Sidecar : plan' = [publisher |-> p, group |-> g]
  BY DEF Bootstrap!generatePlan
<1>2. plan'.publisher \in Sidecar /\ plan'.group \subseteq Sidecar
  BY <1>1
<1>3. plan' # Bootstrap!NoPlan \/ plan' = plan
  BY <1>1
<1>4. /\ announced = {} /\ sent = {}
      /\ \A s \in Sidecar : authors[s] = Bootstrap!NoAuthor /\ owner[s] = Bootstrap!NoAuthor /\ mode[s] = "off"
  BY <1>1 DEF CoordIInv, NothingBeforeThePlan
<1>5. PlanTypeOK' /\ NothingBeforeThePlan'
  BY <1>1, <1>2, <1>4 DEF CoordIInv, PlanTypeOK, NothingBeforeThePlan
<1>6. OnlyThePublisher'
  BY <1>1, <1>4 DEF OnlyThePublisher
<1> QED BY <1>5, <1>6 DEF CoordIInv

\* What a sidecar does under a plan: its publisher may begin a life, and what
\* it announces, publishes under and is known by is an author it has had.
LEMMA SidecarKeeps ==
  ASSUME CoordIInv, NEW s \in Sidecar, plan # Bootstrap!NoPlan, plan' = plan,
         life' \in [Sidecar -> Nat], mode' \in [Sidecar -> {"off", "coord", "ready"}],
         \A r \in Sidecar : life[r] <= life'[r] /\ (mode'[r] # "off" => life'[r] >= 1),
         announced' \subseteq announced \cup PublisherLives', sent' \subseteq sent \cup PublisherLives',
         NEW a, authors' = [authors EXCEPT ![s] = a], a \in PublisherLives' \cup {Bootstrap!NoAuthor},
         NEW o, owner' = [owner EXCEPT ![s] = o], NEW m, missing' = [missing EXCEPT ![s] = m],
         o # Bootstrap!NoAuthor => s \notin plan.group \/ m \/ o \in PublisherLives'
  PROVE  CoordIInv'
<1>0. PlanTypeOK /\ OnlyThePublisher /\ plan.publisher \in Sidecar /\ plan.group \subseteq Sidecar
  BY DEF CoordIInv, PlanTypeOK
<1>1. PublisherLives \subseteq PublisherLives'
  <2>1. life[plan.publisher] \in Nat /\ life'[plan.publisher] \in Nat /\ life[plan.publisher] <= life'[plan.publisher]
    BY <1>0 DEF PlanTypeOK
  <2>2. 1 .. life[plan.publisher] \subseteq 1 .. life'[plan.publisher]
    BY <2>1
  <2> QED BY <2>2 DEF PublisherLives
<1>2. /\ authors'[s] = a /\ owner'[s] = o /\ missing'[s] = m
      /\ \A r \in Sidecar : r # s => authors'[r] = authors[r] /\ owner'[r] = owner[r] /\ missing'[r] = missing[r]
  BY <1>0 DEF PlanTypeOK
<1>3. PlanTypeOK'
  BY <1>0 DEF PlanTypeOK
<1>4. announced' \subseteq PublisherLives' /\ sent' \subseteq PublisherLives'
  BY <1>0, <1>1 DEF OnlyThePublisher
<1>5. ASSUME NEW r \in Sidecar
      PROVE  /\ mode'[r] # "off" => life'[r] >= 1
             /\ authors'[r] \in PublisherLives' \cup {Bootstrap!NoAuthor}
             /\ owner'[r] # Bootstrap!NoAuthor =>
                  r \notin plan'.group \/ missing'[r] \/ owner'[r] \in PublisherLives'
  <2>1. CASE r = s
    BY <1>2, <2>1
  <2>2. CASE r # s
    BY <1>0, <1>1, <1>2, <2>2 DEF OnlyThePublisher
  <2> QED BY <2>1, <2>2
<1>6. OnlyThePublisher'
  BY <1>4, <1>5 DEF OnlyThePublisher
<1>7. NothingBeforeThePlan'
  BY DEF NothingBeforeThePlan
<1> QED BY <1>3, <1>6, <1>7 DEF CoordIInv

\* Every step of the sidecars keeps the invariant.
LEMMA CoordKept == ASSUME CoordIInv, [Bootstrap!CoordStep]_(Bootstrap!coordVars) PROVE CoordIInv'
<1>0. PlanTypeOK /\ OnlyThePublisher /\ NothingBeforeThePlan
  BY DEF CoordIInv
<1>1. CASE UNCHANGED Bootstrap!coordVars
  BY <1>1 DEF Bootstrap!coordVars, CoordIInv, PlanTypeOK, NothingBeforeThePlan, OnlyThePublisher, PublisherLives
<1>2. ASSUME NEW s \in Sidecar,
             Bootstrap!Start(s) \/ Bootstrap!Reannounce(s) \/ Bootstrap!HearsOf(s)
               \/ Bootstrap!Settle(s) \/ Bootstrap!PublishOwned(s) \/ Bootstrap!Killed(s)
      PROVE  CoordIInv'
  <2>1. plan # Bootstrap!NoPlan /\ plan' = plan
    BY <1>0, <1>2 DEF NothingBeforeThePlan, Bootstrap!Start, Bootstrap!Reannounce, Bootstrap!HearsOf,
                      Bootstrap!Settle, Bootstrap!PublishOwned, Bootstrap!Killed
  <2>2. PICK pub_, l : pub_ = plan.publisher /\ l = life[s]
    OBVIOUS
  <2>3. /\ pub_ \in Sidecar /\ l \in Nat /\ life \in [Sidecar -> Nat] /\ mode \in [Sidecar -> {"off", "coord", "ready"}]
        /\ authors = [r \in Sidecar |-> authors[r]] /\ owner = [r \in Sidecar |-> owner[r]]
        /\ missing = [r \in Sidecar |-> missing[r]]
    BY <1>0, <2>1, <2>2 DEF PlanTypeOK
  <2>4. \A r \in Sidecar : life[r] \in Nat /\ (mode[r] # "off" => life[r] >= 1)
    BY <1>0, <2>3 DEF OnlyThePublisher
  <2>5. PublisherLives' = {<<pub_, n>> : n \in 1 .. life'[pub_]}
        /\ PublisherLives = {<<pub_, n>> : n \in 1 .. life[pub_]}
    BY <2>1, <2>2 DEF PublisherLives
  <2>6. /\ authors[s] \in PublisherLives \cup {Bootstrap!NoAuthor}
        /\ owner[s] # Bootstrap!NoAuthor => s \notin plan.group \/ missing[s] \/ owner[s] \in PublisherLives
    BY <1>0 DEF OnlyThePublisher
  <2>7. /\ authors = [authors EXCEPT ![s] = authors[s]] /\ owner = [owner EXCEPT ![s] = owner[s]]
        /\ missing = [missing EXCEPT ![s] = missing[s]]
    BY <2>3
  <2>8. CASE Bootstrap!Start(s)
    <3>1. /\ life' = [life EXCEPT ![s] = @ + 1] /\ mode' = [mode EXCEPT ![s] = "coord"]
          /\ authors' = [authors EXCEPT ![s] = IF s = pub_ THEN <<s, l + 1>> ELSE Bootstrap!NoAuthor]
          /\ announced' \in {announced} \cup (IF s = pub_ THEN {announced \cup {<<s, l + 1>>}} ELSE {})
          /\ UNCHANGED <<plan, owner, missing, sent>>
      BY <2>2, <2>8 DEF Bootstrap!Start
    <3>2. life'[s] = l + 1 /\ \A r \in Sidecar : r # s => life'[r] = life[r] /\ mode'[r] = mode[r]
      BY <2>2, <2>3, <3>1
    <3>3. life' \in [Sidecar -> Nat] /\ mode' \in [Sidecar -> {"off", "coord", "ready"}]
      BY <2>2, <2>3, <3>1
    <3>4. \A r \in Sidecar : life[r] <= life'[r] /\ (mode'[r] # "off" => life'[r] >= 1)
      BY <2>2, <2>3, <2>4, <3>2
    <3>5. s = pub_ => <<s, l + 1>> \in PublisherLives'
      BY <2>3, <2>5, <3>2
    <3>6. announced' \subseteq announced \cup PublisherLives'
      BY <3>1, <3>5
    <3>7. PublisherLives \subseteq PublisherLives'
      <4>1. 1 .. life[pub_] \subseteq 1 .. life'[pub_]
        <5>1. life[pub_] \in Nat /\ life'[pub_] \in Nat /\ life[pub_] <= life'[pub_]
          BY <2>3, <3>3, <3>4
        <5> QED BY <5>1
      <4> QED BY <2>5, <4>1
    <3>8. PICK a : a = IF s = pub_ THEN <<s, l + 1>> ELSE Bootstrap!NoAuthor
      OBVIOUS
    <3>9. authors' = [authors EXCEPT ![s] = a] /\ a \in PublisherLives' \cup {Bootstrap!NoAuthor}
      BY <3>1, <3>5, <3>8
    <3>10. owner' = [owner EXCEPT ![s] = owner[s]] /\ missing' = [missing EXCEPT ![s] = missing[s]]
      BY <2>7, <3>1
    <3> QED BY <2>1, <2>6, <3>1, <3>3, <3>4, <3>6, <3>7, <3>9, <3>10, SidecarKeeps
  <2>9. ASSUME UNCHANGED life PROVE PublisherLives' = PublisherLives
    BY <2>5, <2>9
  <2>10. CASE Bootstrap!Reannounce(s) \/ Bootstrap!HearsOf(s) \/ Bootstrap!PublishOwned(s) \/ Bootstrap!Killed(s)
    <3>1. /\ UNCHANGED <<life, owner, missing>> /\ (mode' = mode \/ mode' = [mode EXCEPT ![s] = "off"])
      BY <2>10 DEF Bootstrap!Reannounce, Bootstrap!HearsOf, Bootstrap!PublishOwned, Bootstrap!Killed
    <3>2. life' \in [Sidecar -> Nat] /\ mode' \in [Sidecar -> {"off", "coord", "ready"}]
          /\ \A r \in Sidecar : life[r] <= life'[r] /\ (mode'[r] # "off" => life'[r] >= 1)
      BY <2>3, <2>4, <3>1
    <3>3. PublisherLives' = PublisherLives
      BY <2>9, <3>1
    <3>4. owner' = [owner EXCEPT ![s] = owner[s]] /\ missing' = [missing EXCEPT ![s] = missing[s]]
      BY <2>7, <3>1
    <3>5. s = pub_ /\ mode[s] # "off" => Bootstrap!Me(s) \in PublisherLives
      BY <2>2, <2>4, <2>5 DEF Bootstrap!Me
    <3>6. CASE Bootstrap!HearsOf(s)
      <4>1. PICK a \in announced : authors' = [authors EXCEPT ![s] = a]
        BY <3>6 DEF Bootstrap!HearsOf
      <4>2. a \in PublisherLives /\ UNCHANGED <<announced, sent>>
        BY <1>0, <3>6 DEF OnlyThePublisher, Bootstrap!HearsOf
      <4> QED BY <2>1, <2>6, <3>2, <3>3, <3>4, <4>1, <4>2, SidecarKeeps
    <3>7. CASE Bootstrap!Reannounce(s) \/ Bootstrap!PublishOwned(s) \/ Bootstrap!Killed(s)
      <4>1. authors' = [authors EXCEPT ![s] = authors[s]]
        BY <2>7, <3>7 DEF Bootstrap!Reannounce, Bootstrap!PublishOwned, Bootstrap!Killed
      <4>2. announced' \subseteq announced \cup PublisherLives' /\ sent' \subseteq sent \cup PublisherLives'
        BY <2>2, <3>3, <3>5, <3>7 DEF Bootstrap!Reannounce, Bootstrap!PublishOwned, Bootstrap!Killed
      <4> QED BY <2>1, <2>6, <3>2, <3>3, <3>4, <4>1, <4>2, SidecarKeeps
    <3> QED BY <2>10, <3>6, <3>7
  <2>11. CASE Bootstrap!Settle(s)
    <3>1. PICK o : o = IF s \in plan.group \/ s = plan.publisher
                       THEN (IF authors[s] = Bootstrap!NoAuthor THEN Bootstrap!Me(s) ELSE authors[s])
                       ELSE Bootstrap!NoAuthor
      OBVIOUS
    <3>2. /\ mode[s] = "coord" /\ mode' = [mode EXCEPT ![s] = "ready"]
          /\ missing' = [missing EXCEPT ![s] = (authors[s] = Bootstrap!NoAuthor)]
          /\ owner' = [owner EXCEPT ![s] = o] /\ UNCHANGED <<life, announced, authors, sent>>
      BY <2>11, <3>1 DEF Bootstrap!Settle, Bootstrap!Unresolved
    <3>3. PublisherLives' = PublisherLives
      BY <2>9, <3>2
    <3>4. life' \in [Sidecar -> Nat] /\ mode' \in [Sidecar -> {"off", "coord", "ready"}]
          /\ \A r \in Sidecar : life[r] <= life'[r] /\ (mode'[r] # "off" => life'[r] >= 1)
      BY <2>3, <2>4, <3>2
    <3>5. o # Bootstrap!NoAuthor => s \notin plan.group \/ (authors[s] = Bootstrap!NoAuthor) \/ o \in PublisherLives
      BY <2>6, <3>1
    <3>6. authors' = [authors EXCEPT ![s] = authors[s]]
      BY <2>7, <3>2
    <3> QED BY <2>1, <2>6, <3>2, <3>3, <3>4, <3>5, <3>6, SidecarKeeps
  <2> QED BY <1>2, <2>8, <2>10, <2>11
<1> QED BY <1>1, <1>2, PlanKeeps DEF Bootstrap!CoordStep

\* A reader that listens to the publisher listens to the one life it had.
LEMMA ListensToThePublisher == CoordIInv => Bootstrap!ListensWhereItIsWritten
<1> SUFFICES ASSUME CoordIInv, NEW s \in plan.group, owner[s] # Bootstrap!NoAuthor, ~missing[s]
             PROVE  /\ owner[s][1] = plan.publisher
                    /\ life[plan.publisher] = 1 => \A a \in sent : a = owner[s]
  BY DEF Bootstrap!ListensWhereItIsWritten
<1>1. plan # Bootstrap!NoPlan
  BY DEF Bootstrap!NoPlan
<1>2. s \in Sidecar /\ plan.publisher \in Sidecar
  BY <1>1 DEF CoordIInv, PlanTypeOK
<1>3. owner[s] \in PublisherLives /\ sent \subseteq PublisherLives
  BY <1>2 DEF CoordIInv, OnlyThePublisher
<1>4. owner[s][1] = plan.publisher
  BY <1>3 DEF PublisherLives
<1>5. ASSUME life[plan.publisher] = 1 PROVE PublisherLives = {<<plan.publisher, 1>>}
  <2>1. 1 .. 1 = {1}
    OBVIOUS
  <2> QED BY <1>5, <2>1 DEF PublisherLives
<1> QED BY <1>3, <1>4, <1>5

\* A detector that fires means a restart, however many readers, sweeps and
\* messages there are; and a reader listens where its publisher writes, or its
\* ledger says that it does not know.
THEOREM DetectorsTellOfRestarts == ToolSpec => []DetectorsMeanRestarts
<1>1. ToolInit => SweepIInv /\ CoordIInv
  <2>1. Bootstrap!CoordInit => CoordIInv
    <3> SUFFICES ASSUME Bootstrap!CoordInit PROVE CoordIInv
      OBVIOUS
    <3>1. PlanTypeOK /\ NothingBeforeThePlan
      BY DEF Bootstrap!CoordInit, PlanTypeOK, NothingBeforeThePlan
    <3>2. OnlyThePublisher
      BY DEF Bootstrap!CoordInit, OnlyThePublisher
    <3> QED BY <3>1, <3>2 DEF CoordIInv
  <2> QED BY <2>1, SweepBegins DEF ToolInit
<1>2. [ToolNext]_toolVars => [Heads!SweepStep]_(Heads!sweepVars)
  BY DEF ToolNext, toolVars, Others, headsVs, Heads!sweepVars
<1>3. [ToolNext]_toolVars => [Bootstrap!CoordStep]_(Bootstrap!coordVars)
  BY DEF ToolNext, toolVars, Others, coordVs, Bootstrap!coordVars
<1>4. SweepIInv /\ CoordIInv /\ [ToolNext]_toolVars => SweepIInv' /\ CoordIInv'
  BY <1>2, <1>3, SweepKept, CoordKept
<1>5. SweepIInv /\ CoordIInv => DetectorsMeanRestarts
  BY DetectorsMean, ListensToThePublisher DEF DetectorsMeanRestarts
<1> QED BY <1>1, <1>4, <1>5, PTL DEF ToolSpec

-----------------------------------------------------------------------------
(* The council's gate.  The record of a reviewer is, of what was read, one  *)
(* of its latest verdicts; what was read does not change once the window is *)
(* closed.                                                                  *)

Vote == [engaged : BOOLEAN, verdict : Gate!Verdict, ts : Nat]

GateTypeOK ==
  /\ posts \in SUBSET Gate!Post /\ IsFiniteSet(posts) /\ read \subseteq posts
  /\ record \in [Reviewer -> Vote]

RecordIsLatest(v) ==
  /\ record[v].engaged <=> \E p \in read : p.signer = v
  /\ Gate!Stated(v) = {} => record[v].verdict = "none" /\ record[v].ts = 0
  /\ Gate!Stated(v) # {} => \E p \in Gate!Latest(v) : p.verdict = record[v].verdict /\ p.ts = record[v].ts

GateIsDecided ==
  /\ gate = "approved" => Gate!Ok(record)
  /\ gate = "blocked" => ~Gate!Ok(record)

GateIInv == GateTypeOK /\ (\A v \in Reviewer : RecordIsLatest(v)) /\ GateIsDecided

\* The size of a set is the same in the modules instantiated here.
LEMMA SizesAgree == ASSUME NEW S PROVE Gate!Cardinality(S) = Cardinality(S) /\ Scope!Cardinality(S) = Cardinality(S)
<1>1. Gate!Cardinality(S) = Cardinality(S)
  BY Zenon DEF Gate!Cardinality, Cardinality
<1>2. Scope!Cardinality(S) = Cardinality(S)
  BY SMT DEF Scope!Cardinality, Cardinality
<1> QED BY <1>1, <1>2

\* One post more, for the reviewer who signed it.
LEMMA VoteHeard ==
  ASSUME GateIInv, NEW p \in Gate!Post, p.signer \in Reviewer, read' = read \cup {p},
         record' = [record EXCEPT ![p.signer] = Gate!Heard(@, p)]
  PROVE  record' \in [Reviewer -> Vote] /\ RecordIsLatest(p.signer)'
<1>1. PICK v, c : v = p.signer /\ c = record[v]
  OBVIOUS
<1>2. GateTypeOK /\ v \in Reviewer /\ RecordIsLatest(v) /\ p.verdict \in Gate!Verdict /\ p.ts \in Nat \ {0}
  BY <1>1 DEF GateIInv, Gate!Post, GateTypeOK
<1>3. c \in Vote /\ c.ts \in Nat /\ c.verdict \in Gate!Verdict
  BY <1>1, <1>2 DEF GateTypeOK, Vote
<1>4. PICK d : d = Gate!Heard(c, p)
  OBVIOUS
<1>5. /\ d.engaged = TRUE
      /\ d.verdict = (IF p.verdict # "none" /\ p.ts >= c.ts THEN p.verdict ELSE c.verdict)
      /\ d.ts = (IF p.verdict # "none" /\ p.ts >= c.ts THEN p.ts ELSE c.ts)
  BY <1>4 DEF Gate!Heard
<1>6. d \in Vote
  BY <1>2, <1>3, <1>4 DEF Gate!Heard, Vote
<1>7. record' = [record EXCEPT ![v] = d]
  BY <1>1, <1>4
<1>8. record' \in [Reviewer -> Vote] /\ record'[v] = d
  BY <1>2, <1>6, <1>7 DEF GateTypeOK
<1>9. \A q \in read : q.ts \in Nat
  BY <1>2 DEF GateTypeOK, Gate!Post
<1>10. Gate!Stated(v)' = Gate!Stated(v) \cup (IF p.verdict # "none" THEN {p} ELSE {})
  BY <1>1 DEF Gate!Stated
<1>11. CASE p.verdict = "none"
  <2>1. Gate!Stated(v)' = Gate!Stated(v) /\ d.verdict = c.verdict /\ d.ts = c.ts
    BY <1>5, <1>10, <1>11
  <2>2. Gate!Latest(v)' = Gate!Latest(v)
    BY <2>1 DEF Gate!Latest
  <2>3. RecordIsLatest(v)'
    BY <1>1, <1>2, <1>5, <1>8, <2>1, <2>2 DEF RecordIsLatest
  <2> QED BY <1>1, <1>8, <2>3
<1>12. CASE p.verdict # "none" /\ p.ts >= c.ts
  <2>1. Gate!Stated(v)' = Gate!Stated(v) \cup {p} /\ d.verdict = p.verdict /\ d.ts = p.ts
    BY <1>5, <1>10, <1>12
  <2>2. \A q \in Gate!Stated(v) : q.ts <= c.ts
    BY <1>1, <1>2, <1>3 DEF RecordIsLatest, Gate!Latest
  <2>3. \A q \in Gate!Stated(v) : q.ts \in Nat
    BY <1>9 DEF Gate!Stated
  <2>4. \A q \in Gate!Stated(v)' : q.ts <= p.ts
    BY <1>2, <1>3, <1>12, <2>1, <2>2, <2>3
  <2>5. p \in Gate!Latest(v)'
    BY <2>1, <2>4 DEF Gate!Latest
  <2>6. RecordIsLatest(v)'
    BY <1>1, <1>5, <1>8, <2>1, <2>5 DEF RecordIsLatest
  <2> QED BY <1>1, <1>8, <2>6
<1>13. CASE p.verdict # "none" /\ ~(p.ts >= c.ts)
  <2>1. Gate!Stated(v)' = Gate!Stated(v) \cup {p} /\ d.verdict = c.verdict /\ d.ts = c.ts
    BY <1>5, <1>10, <1>13
  <2>2. Gate!Stated(v) # {}
    BY <1>1, <1>2, <1>3, <1>13 DEF RecordIsLatest
  <2>3. PICK q \in Gate!Latest(v) : q.verdict = c.verdict /\ q.ts = c.ts
    BY <1>1, <1>2, <2>2 DEF RecordIsLatest
  <2>4. q \in Gate!Stated(v)' /\ \A x \in Gate!Stated(v)' : x.ts <= q.ts
    BY <1>2, <1>3, <1>13, <2>1, <2>3 DEF Gate!Latest
  <2>5. q \in Gate!Latest(v)'
    BY <2>4 DEF Gate!Latest
  <2>6. RecordIsLatest(v)'
    BY <1>1, <1>5, <1>8, <2>1, <2>3, <2>5 DEF RecordIsLatest
  <2> QED BY <1>1, <1>8, <2>6
<1> QED BY <1>11, <1>12, <1>13

\* Every step of the reviewers and of the gate keeps the invariant.
LEMMA GateKept == ASSUME GateIInv, [Gate!GateStep]_(Gate!gateVars) PROVE GateIInv'
<1>0. GateTypeOK /\ (\A v \in Reviewer : RecordIsLatest(v)) /\ GateIsDecided
  BY DEF GateIInv
<1>1. ASSUME UNCHANGED <<read, record>> PROVE \A v \in Reviewer : RecordIsLatest(v)'
  BY <1>0, <1>1 DEF RecordIsLatest, Gate!Stated, Gate!Latest
<1>2. CASE UNCHANGED Gate!gateVars
  <2>1. UNCHANGED <<posts, read, record, gate>>
    BY <1>2 DEF Gate!gateVars
  <2> QED BY <1>0, <1>1, <2>1 DEF GateIInv, GateTypeOK, GateIsDecided, Gate!Ok
<1>3. ASSUME NEW p \in Gate!Post, Gate!Say(p) PROVE GateIInv'
  <2>1. posts' = posts \cup {p} /\ UNCHANGED <<read, record, gate>>
    BY <1>3 DEF Gate!Say
  <2>2. IsFiniteSet(posts')
    BY <1>0, <2>1, FS_AddElement DEF GateTypeOK
  <2> QED BY <1>0, <1>1, <2>1, <2>2 DEF GateIInv, GateTypeOK, GateIsDecided, Gate!Ok
<1>4. CASE Gate!Override \/ Gate!Connect
  <2>1. UNCHANGED <<posts, read, record>> /\ gate' \notin {"approved", "blocked"}
    BY <1>4 DEF Gate!Override, Gate!Connect
  <2> QED BY <1>0, <1>1, <2>1 DEF GateIInv, GateTypeOK, GateIsDecided
<1>5. CASE Gate!CloseWindow
  <2>1. UNCHANGED <<posts, read, record>> /\ gate' = IF Gate!Ok(record) THEN "approved" ELSE "blocked"
    BY <1>5 DEF Gate!CloseWindow
  <2>2. GateIsDecided'
    BY <2>1 DEF GateIsDecided
  <2> QED BY <1>0, <1>1, <2>1, <2>2 DEF GateIInv, GateTypeOK
<1>6. ASSUME NEW p \in Gate!Post, Gate!Arrives(p) PROVE GateIInv'
  <2>1. gate = "reading" /\ p \in posts /\ read' = read \cup {p} /\ UNCHANGED <<posts, gate>>
    BY <1>6 DEF Gate!Arrives
  <2>2. GateIsDecided'
    BY <2>1 DEF GateIsDecided
  <2>3. ASSUME NEW v \in Reviewer, v # p.signer, record'[v] = record[v] PROVE RecordIsLatest(v)'
    <3>1. Gate!Stated(v)' = Gate!Stated(v) /\ Gate!Latest(v)' = Gate!Latest(v)
      BY <2>1, <2>3 DEF Gate!Stated, Gate!Latest
    <3>2. (\E q \in read' : q.signer = v) <=> (\E q \in read : q.signer = v)
      BY <2>1, <2>3
    <3> QED BY <1>0, <2>3, <3>1, <3>2 DEF RecordIsLatest
  <2>4. CASE p.signer \in Reviewer
    <3>1. record' = [record EXCEPT ![p.signer] = Gate!Heard(@, p)]
      BY <1>6, <2>4 DEF Gate!Arrives
    <3>2. record' \in [Reviewer -> Vote] /\ RecordIsLatest(p.signer)'
      BY <2>1, <2>4, <3>1, VoteHeard
    <3>3. \A v \in Reviewer : v # p.signer => record'[v] = record[v]
      BY <1>0, <3>1 DEF GateTypeOK
    <3>4. \A v \in Reviewer : RecordIsLatest(v)'
      BY <2>3, <3>2, <3>3
    <3> QED BY <1>0, <2>1, <2>2, <3>2, <3>4 DEF GateIInv, GateTypeOK
  <2>5. CASE p.signer \notin Reviewer
    <3>1. record' = record
      BY <1>6, <2>5 DEF Gate!Arrives
    <3>2. \A v \in Reviewer : RecordIsLatest(v)'
      BY <2>3, <2>5, <3>1
    <3> QED BY <1>0, <2>1, <2>2, <3>1, <3>2 DEF GateIInv, GateTypeOK
  <2> QED BY <2>4, <2>5
<1> QED BY <1>2, <1>3, <1>4, <1>5, <1>6 DEF Gate!GateStep

\* What the gate decided on its record it decided on what was read.
LEMMA GateDecidesOnPosts == GateIInv => Gate!ApprovesWhatStands
<1> SUFFICES ASSUME GateIInv PROVE Gate!ApprovesWhatStands
  OBVIOUS
<1>0. GateTypeOK /\ (\A v \in Reviewer : RecordIsLatest(v)) /\ GateIsDecided
  BY DEF GateIInv
<1> DEFINE spoke == {v \in Reviewer : \E p \in read : p.signer = v}
<1>1. spoke = {v \in Reviewer : record[v].engaged}
  BY <1>0 DEF RecordIsLatest
<1>2. ASSUME NEW v \in Reviewer, record[v].verdict = "APPROVED"
      PROVE  \E p \in Gate!Latest(v) : p.verdict = "APPROVED"
  <2>1. Gate!Stated(v) # {}
    BY <1>0, <1>2 DEF RecordIsLatest
  <2> QED BY <1>0, <1>2, <2>1 DEF RecordIsLatest
<1>3. ASSUME NEW v \in Reviewer, record[v].verdict # "APPROVED"
      PROVE  Cardinality(Gate!Latest(v)) > 1 \/ \A p \in Gate!Latest(v) : p.verdict # "APPROVED"
  <2> SUFFICES ASSUME NEW p \in Gate!Latest(v), p.verdict = "APPROVED" PROVE Cardinality(Gate!Latest(v)) > 1
    OBVIOUS
  <2>1. Gate!Stated(v) # {}
    BY DEF Gate!Latest
  <2>2. PICK q \in Gate!Latest(v) : q.verdict = record[v].verdict
    BY <1>0, <2>1 DEF RecordIsLatest
  <2>3. q # p
    BY <1>3, <2>2
  <2>4. Gate!Latest(v) \subseteq posts /\ IsFiniteSet(posts)
    BY <1>0 DEF GateTypeOK, Gate!Latest, Gate!Stated
  <2>5. IsFiniteSet(Gate!Latest(v))
    BY <2>4, FS_Subset
  <2>6. IsFiniteSet({q}) /\ Cardinality({q}) = 1
    BY FS_Singleton
  <2>7. IsFiniteSet({q} \cup {p}) /\ Cardinality({q} \cup {p}) = 2
    <3>1. p \notin {q}
      BY <2>3
    <3>2. /\ IsFiniteSet({q} \cup {p})
          /\ Cardinality({q} \cup {p}) = IF p \in {q} THEN Cardinality({q}) ELSE Cardinality({q}) + 1
      BY <2>6, FS_AddElement, Zenon
    <3> QED BY <2>6, <3>1, <3>2
  <2>8. {q} \cup {p} \in SUBSET Gate!Latest(v)
    BY <2>2
  <2>9. Cardinality({q} \cup {p}) <= Cardinality(Gate!Latest(v))
    BY <2>5, <2>8, FS_Subset
  <2>10. Cardinality(Gate!Latest(v)) \in Nat
    BY <2>5, FS_CardinalityType
  <2> QED BY <2>7, <2>9, <2>10
<1>4. gate = "approved" => spoke # {} /\ \A v \in spoke : \E p \in Gate!Latest(v) : p.verdict = "APPROVED"
  BY <1>0, <1>1, <1>2 DEF GateIsDecided, Gate!Ok
<1>5. gate = "blocked" =>
        spoke = {} \/ \E v \in spoke : \/ Cardinality(Gate!Latest(v)) > 1
                                       \/ \A p \in Gate!Latest(v) : p.verdict # "APPROVED"
  <2> SUFFICES ASSUME gate = "blocked", spoke # {}
               PROVE  \E v \in spoke : \/ Cardinality(Gate!Latest(v)) > 1
                                       \/ \A p \in Gate!Latest(v) : p.verdict # "APPROVED"
    OBVIOUS
  <2>1. \E v \in Reviewer : record[v].engaged
    BY <1>1
  <2>2. PICK v \in Reviewer : record[v].engaged /\ record[v].verdict # "APPROVED"
    BY <1>0, <2>1 DEF GateIsDecided, Gate!Ok
  <2> QED BY <1>1, <1>3, <2>2
<1>6. \A v \in Reviewer : Gate!Cardinality(Gate!Latest(v)) = Cardinality(Gate!Latest(v))
  BY SizesAgree
<1> QED BY <1>4, <1>5, <1>6 DEF Gate!ApprovesWhatStands

\* Nobody has said anything when the gate is idle.
LEMMA GateBegins == Gate!GateInit => GateIInv
<1> SUFFICES ASSUME Gate!GateInit PROVE GateIInv
  OBVIOUS
<1>1. Gate!Unheard \in Vote /\ Gate!Unheard.engaged = FALSE /\ Gate!Unheard.verdict = "none" /\ Gate!Unheard.ts = 0
  BY DEF Gate!Unheard, Vote, Gate!Verdict
<1>2. GateTypeOK
  BY <1>1, FS_EmptySet DEF Gate!GateInit, GateTypeOK
<1>3. ASSUME NEW v \in Reviewer PROVE RecordIsLatest(v)
  <2>1. record[v] = Gate!Unheard /\ read = {}
    BY DEF Gate!GateInit
  <2> QED BY <1>1, <2>1 DEF RecordIsLatest, Gate!Stated
<1>4. GateIsDecided
  BY DEF Gate!GateInit, GateIsDecided
<1> QED BY <1>2, <1>3, <1>4 DEF GateIInv
-----------------------------------------------------------------------------
(* The council's scope.  Of a command: its reasons are those of             *)
(* deployReasons.  Of a text: no letter is lost while no quote is left      *)
(* open, each separator is one that was typed, and a word is the shell's    *)
(* own for a $ or a quote only.                                             *)

WordRec == [begun : BOOLEAN, letters : Nat, body : Nat, dynamic : BOOLEAN]
Quoting == {"bare", "escape", "single", "double", "escapeInDouble", "end"}
HasDynamic == \E i \in DOMAIN words : words[i].begun /\ words[i].dynamic

TextTypeOK == typed \in Seq(Scope!Chars) /\ quoting \in Quoting /\ word \in WordRec /\ words \in Seq(WordRec)

WordBegun ==
  /\ ~word.begun => word.letters = 0 /\ ~word.dynamic
  /\ quoting = "single" => word.begun
  /\ quoting # "single" => word.body = 0
  /\ quoting = "end" => word.letters = 0 /\ ~word.dynamic

LettersKept ==
  quoting # "end" \/ ~HasDynamic =>
    Cardinality(Scope!LettersOf(words)) + word.letters + word.body >= Cardinality(Scope!Typed({"letter"}))

SeparatorsTyped ==
  Cardinality(DOMAIN words \ Scope!WordIn(words)) <= Cardinality(Scope!Typed({"sep"}))

PlainIsPlain ==
  Scope!Typed({"dollar", "single", "double"}) = {} =>
    quoting \in {"bare", "escape", "end"} /\ ~word.dynamic /\ ~HasDynamic

DollarShows ==
  Scope!Typed({"single", "escape"}) = {} =>
    /\ quoting \in {"bare", "double", "end"}
    /\ Scope!Typed({"dollar"}) # {} => word.dynamic \/ HasDynamic

TextIInv ==
  /\ TextTypeOK /\ IsFiniteSet(Scope!LettersOf(words))
  /\ WordBegun /\ LettersKept /\ SeparatorsTyped /\ PlainIsPlain /\ DollarShows

JudgedAsSaid ==
  reasons # "none" =>
    /\ command.hops \in Seq(Scope!Host) /\ command.work \in Scope!Works
    /\ reasons = IF Scope!deployReasons(command) THEN "gated" ELSE "free"

WordIs(v, b, l, d, y) == v \in WordRec /\ v.begun = b /\ v.letters = l /\ v.body = d /\ v.dynamic = y

\* What a character does to a word.
LEMMA WordChanges ==
  ASSUME NEW v \in WordRec
  PROVE  /\ WordIs(Scope!Begun(v), TRUE, v.letters, v.body, v.dynamic)
         /\ WordIs(Scope!Letter(v), TRUE, v.letters + 1, v.body, v.dynamic)
         /\ WordIs(Scope!Dynamic(v), TRUE, v.letters, v.body, TRUE)
         /\ WordIs(Scope!Dynamic(Scope!Letter(v)), TRUE, v.letters + 1, v.body, TRUE)
         /\ WordIs(Scope!Body(v), v.begun, v.letters, v.body + 1, v.dynamic)
         /\ WordIs(Scope!Close(v), v.begun, v.letters + v.body, 0, v.dynamic)
         /\ WordIs(Scope!NoWord, FALSE, 0, 0, FALSE)
<1>1. ASSUME NEW x \in WordRec PROVE WordIs(Scope!Begun(x), TRUE, x.letters, x.body, x.dynamic)
  BY DEF WordIs, Scope!Begun, WordRec
<1>2. ASSUME NEW x \in WordRec PROVE WordIs(Scope!Letter(x), TRUE, x.letters + 1, x.body, x.dynamic)
  <2>1. PICK u : u = Scope!Begun(x)
    OBVIOUS
  <2>2. u \in WordRec /\ u.begun = TRUE /\ u.letters = x.letters /\ u.body = x.body /\ u.dynamic = x.dynamic
    BY <1>1, <2>1 DEF WordIs
  <2>3. Scope!Letter(x) = [u EXCEPT !.letters = u.letters + 1]
    BY <2>1 DEF Scope!Letter
  <2> QED BY <2>2, <2>3 DEF WordIs, WordRec
<1>3. ASSUME NEW x \in WordRec PROVE WordIs(Scope!Dynamic(x), TRUE, x.letters, x.body, TRUE)
  <2>1. PICK u : u = Scope!Begun(x)
    OBVIOUS
  <2>2. u \in WordRec /\ u.begun = TRUE /\ u.letters = x.letters /\ u.body = x.body
    BY <1>1, <2>1 DEF WordIs
  <2>3. Scope!Dynamic(x) = [u EXCEPT !.dynamic = TRUE]
    BY <2>1 DEF Scope!Dynamic
  <2> QED BY <2>2, <2>3 DEF WordIs, WordRec
<1>4. WordIs(Scope!Dynamic(Scope!Letter(v)), TRUE, v.letters + 1, v.body, TRUE)
  <2>1. PICK u : u = Scope!Letter(v)
    OBVIOUS
  <2>2. u \in WordRec /\ u.letters = v.letters + 1 /\ u.body = v.body
    BY <1>2, <2>1 DEF WordIs
  <2>3. WordIs(Scope!Dynamic(u), TRUE, u.letters, u.body, TRUE)
    BY <1>3, <2>2
  <2> QED BY <2>1, <2>2, <2>3
<1>5. WordIs(Scope!Body(v), v.begun, v.letters, v.body + 1, v.dynamic)
  BY DEF WordIs, Scope!Body, WordRec
<1>6. WordIs(Scope!Close(v), v.begun, v.letters + v.body, 0, v.dynamic)
  <2>1. PICK l : l = v.letters + v.body
    OBVIOUS
  <2>2. l \in Nat
    BY <2>1 DEF WordRec
  <2>3. Scope!Close(v) = [v EXCEPT !.letters = l, !.body = 0]
    BY <2>1 DEF Scope!Close
  <2>4. PICK u : u = [v EXCEPT !.letters = l]
    OBVIOUS
  <2>5. u \in WordRec /\ u.begun = v.begun /\ u.letters = l /\ u.dynamic = v.dynamic
    BY <2>2, <2>4 DEF WordRec
  <2>6. Scope!Close(v) = [u EXCEPT !.body = 0]
    BY <2>3, <2>4 DEF WordRec
  <2>7. WordIs(Scope!Close(v), v.begun, l, 0, v.dynamic)
    BY <2>5, <2>6 DEF WordIs, WordRec
  <2> QED BY <2>1, <2>7
<1>7. WordIs(Scope!NoWord, FALSE, 0, 0, FALSE)
  BY DEF WordIs, Scope!NoWord, WordRec
<1> QED BY <1>1, <1>2, <1>3, <1>4, <1>5, <1>6, <1>7

\* There are finitely many characters of a kind.
LEMMA TypedIsFinite ==
  ASSUME typed \in Seq(Scope!Chars), NEW C
  PROVE  IsFiniteSet(Scope!Typed(C)) /\ Cardinality(Scope!Typed(C)) \in Nat
<1>1. Scope!Typed(C) \in SUBSET (1 .. Len(typed)) /\ Len(typed) \in Nat
  BY DEF Scope!Typed
<1>2. IsFiniteSet(1 .. Len(typed))
  BY <1>1, FS_Interval
<1>3. IsFiniteSet(Scope!Typed(C))
  BY <1>1, <1>2, FS_Subset
<1> QED BY <1>3, FS_CardinalityType

\* The characters of a kind, after one more.
LEMMA OneMoreTyped ==
  ASSUME typed \in Seq(Scope!Chars), NEW c \in Scope!Chars, typed' = Append(typed, c), NEW C
  PROVE  /\ Scope!Typed(C)' = {} <=> Scope!Typed(C) = {} /\ c \notin C
         /\ Cardinality(Scope!Typed(C)) \in Nat
         /\ Cardinality(Scope!Typed(C)') = Cardinality(Scope!Typed(C)) + IF c \in C THEN 1 ELSE 0
<1> DEFINE n == Len(typed)
<1>1. n \in Nat /\ DOMAIN typed = 1 .. n /\ DOMAIN typed' = 1 .. (n + 1) /\ typed'[n + 1] = c
  OBVIOUS
<1>2. \A i \in 1 .. n : typed'[i] = typed[i]
  OBVIOUS
<1> HIDE DEF n
<1>3. Scope!Typed(C)' = Scope!Typed(C) \cup IF c \in C THEN {n + 1} ELSE {}
  BY <1>1, <1>2 DEF Scope!Typed
<1>4. Scope!Typed(C) \in SUBSET (1 .. n) /\ n + 1 \notin Scope!Typed(C)
  BY <1>1 DEF Scope!Typed
<1>5. IsFiniteSet(1 .. n)
  BY <1>1, FS_Interval
<1>6. IsFiniteSet(Scope!Typed(C))
  BY <1>4, <1>5, FS_Subset
<1>7. Cardinality(Scope!Typed(C)) \in Nat
  BY <1>6, FS_CardinalityType
<1>8. Cardinality(Scope!Typed(C) \cup {n + 1}) = Cardinality(Scope!Typed(C)) + 1
  BY <1>4, <1>6, FS_AddElement
<1>9. CASE c \in C
  BY <1>3, <1>7, <1>8, <1>9
<1>10. CASE c \notin C
  <2>1. Scope!Typed(C)' = Scope!Typed(C)
    BY <1>3, <1>10
  <2> QED BY <1>7, <1>10, <2>1
<1> QED BY <1>9, <1>10

\* The letters of one word are as many as it has.
LEMMA LettersOfOne ==
  ASSUME NEW i, NEW n \in Nat
  PROVE  IsFiniteSet({i} \X (1 .. n)) /\ Cardinality({i} \X (1 .. n)) = n
<1> DEFINE f == [k \in 1 .. n |-> <<i, k>>]
<1>1. f \in [1 .. n -> {i} \X (1 .. n)]
  OBVIOUS
<1>2. \A a, b \in 1 .. n : f[a] = f[b] => a = b
  OBVIOUS
<1>3. \A y \in {i} \X (1 .. n) : \E k \in 1 .. n : f[k] = y
  OBVIOUS
<1> HIDE DEF f
<1>4. f \in Injection(1 .. n, {i} \X (1 .. n)) /\ f \in Surjection(1 .. n, {i} \X (1 .. n))
  BY <1>1, <1>2, <1>3 DEF Injection, Surjection, IsInjective
<1>41. ExistsBijection(1 .. n, {i} \X (1 .. n))
  BY <1>4 DEF ExistsBijection, Bijection
<1>5. IsFiniteSet(1 .. n) /\ Cardinality(1 .. n) = n
  BY FS_Interval
<1> QED BY <1>41, <1>5, FS_Bijection

Flows(ws) == ws \in Seq(WordRec) /\ IsFiniteSet(Scope!LettersOf(ws))
Kept(ws) == Cardinality(Scope!LettersOf(ws))
Separators(ws) == Cardinality(DOMAIN ws \ Scope!WordIn(ws))
Shells(ws) == \E i \in DOMAIN ws : ws[i].begun /\ ws[i].dynamic

\* One word more: its letters, and whether it is a word at all.
LEMMA OneMoreWord ==
  ASSUME NEW ws, Flows(ws), NEW v \in WordRec, v.begun \/ v.letters = 0
  PROVE  /\ Flows(Append(ws, v)) /\ Kept(ws) \in Nat /\ Kept(Append(ws, v)) = Kept(ws) + v.letters
         /\ Separators(ws) \in Nat /\ Separators(Append(ws, v)) = Separators(ws) + IF v.begun THEN 0 ELSE 1
         /\ Shells(Append(ws, v)) <=> Shells(ws) \/ (v.begun /\ v.dynamic)
<1>0. ws \in Seq(WordRec) /\ IsFiniteSet(Scope!LettersOf(ws))
  BY DEF Flows
<1> DEFINE n == Len(ws)
           xs == Append(ws, v)
<1>1. n \in Nat /\ DOMAIN ws = 1 .. n /\ DOMAIN xs = 1 .. (n + 1) /\ xs[n + 1] = v /\ xs \in Seq(WordRec)
  BY <1>0
<1>2. \A i \in 1 .. n : xs[i] = ws[i]
  BY <1>0
<1>3. v.letters \in Nat
  BY DEF WordRec
<1> HIDE DEF n, xs
<1>4. Scope!WordIn(xs) = Scope!WordIn(ws) \cup IF v.begun THEN {n + 1} ELSE {}
  BY <1>1, <1>2 DEF Scope!WordIn
<1>5. Scope!WordIn(ws) \subseteq 1 .. n
  BY <1>1 DEF Scope!WordIn
<1>6. Cardinality(Scope!LettersOf(ws)) \in Nat
  BY <1>0, FS_CardinalityType
<1>7. IsFiniteSet(Scope!LettersOf(xs)) /\ Cardinality(Scope!LettersOf(xs)) = Cardinality(Scope!LettersOf(ws)) + v.letters
  <2>1. CASE v.begun
    <3>1. Scope!LettersOf(xs) = Scope!LettersOf(ws) \cup ({n + 1} \X (1 .. v.letters))
      <4>1. \A i \in Scope!WordIn(ws) : xs[i] = ws[i]
        BY <1>2, <1>5
      <4>2. Scope!WordIn(xs) = Scope!WordIn(ws) \cup {n + 1}
        BY <1>4, <2>1
      <4> QED BY <1>1, <4>1, <4>2 DEF Scope!LettersOf
    <3>2. \A x \in Scope!LettersOf(ws) : x[1] \in Scope!WordIn(ws)
      BY DEF Scope!LettersOf
    <3>3. n + 1 \notin Scope!WordIn(ws)
      BY <1>1, <1>5
    <3>4. Scope!LettersOf(ws) \cap ({n + 1} \X (1 .. v.letters)) = {}
      BY <3>2, <3>3
    <3>5. IsFiniteSet({n + 1} \X (1 .. v.letters)) /\ Cardinality({n + 1} \X (1 .. v.letters)) = v.letters
      BY <1>3, LettersOfOne
    <3>6. /\ IsFiniteSet(Scope!LettersOf(ws) \cup ({n + 1} \X (1 .. v.letters)))
          /\ Cardinality(Scope!LettersOf(ws) \cup ({n + 1} \X (1 .. v.letters))) =
               Cardinality(Scope!LettersOf(ws)) + Cardinality({n + 1} \X (1 .. v.letters))
                 - Cardinality(Scope!LettersOf(ws) \cap ({n + 1} \X (1 .. v.letters)))
      BY <1>0, <3>5, FS_Union
    <3>7. Cardinality(Scope!LettersOf(ws) \cap ({n + 1} \X (1 .. v.letters))) = 0
      BY <3>4, FS_EmptySet
    <3> QED BY <1>3, <1>6, <3>1, <3>5, <3>6, <3>7
  <2>2. CASE ~v.begun
    <3>1. Scope!WordIn(xs) = Scope!WordIn(ws) /\ \A i \in Scope!WordIn(ws) : xs[i] = ws[i]
      BY <1>2, <1>4, <1>5, <2>2
    <3>2. Scope!LettersOf(xs) = Scope!LettersOf(ws)
      BY <3>1 DEF Scope!LettersOf
    <3> QED BY <1>0, <1>6, <2>2, <3>2
  <2> QED BY <2>1, <2>2
<1>8. /\ Cardinality(DOMAIN ws \ Scope!WordIn(ws)) \in Nat
      /\ Cardinality(DOMAIN xs \ Scope!WordIn(xs)) = Cardinality(DOMAIN ws \ Scope!WordIn(ws)) + IF v.begun THEN 0 ELSE 1
  <2>1. IsFiniteSet(1 .. n)
    BY <1>1, FS_Interval
  <2>2. IsFiniteSet(DOMAIN ws \ Scope!WordIn(ws)) /\ n + 1 \notin DOMAIN ws \ Scope!WordIn(ws)
    BY <1>1, <2>1, FS_Subset
  <2>3. Cardinality(DOMAIN ws \ Scope!WordIn(ws)) \in Nat
    BY <2>2, FS_CardinalityType
  <2>4. DOMAIN xs \ Scope!WordIn(xs) = (DOMAIN ws \ Scope!WordIn(ws)) \cup IF v.begun THEN {} ELSE {n + 1}
    BY <1>1, <1>4, <1>5
  <2>5. Cardinality((DOMAIN ws \ Scope!WordIn(ws)) \cup {n + 1}) = Cardinality(DOMAIN ws \ Scope!WordIn(ws)) + 1
    BY <2>2, FS_AddElement
  <2>6. CASE v.begun
    <3>1. DOMAIN xs \ Scope!WordIn(xs) = DOMAIN ws \ Scope!WordIn(ws)
      BY <2>4, <2>6
    <3>2. (IF v.begun THEN 0 ELSE 1) = 0
      BY <2>6
    <3>3. Cardinality(DOMAIN xs \ Scope!WordIn(xs)) = Cardinality(DOMAIN ws \ Scope!WordIn(ws))
      BY <3>1
    <3> QED BY <2>3, <3>2, <3>3
  <2>7. CASE ~v.begun
    BY <2>3, <2>4, <2>5, <2>7
  <2> QED BY <2>6, <2>7
<1>9. Shells(xs) <=> Shells(ws) \/ (v.begun /\ v.dynamic)
  BY <1>1, <1>2 DEF Shells
<1>10. Flows(xs) /\ Kept(ws) \in Nat /\ Kept(xs) = Kept(ws) + v.letters
  BY <1>1, <1>6, <1>7 DEF Flows, Kept
<1>11. Separators(ws) \in Nat /\ Separators(xs) = Separators(ws) + IF v.begun THEN 0 ELSE 1
  BY <1>8 DEF Separators
<1> QED BY <1>9, <1>10, <1>11 DEF xs
\* What the end of a word makes of the words.
LEMMA WordsFlush ==
  ASSUME TextIInv
  PROVE  /\ Flows(Scope!Flushed) /\ Kept(Scope!Flushed) = Kept(words) + word.letters
         /\ Separators(Scope!Flushed) = Separators(words) /\ Separators(words) \in Nat /\ Kept(words) \in Nat
         /\ Shells(Scope!Flushed) <=> HasDynamic \/ word.dynamic
<1>1. /\ words \in Seq(WordRec) /\ word \in WordRec /\ IsFiniteSet(Scope!LettersOf(words))
      /\ ~word.begun => word.letters = 0 /\ ~word.dynamic
  BY DEF TextIInv, TextTypeOK, WordBegun
<1>2. word.begun \in BOOLEAN /\ word.letters \in Nat
  BY <1>1 DEF WordRec
<1>3. /\ Kept(words) \in Nat /\ Separators(words) \in Nat
      /\ Flows(Append(words, word)) /\ Kept(Append(words, word)) = Kept(words) + word.letters
      /\ Separators(Append(words, word)) = Separators(words) + IF word.begun THEN 0 ELSE 1
      /\ Shells(Append(words, word)) <=> HasDynamic \/ (word.begun /\ word.dynamic)
  <2>1. Flows(words) /\ (Shells(words) <=> HasDynamic)
    BY <1>1 DEF Flows, Shells, HasDynamic
  <2> QED BY <1>1, <1>2, <2>1, OneMoreWord
<1>4. CASE word.begun
  BY <1>3, <1>4 DEF Scope!Flushed
<1>5. CASE ~word.begun
  <2>1. Scope!Flushed = words /\ word.letters = 0 /\ ~word.dynamic
    BY <1>1, <1>5 DEF Scope!Flushed
  <2>2. Flows(words) /\ (Shells(words) <=> HasDynamic)
    BY <1>1 DEF Flows, Shells, HasDynamic
  <2> QED BY <1>3, <2>1, <2>2
<1> QED BY <1>2, <1>4, <1>5

Grown(c) == IF c = "dollar" THEN TRUE ELSE word.dynamic

\* The forms of a step that reads a character: it ends a word, or reads into one.
WordEnds(c) ==
  /\ quoting = "bare" /\ quoting' = "bare" /\ word' = Scope!NoWord
  /\ \/ c = "space" /\ words' = Scope!Flushed
     \/ c = "sep" /\ words' = Append(Scope!Flushed, Scope!NoWord)

BareReads(c) ==
  \/ quoting' = "bare" /\ c \in {"letter", "dollar"} /\ WordIs(word', TRUE, word.letters + 1, word.body, Grown(c))
  \/ quoting' = "escape" /\ c = "escape" /\ word' = word
  \/ quoting' = c /\ c \in {"single", "double"} /\ WordIs(word', TRUE, word.letters, word.body, word.dynamic)

SingleReads(c) ==
  \/ quoting' = "bare" /\ c = "single" /\ WordIs(word', word.begun, word.letters + word.body, 0, word.dynamic)
  \/ quoting' = "single" /\ c # "single" /\ WordIs(word', word.begun, word.letters, word.body + 1, word.dynamic)

DoubleReads(c) ==
  \/ quoting' = "bare" /\ c = "double" /\ word' = word
  \/ quoting' = "escapeInDouble" /\ c = "escape" /\ word' = word
  \/ quoting' = "double" /\ c \notin {"double", "escape"}
     /\ WordIs(word', TRUE, word.letters + 1, word.body, Grown(c))

EscapeReads == WordIs(word', TRUE, word.letters + 1, word.body, word.dynamic)

WordReads(c) ==
  /\ words' = words
  /\ \/ quoting = "bare" /\ BareReads(c)
     \/ quoting = "single" /\ SingleReads(c)
     \/ quoting = "double" /\ DoubleReads(c)
     \/ quoting = "escape" /\ quoting' = "bare" /\ EscapeReads
     \/ quoting = "escapeInDouble" /\ quoting' = "double" /\ EscapeReads

\* Each character typed either ends the word or is read into it: Type, by what it does to the two.
LEMMA TypeForms ==
  ASSUME TextTypeOK, NEW c \in Scope!Chars, Scope!Type(c)
  PROVE  WordEnds(c) \/ WordReads(c)
<1>0. word \in WordRec
  BY DEF TextTypeOK
<1>1. /\ WordIs(Scope!Begun(word), TRUE, word.letters, word.body, word.dynamic)
      /\ WordIs(Scope!Letter(word), TRUE, word.letters + 1, word.body, word.dynamic)
      /\ WordIs(Scope!Dynamic(Scope!Letter(word)), TRUE, word.letters + 1, word.body, TRUE)
      /\ WordIs(Scope!Body(word), word.begun, word.letters, word.body + 1, word.dynamic)
      /\ WordIs(Scope!Close(word), word.begun, word.letters + word.body, 0, word.dynamic)
  BY <1>0, WordChanges
<1>2. CASE Scope!InBare(c)
  <2>1. CASE c = "letter"
    <3>1. quoting = "bare" /\ quoting' = "bare" /\ words' = words /\ word' = Scope!Letter(word)
      BY <1>2, <2>1 DEF Scope!InBare
    <3> QED BY <1>1, <2>1, <3>1 DEF Grown, WordReads, BareReads
  <2>2. CASE c = "dollar"
    <3>1. quoting = "bare" /\ quoting' = "bare" /\ words' = words /\ word' = Scope!Dynamic(Scope!Letter(word))
      BY <1>2, <2>2 DEF Scope!InBare
    <3> QED BY <1>1, <2>2, <3>1 DEF Grown, WordReads, BareReads
  <2>3. CASE c \in {"space", "sep"}
    BY <1>2, <2>3 DEF Scope!InBare, WordEnds
  <2>4. CASE c = "escape"
    BY <1>2, <2>4 DEF Scope!InBare, WordReads, BareReads
  <2>5. CASE c \in {"single", "double"}
    <3>1. quoting = "bare" /\ quoting' = c /\ words' = words /\ word' = Scope!Begun(word)
      BY <1>2, <2>5 DEF Scope!InBare
    <3> QED BY <1>1, <2>5, <3>1 DEF WordReads, BareReads
  <2> QED BY <2>1, <2>2, <2>3, <2>4, <2>5 DEF Scope!Chars
<1>3. CASE Scope!InQuotes(c) /\ UNCHANGED words
  <2>1. CASE quoting = "single"
    <3>1. quoting' = (IF c = "single" THEN "bare" ELSE "single")
          /\ word' = IF c = "single" THEN Scope!Close(word) ELSE Scope!Body(word)
      BY <1>3, <2>1 DEF Scope!InQuotes
    <3> QED BY <1>1, <1>3, <2>1, <3>1 DEF WordReads, SingleReads
  <2>2. CASE quoting = "double"
    <3>1. CASE c \in {"double", "escape"}
      BY <1>3, <2>2, <3>1 DEF Scope!InQuotes, WordReads, DoubleReads
    <3>2. CASE c = "dollar"
      <4>1. quoting' = "double" /\ word' = Scope!Dynamic(Scope!Letter(word))
        BY <1>3, <2>2, <3>2 DEF Scope!InQuotes
      <4> QED BY <1>1, <1>3, <2>2, <3>2, <4>1 DEF Grown, WordReads, DoubleReads
    <3>3. CASE c \notin {"double", "escape", "dollar"}
      <4>1. quoting' = "double" /\ word' = Scope!Letter(word)
        BY <1>3, <2>2, <3>3 DEF Scope!InQuotes
      <4> QED BY <1>1, <1>3, <2>2, <3>3, <4>1 DEF Grown, WordReads, DoubleReads
    <3> QED BY <3>1, <3>2, <3>3
  <2> QED BY <1>3, <2>1, <2>2 DEF Scope!InQuotes
<1>4. CASE Scope!Escaped /\ UNCHANGED words
  <2>1. word' = Scope!Letter(word) /\ quoting \in {"escape", "escapeInDouble"}
        /\ quoting' = IF quoting = "escape" THEN "bare" ELSE "double"
    BY <1>4 DEF Scope!Escaped
  <2> QED BY <1>1, <1>4, <2>1 DEF WordReads, EscapeReads
<1> QED BY <1>2, <1>3, <1>4 DEF Scope!Type

\* A character read keeps the invariant of the text.
LEMMA TypeKeeps == ASSUME TextIInv, NEW c \in Scope!Chars, Scope!Type(c) PROVE TextIInv'
<1>0. /\ TextTypeOK /\ WordBegun /\ LettersKept /\ SeparatorsTyped /\ PlainIsPlain /\ DollarShows
      /\ IsFiniteSet(Scope!LettersOf(words))
  BY DEF TextIInv
<1>1. /\ typed \in Seq(Scope!Chars) /\ typed' = Append(typed, c) /\ quoting # "end" /\ quoting \in Quoting
      /\ word \in WordRec /\ words \in Seq(WordRec)
  BY <1>0 DEF TextTypeOK, Scope!Type
<1>2. typed' \in Seq(Scope!Chars)
  BY <1>1
<1>3. word.begun \in BOOLEAN /\ word.letters \in Nat /\ word.body \in Nat /\ word.dynamic \in BOOLEAN
  BY <1>1 DEF WordRec
<1>4. ASSUME NEW C
      PROVE  /\ Scope!Typed(C)' = {} <=> Scope!Typed(C) = {} /\ c \notin C
             /\ Cardinality(Scope!Typed(C)) \in Nat
             /\ Cardinality(Scope!Typed(C)') = Cardinality(Scope!Typed(C)) + IF c \in C THEN 1 ELSE 0
  BY <1>1, OneMoreTyped
<1>5. PICK letters, seps \in Nat : letters = Cardinality(Scope!Typed({"letter"})) /\ seps = Cardinality(Scope!Typed({"sep"}))
  BY <1>4
<1>6. /\ Cardinality(Scope!Typed({"letter"})') = letters + IF c = "letter" THEN 1 ELSE 0
      /\ Cardinality(Scope!Typed({"sep"})') = seps + IF c = "sep" THEN 1 ELSE 0
  BY <1>4, <1>5
<1>7. /\ Scope!Typed({"dollar", "single", "double"})' = {} <=>
           Scope!Typed({"dollar", "single", "double"}) = {} /\ c \notin {"dollar", "single", "double"}
      /\ Scope!Typed({"single", "escape"})' = {} <=> Scope!Typed({"single", "escape"}) = {} /\ c \notin {"single", "escape"}
      /\ Scope!Typed({"dollar"})' = {} <=> Scope!Typed({"dollar"}) = {} /\ c # "dollar"
  BY <1>4
<1>8. CASE WordEnds(c)
  <2>1. /\ Flows(Scope!Flushed) /\ Kept(Scope!Flushed) = Kept(words) + word.letters /\ Kept(words) \in Nat
        /\ Separators(Scope!Flushed) = Separators(words) /\ Separators(words) \in Nat
        /\ Shells(Scope!Flushed) <=> HasDynamic \/ word.dynamic
    BY WordsFlush
  <2>2. WordIs(Scope!NoWord, FALSE, 0, 0, FALSE)
    BY <1>1, WordChanges
  <2>3. /\ Flows(Append(Scope!Flushed, Scope!NoWord)) /\ Kept(Append(Scope!Flushed, Scope!NoWord)) = Kept(Scope!Flushed)
        /\ Separators(Append(Scope!Flushed, Scope!NoWord)) = Separators(words) + 1
        /\ Shells(Append(Scope!Flushed, Scope!NoWord)) <=> HasDynamic \/ word.dynamic
    BY <1>3, <2>1, <2>2, OneMoreWord DEF WordIs
  <2>4. /\ Flows(words') /\ Kept(words') = Kept(words) + word.letters
        /\ Separators(words') = Separators(words) + IF c = "sep" THEN 1 ELSE 0
        /\ Shells(words') <=> HasDynamic \/ word.dynamic
    <3>1. CASE c = "space"
      <4>1. words' = Scope!Flushed /\ (IF c = "sep" THEN 1 ELSE 0) = 0
        BY <1>8, <3>1 DEF WordEnds
      <4> QED BY <2>1, <4>1
    <3>2. CASE c = "sep"
      <4>1. words' = Append(Scope!Flushed, Scope!NoWord) /\ (IF c = "sep" THEN 1 ELSE 0) = 1
        BY <1>8, <3>2 DEF WordEnds
      <4> QED BY <2>1, <2>3, <4>1
    <3> QED BY <1>8, <3>1, <3>2 DEF WordEnds
  <2>5. word' \in WordRec /\ ~word'.begun /\ word'.letters = 0 /\ word'.body = 0 /\ ~word'.dynamic
    BY <1>8, <2>2 DEF WordIs, WordEnds
  <2>6. HasDynamic' <=> HasDynamic \/ word.dynamic
    BY <2>4 DEF HasDynamic, Shells
  <2>61. quoting = "bare" /\ quoting' = "bare" /\ c \in {"space", "sep"}
    BY <1>8 DEF WordEnds
  <2>7. TextTypeOK' /\ IsFiniteSet(Scope!LettersOf(words))' /\ WordBegun'
    BY <1>2, <2>61, <2>4, <2>5 DEF TextTypeOK, Flows, WordBegun, Quoting, Scope!LettersOf, Scope!WordIn
  <2>8. Kept(words) + word.letters >= letters
    BY <1>0, <1>3, <1>5, <2>61, <2>1 DEF LettersKept, WordBegun, Kept
  <2>9. LettersKept'
    <3>1. Kept(words') >= letters /\ Kept(words') \in Nat
      BY <1>3, <2>1, <2>4, <2>8
    <3>2. Cardinality(Scope!LettersOf(words))' = Kept(words') /\ Cardinality(Scope!Typed({"letter"}))' = letters
      BY <1>5, <1>6, <2>61 DEF Kept, Scope!LettersOf, Scope!WordIn
    <3> QED BY <2>5, <3>1, <3>2 DEF LettersKept
  <2>10. SeparatorsTyped'
    <3>1. Separators(words) <= seps
      BY <1>0, <1>5 DEF SeparatorsTyped, Separators
    <3>2. Cardinality(DOMAIN words \ Scope!WordIn(words))' = Separators(words')
      BY DEF Separators, Scope!WordIn
    <3> QED BY <1>5, <1>6, <2>1, <2>4, <3>1, <3>2 DEF SeparatorsTyped
  <2>11. PlainIsPlain' /\ DollarShows'
    BY <1>0, <1>7, <2>61, <2>5, <2>6 DEF PlainIsPlain, DollarShows
  <2> QED BY <2>7, <2>9, <2>10, <2>11 DEF TextIInv
<1>9. ASSUME words' = words, word' \in WordRec, quoting' \in Quoting \ {"end"}, WordBegun',
             word'.letters + word'.body >= word.letters + word.body + (IF c = "letter" THEN 1 ELSE 0),
             PlainIsPlain', DollarShows'
      PROVE  TextIInv'
  <2>1. TextTypeOK' /\ IsFiniteSet(Scope!LettersOf(words))'
    BY <1>0, <1>1, <1>2, <1>9 DEF TextTypeOK, Scope!LettersOf, Scope!WordIn
  <2>2. Kept(words) \in Nat /\ Separators(words) \in Nat
    BY WordsFlush
  <2>3. word'.letters \in Nat /\ word'.body \in Nat
    BY <1>9 DEF WordRec
  <2>4. LettersKept'
    <3>1. Kept(words) + word.letters + word.body >= letters
      BY <1>0, <1>1, <1>5 DEF LettersKept, Kept
    <3>2. Cardinality(Scope!LettersOf(words))' = Kept(words)
      BY <1>9 DEF Kept, Scope!LettersOf, Scope!WordIn
    <3>3. Kept(words) + word'.letters + word'.body >= letters + (IF c = "letter" THEN 1 ELSE 0)
      BY <1>3, <1>5, <1>9, <2>2, <2>3, <3>1
    <3> QED BY <1>6, <3>2, <3>3 DEF LettersKept
  <2>5. SeparatorsTyped'
    <3>1. Separators(words) <= seps
      BY <1>0, <1>5 DEF SeparatorsTyped, Separators
    <3>2. Cardinality(DOMAIN words \ Scope!WordIn(words))' = Separators(words)
      BY <1>9 DEF Separators, Scope!WordIn
    <3> QED BY <1>5, <1>6, <2>2, <3>1, <3>2 DEF SeparatorsTyped
  <2> QED BY <1>9, <2>1, <2>4, <2>5 DEF TextIInv
<1>10. ASSUME words' = words PROVE HasDynamic' <=> HasDynamic
  BY <1>10 DEF HasDynamic
<1>11. /\ ~word.begun => word.letters = 0 /\ ~word.dynamic
       /\ quoting = "single" => word.begun
       /\ quoting # "single" => word.body = 0
  BY <1>0 DEF WordBegun
<1>12. ASSUME words' = words, word' \in WordRec, quoting' \in Quoting \ {"end"},
              ~word'.begun => word'.letters = 0 /\ ~word'.dynamic,
              quoting' = "single" => word'.begun, quoting' # "single" => word'.body = 0,
              word'.letters + word'.body >= word.letters + word.body + (IF c = "letter" THEN 1 ELSE 0),
              Scope!Typed({"dollar", "single", "double"}) = {} /\ c \notin {"dollar", "single", "double"} /\ quoting \in {"bare", "escape"}
                /\ ~word.dynamic => quoting' \in {"bare", "escape"} /\ ~word'.dynamic,
              c \notin {"single", "escape"} /\ quoting \in {"bare", "double"} =>
                quoting' \in {"bare", "double"} /\ (word.dynamic \/ c = "dollar" => word'.dynamic)
       PROVE  TextIInv'
  <2>1. WordBegun'
    BY <1>12 DEF WordBegun
  <2>2. PlainIsPlain'
    BY <1>0, <1>1, <1>7, <1>10, <1>12 DEF PlainIsPlain
  <2>3. DollarShows'
    BY <1>0, <1>1, <1>7, <1>10, <1>12 DEF DollarShows
  <2> QED BY <1>9, <1>12, <2>1, <2>2, <2>3
<1>13. Grown(c) \in BOOLEAN /\ (c = "dollar" => Grown(c)) /\ (word.dynamic => Grown(c))
       /\ (c # "dollar" /\ ~word.dynamic => ~Grown(c))
  BY <1>3 DEF Grown
<1>14. CASE words' = words /\ quoting = "bare" /\ BareReads(c)
  <2>1. CASE quoting' = "bare" /\ c \in {"letter", "dollar"} /\ WordIs(word', TRUE, word.letters + 1, word.body, Grown(c))
    BY <1>3, <1>11, <1>12, <1>13, <1>14, <2>1 DEF Quoting, WordIs
  <2>2. CASE quoting' = "escape" /\ c = "escape" /\ word' = word
    BY <1>1, <1>3, <1>11, <1>12, <1>14, <2>2 DEF Quoting
  <2>3. CASE quoting' = c /\ c \in {"single", "double"} /\ WordIs(word', TRUE, word.letters, word.body, word.dynamic)
    BY <1>3, <1>11, <1>12, <1>14, <2>3 DEF Quoting, WordIs
  <2> QED BY <1>14, <2>1, <2>2, <2>3 DEF BareReads
<1>15. CASE words' = words /\ quoting = "single" /\ SingleReads(c)
  <2>1. CASE quoting' = "bare" /\ c = "single" /\ WordIs(word', word.begun, word.letters + word.body, 0, word.dynamic)
    BY <1>3, <1>11, <1>12, <1>15, <2>1 DEF Quoting, WordIs
  <2>2. CASE quoting' = "single" /\ c # "single" /\ WordIs(word', word.begun, word.letters, word.body + 1, word.dynamic)
    BY <1>3, <1>11, <1>12, <1>15, <2>2 DEF Quoting, WordIs
  <2> QED BY <1>15, <2>1, <2>2 DEF SingleReads
<1>16. CASE words' = words /\ quoting = "double" /\ DoubleReads(c)
  <2>1. CASE quoting' = "bare" /\ c = "double" /\ word' = word
    BY <1>1, <1>3, <1>11, <1>12, <1>16, <2>1 DEF Quoting
  <2>2. CASE quoting' = "escapeInDouble" /\ c = "escape" /\ word' = word
    BY <1>1, <1>3, <1>11, <1>12, <1>16, <2>2 DEF Quoting
  <2>3. CASE quoting' = "double" /\ c \notin {"double", "escape"} /\ WordIs(word', TRUE, word.letters + 1, word.body, Grown(c))
    BY <1>3, <1>11, <1>12, <1>13, <1>16, <2>3 DEF Quoting, WordIs
  <2> QED BY <1>16, <2>1, <2>2, <2>3 DEF DoubleReads
<1>17. CASE words' = words /\ quoting = "escape" /\ quoting' = "bare" /\ EscapeReads
  BY <1>3, <1>11, <1>12, <1>17 DEF Quoting, WordIs, EscapeReads
<1>18. CASE words' = words /\ quoting = "escapeInDouble" /\ quoting' = "double" /\ EscapeReads
  BY <1>3, <1>11, <1>12, <1>18 DEF Quoting, WordIs, EscapeReads
<1>19. WordEnds(c) \/ WordReads(c)
  BY <1>0, TypeForms
<1> QED BY <1>8, <1>14, <1>15, <1>16, <1>17, <1>18, <1>19 DEF WordReads

\* The end of the text keeps it: what is left open is a word the shell knows.
LEMMA EndKeeps == ASSUME TextIInv, Scope!EndOfText PROVE TextIInv'
<1>0. /\ TextTypeOK /\ WordBegun /\ LettersKept /\ SeparatorsTyped /\ PlainIsPlain /\ DollarShows
      /\ IsFiniteSet(Scope!LettersOf(words))
  BY DEF TextIInv
<1>1. /\ typed' = typed /\ quoting # "end" /\ quoting' = "end" /\ word' = Scope!NoWord
      /\ word \in WordRec /\ words \in Seq(WordRec) /\ quoting \in Quoting
  BY <1>0 DEF TextTypeOK, Scope!EndOfText
<1>2. word.begun \in BOOLEAN /\ word.letters \in Nat /\ word.body \in Nat /\ word.dynamic \in BOOLEAN
  BY <1>1 DEF WordRec
<1>3. /\ WordIs(Scope!Letter(word), TRUE, word.letters + 1, word.body, word.dynamic)
      /\ WordIs(Scope!Dynamic(word), TRUE, word.letters, word.body, TRUE)
      /\ WordIs(Scope!NoWord, FALSE, 0, 0, FALSE)
  BY <1>1, WordChanges
<1>4. word' \in WordRec /\ ~word'.begun /\ word'.letters = 0 /\ word'.body = 0 /\ ~word'.dynamic
  BY <1>1, <1>3 DEF WordIs
<1>5. Flows(words) /\ (Shells(words) <=> HasDynamic) /\ (Shells(words') <=> HasDynamic')
  BY <1>0, <1>1 DEF Flows, Shells, HasDynamic
<1>6. Kept(words) \in Nat /\ Separators(words) \in Nat
  BY WordsFlush
<1>7. PICK letters, seps : letters = Cardinality(Scope!Typed({"letter"})) /\ seps = Cardinality(Scope!Typed({"sep"}))
  OBVIOUS
<1>8. \A C : Scope!Typed(C)' = Scope!Typed(C)
  BY <1>1 DEF Scope!Typed
<1>9. Kept(words) + word.letters + word.body >= letters /\ Separators(words) <= seps
  BY <1>0, <1>1, <1>7 DEF LettersKept, SeparatorsTyped, Kept, Separators
<1>10. ASSUME Flows(words'), Separators(words') = Separators(words), HasDynamic' \/ Kept(words') >= letters, PlainIsPlain', DollarShows'
       PROVE  TextIInv'
  <2>1. TextTypeOK' /\ IsFiniteSet(Scope!LettersOf(words))' /\ WordBegun'
    BY <1>0, <1>1, <1>4, <1>10 DEF TextTypeOK, Flows, WordBegun, Quoting, Scope!LettersOf, Scope!WordIn
  <2>2. Cardinality(Scope!LettersOf(words))' = Kept(words')
        /\ Cardinality(DOMAIN words \ Scope!WordIn(words))' = Separators(words')
    BY DEF Kept, Separators, Scope!LettersOf, Scope!WordIn
  <2>3. Kept(words') \in Nat
    BY <1>10, FS_CardinalityType DEF Flows, Kept
  <2>4. LettersKept'
    <3>1. Cardinality(Scope!Typed({"letter"}))' = letters
      BY <1>7, <1>8
    <3>2. ~HasDynamic' => Kept(words') + word'.letters + word'.body >= letters
      BY <1>4, <1>10, <2>3
    <3> QED BY <1>1, <2>2, <3>1, <3>2 DEF LettersKept
  <2>5. SeparatorsTyped'
    BY <1>7, <1>8, <1>9, <1>10, <2>2 DEF SeparatorsTyped
  <2> QED BY <1>10, <2>1, <2>4, <2>5 DEF TextIInv
<1>11. CASE quoting = "bare"
  <2>1. words' = Scope!Flushed /\ word.body = 0
    BY <1>0, <1>11 DEF Scope!EndOfText, WordBegun
  <2>2. /\ Flows(words') /\ Kept(words') = Kept(words) + word.letters /\ Separators(words') = Separators(words)
        /\ Shells(words') <=> HasDynamic \/ word.dynamic
    BY <2>1, WordsFlush
  <2>3. Kept(words') >= letters
    BY <1>2, <1>6, <1>9, <2>1, <2>2
  <2>4. PlainIsPlain' /\ DollarShows'
    BY <1>0, <1>1, <1>4, <1>5, <1>8, <1>11, <2>2 DEF PlainIsPlain, DollarShows
  <2> QED BY <1>10, <2>2, <2>3, <2>4
<1>12. CASE quoting = "escape"
  <2>1. words' = Append(words, Scope!Letter(word)) /\ word.body = 0
    BY <1>0, <1>12 DEF Scope!EndOfText, WordBegun
  <2>2. PICK v \in WordRec : v = Scope!Letter(word) /\ v.begun = TRUE /\ v.letters = word.letters + 1 /\ v.dynamic = word.dynamic
    BY <1>3 DEF WordIs
  <2>3. /\ Flows(words') /\ Kept(words') = Kept(words) + word.letters + 1 /\ Separators(words') = Separators(words)
        /\ Shells(words') <=> HasDynamic \/ word.dynamic
    <3>1. /\ Flows(Append(words, v)) /\ Kept(Append(words, v)) = Kept(words) + v.letters
          /\ Separators(Append(words, v)) = Separators(words) + IF v.begun THEN 0 ELSE 1
          /\ Shells(Append(words, v)) <=> Shells(words) \/ (v.begun /\ v.dynamic)
      BY <1>5, <2>2, OneMoreWord
    <3>2. (IF v.begun THEN 0 ELSE 1) = 0
      BY <2>2
    <3> QED BY <1>2, <1>5, <1>6, <2>1, <2>2, <3>1, <3>2
  <2>4. Kept(words') >= letters
    <3>1. letters \in Nat
      BY <1>0, <1>7, TypedIsFinite DEF TextTypeOK
    <3>2. Kept(words) + word.letters >= letters
      BY <1>2, <1>6, <1>9, <2>1
    <3> QED BY <1>2, <1>6, <2>3, <3>1, <3>2
  <2>5. PlainIsPlain' /\ DollarShows'
    BY <1>0, <1>1, <1>4, <1>5, <1>8, <1>12, <2>3 DEF PlainIsPlain, DollarShows
  <2> QED BY <1>10, <2>3, <2>4, <2>5
<1>13. CASE quoting \in {"single", "double", "escapeInDouble"}
  <2>1. words' = Append(words, Scope!Dynamic(word))
    BY <1>13 DEF Scope!EndOfText
  <2>2. PICK v \in WordRec : v = Scope!Dynamic(word) /\ v.begun = TRUE /\ v.dynamic = TRUE
    BY <1>3 DEF WordIs
  <2>3. Flows(words') /\ Separators(words') = Separators(words) /\ Shells(words')
    <3>1. /\ Flows(Append(words, v)) /\ Separators(Append(words, v)) = Separators(words) + IF v.begun THEN 0 ELSE 1
          /\ Shells(Append(words, v)) <=> Shells(words) \/ (v.begun /\ v.dynamic)
      BY <1>5, <2>2, OneMoreWord
    <3>2. (IF v.begun THEN 0 ELSE 1) = 0
      BY <2>2
    <3> QED BY <1>6, <2>1, <2>2, <3>1, <3>2
  <2>4. PlainIsPlain' /\ DollarShows'
    BY <1>0, <1>1, <1>5, <1>8, <1>13, <2>3 DEF PlainIsPlain, DollarShows
  <2> QED BY <1>5, <1>10, <2>3, <2>4
<1> QED BY <1>1, <1>11, <1>12, <1>13 DEF Quoting

\* Every step of the tokenizer and of the judge keeps the invariant.
LEMMA ScopeKept ==
  ASSUME TextIInv, JudgedAsSaid, [Scope!ScopeStep]_(Scope!scopeVars) PROVE TextIInv' /\ JudgedAsSaid'
<1>1. ASSUME UNCHANGED <<typed, quoting, word, words>> PROVE TextIInv'
  BY <1>1 DEF TextIInv, TextTypeOK, WordBegun, LettersKept, SeparatorsTyped, PlainIsPlain, DollarShows, HasDynamic,
              Scope!LettersOf, Scope!WordIn, Scope!Typed
<1>2. ASSUME UNCHANGED <<command, reasons>> PROVE JudgedAsSaid'
  BY <1>2 DEF JudgedAsSaid
<1>3. CASE UNCHANGED Scope!scopeVars
  BY <1>1, <1>2, <1>3 DEF Scope!scopeVars
<1>4. ASSUME NEW c \in Scope!Chars, Scope!Type(c) PROVE TextIInv' /\ JudgedAsSaid'
  BY <1>2, <1>4, TypeKeeps DEF Scope!Type
<1>5. CASE Scope!EndOfText
  BY <1>2, <1>5, EndKeeps DEF Scope!EndOfText
<1>6. CASE Scope!Judge
  <2>1. UNCHANGED <<typed, quoting, word, words>>
    BY <1>6 DEF Scope!Judge
  <2>0. PICK n \in 0 .. HopBound : \E h \in [1 .. n -> Scope!Host], work \in Scope!Works, hides \in BOOLEAN :
          command' = [hops |-> h, work |-> work, hides |-> hides]
    BY <1>6 DEF Scope!Judge
  <2>2. PICK h \in [1 .. n -> Scope!Host], work \in Scope!Works, hides \in BOOLEAN :
          command' = [hops |-> h, work |-> work, hides |-> hides]
    BY <2>0
  <2>3. h \in Seq(Scope!Host)
    <3>1. n \in Nat
      OBVIOUS
    <3> QED BY <3>1
  <2>4. command'.hops = h /\ command'.work = work
    BY <2>2
  <2>5. reasons' = IF Scope!deployReasons(command') THEN "gated" ELSE "free"
    BY <1>6 DEF Scope!Judge
  <2>6. JudgedAsSaid'
    BY <2>3, <2>4, <2>5 DEF JudgedAsSaid
  <2> QED BY <1>1, <2>1, <2>6
<1> QED BY <1>3, <1>4, <1>5, <1>6 DEF Scope!ScopeStep

\* At first nothing is typed, and nothing judged.
LEMMA ScopeBegins == Scope!ScopeInit => TextIInv /\ JudgedAsSaid
<1> SUFFICES ASSUME Scope!ScopeInit PROVE TextIInv /\ JudgedAsSaid
  OBVIOUS
<1>1. typed = <<>> /\ words = <<>> /\ quoting = "bare" /\ reasons = "none" /\ word = Scope!NoWord
  BY DEF Scope!ScopeInit
<1>2. word \in WordRec /\ ~word.begun /\ word.letters = 0 /\ word.body = 0 /\ ~word.dynamic
  BY <1>1 DEF WordRec, Scope!NoWord
<1>3. DOMAIN words = {} /\ \A C : Scope!Typed(C) = {}
  BY <1>1 DEF Scope!Typed
<1>4. Scope!LettersOf(words) = {} /\ DOMAIN words \ Scope!WordIn(words) = {}
  BY <1>3 DEF Scope!LettersOf, Scope!WordIn
<1>5. IsFiniteSet(Scope!LettersOf(words)) /\ Cardinality(Scope!LettersOf(words)) = 0
      /\ Cardinality(DOMAIN words \ Scope!WordIn(words)) = 0 /\ \A C : Cardinality(Scope!Typed(C)) = 0
  BY <1>3, <1>4, FS_EmptySet
<1>6. TextTypeOK /\ WordBegun
  BY <1>1, <1>2 DEF TextTypeOK, WordBegun, Quoting
<1>7. LettersKept /\ SeparatorsTyped
  BY <1>2, <1>5 DEF LettersKept, SeparatorsTyped
<1>8. PlainIsPlain /\ DollarShows
  BY <1>1, <1>2, <1>3 DEF PlainIsPlain, DollarShows, HasDynamic
<1>9. JudgedAsSaid
  BY <1>1 DEF JudgedAsSaid
<1> QED BY <1>5, <1>6, <1>7, <1>8, <1>9 DEF TextIInv

\* What changes behind at most two shells, in words that are looked at, has a
\* reason to be held back.
LEMMA ChangesAreHeld ==
  ASSUME NEW c, c.hops \in Seq(Scope!Host), c.work \in Scope!Works, Len(c.hops) <= 2,
         ~c.hides, ~Scope!Cloaked(c), Scope!Changes(c)
  PROVE  Scope!deployReasons(c)
<1> DEFINE h == c.hops
<1>1. h \in Seq(Scope!Host) /\ Len(h) \in Nat /\ Len(h) <= 2 /\ DOMAIN h = 1 .. Len(h)
  OBVIOUS
<1>2. ASSUME NEW d \in DOMAIN h, h[d] = "dynamic" \/ (h[d] = "deploy" /\ ~Scope!Behind(c, d)),
             \A e \in 1 .. (d - 1) : h[e] # "dynamic"
      PROVE  Scope!deployReasons(c)
  <2>1. d - 1 \in 0 .. (Len(h) - 1) /\ d - 1 <= 2 /\ (d - 1) + 1 = d
    BY <1>1
  <2>2. Scope!ShellGates(c, d - 1)
    BY <1>2, <2>1 DEF Scope!ShellGates
  <2>3. \A e \in 0 .. ((d - 1) - 1) : h[e + 1] # "dynamic"
    BY <1>1, <1>2
  <2> QED BY <2>1, <2>2, <2>3 DEF Scope!deployReasons
<1>3. CASE \E d \in DOMAIN h : h[d] = "dynamic"
  <2>1. CASE 1 \in DOMAIN h /\ h[1] = "dynamic"
    <3>1. \A e \in 1 .. (1 - 1) : h[e] # "dynamic"
      OBVIOUS
    <3> QED BY <1>2, <2>1, <3>1
  <2>2. CASE ~(1 \in DOMAIN h /\ h[1] = "dynamic")
    <3>1. 2 \in DOMAIN h /\ h[2] = "dynamic" /\ h[1] # "dynamic"
      BY <1>1, <1>3, <2>2
    <3>2. \A e \in 1 .. (2 - 1) : h[e] # "dynamic"
      BY <3>1
    <3> QED BY <1>2, <3>1, <3>2
  <2> QED BY <2>1, <2>2
<1>4. CASE \A d \in DOMAIN h : h[d] # "dynamic"
  <2>1. CASE \E d \in DOMAIN h : h[d] = "deploy" /\ d = Len(h) /\ \E w1 \in c.work : w1.verb \notin {"read", "toolRead"}
    <3>1. PICK d \in DOMAIN h : h[d] = "deploy" /\ \E w1 \in c.work : w1.verb \notin {"read", "toolRead"}
      BY <2>1
    <3>2. ~Scope!Behind(c, d)
      BY <3>1 DEF Scope!Behind, Scope!ReadsOnly
    <3>3. \A e \in 1 .. (d - 1) : h[e] # "dynamic"
      BY <1>1, <1>4
    <3> QED BY <1>2, <3>1, <3>2, <3>3
  <2>2. ASSUME NEW w1 \in c.work, Scope!PushGates(w1), w1.verb = "push" PROVE Scope!deployReasons(c)
    BY <1>4, <2>2 DEF Scope!deployReasons, Scope!WorkGates
  <2>3. CASE \E w1 \in c.work : w1.verb = "push" /\ \E s \in w1.specs : s.lands = "live"
    <3>1. PICK w1 \in c.work : w1.verb = "push" /\ \E s \in w1.specs : s.lands = "live"
      BY <2>3
    <3>2. PICK s \in w1.specs : s.lands = "live"
      BY <3>1
    <3>3. s.form # "cloaked"
      BY <3>1, <3>2 DEF Scope!Cloaked
    <3>4. Scope!destOf(s) # "other"
      BY <3>2, <3>3 DEF Scope!destOf
    <3>5. Scope!PushGates(w1)
      BY <3>2, <3>4 DEF Scope!PushGates
    <3> QED BY <2>2, <3>1, <3>5
  <2>4. CASE \E w1 \in c.work : w1.verb = "copy" /\ "deploy" \in w1.ends
    <3>1. PICK w1 \in c.work : w1.verb = "copy" /\ "deploy" \in w1.ends
      BY <2>4
    <3>2. Scope!WorkGates(c.work)
      BY <3>1 DEF Scope!WorkGates, Scope!CopyGates
    <3> QED BY <1>4, <3>2 DEF Scope!deployReasons
  <2> QED BY <2>1, <2>3, <2>4 DEF Scope!Changes
<1> QED BY <1>3, <1>4

\* A command that can be resolved is held back for what it does.
LEMMA HeldForAReason ==
  ASSUME NEW c, c.hops \in Seq(Scope!Host), c.work \in Scope!Works, Scope!deployReasons(c), Scope!Resolved(c)
  PROVE  \/ Scope!Changes(c) \/ \E d \in DOMAIN c.hops : c.hops[d] = "deploy"
         \/ \E w1 \in c.work : w1.verb \in {"composeUp", "restart"}
<1>1. CASE \E d \in 0 .. (Len(c.hops) - 1) : Scope!ShellGates(c, d)
  <2>1. PICK d \in 0 .. (Len(c.hops) - 1) : Scope!ShellGates(c, d)
    BY <1>1
  <2>2. d + 1 \in DOMAIN c.hops
    OBVIOUS
  <2>3. c.hops[d + 1] = "dynamic" \/ c.hops[d + 1] = "deploy"
    BY <2>1 DEF Scope!ShellGates
  <2> QED BY <2>2, <2>3 DEF Scope!Resolved
<1>2. CASE Scope!WorkGates(c.work)
  <2>1. PICK w1 \in c.work : IF w1.verb = "push" THEN Scope!PushGates(w1) ELSE w1.verb = "copy" /\ Scope!CopyGates(w1)
    BY <1>2 DEF Scope!WorkGates
  <2>2. CASE w1.verb = "push"
    <3>1. w1.specs # {} /\ \A s \in w1.specs : s.form \in {"literal", "cloaked"}
      BY <2>2 DEF Scope!Resolved
    <3>2. PICK s \in w1.specs : Scope!destOf(s) # "other"
      BY <2>1, <2>2, <3>1 DEF Scope!PushGates
    <3>3. s.lands # "other"
      BY <3>1, <3>2 DEF Scope!destOf
    <3>4. w1 \in Scope!Pushes
      <4>1. \A x \in Scope!Plain \cup Scope!Copies : x.verb # "push"
        BY DEF Scope!Plain, Scope!Copies, Scope!Kinds
      <4> QED BY <2>2, <4>1 DEF Scope!Works
    <3>5. s.lands = "live"
      BY <3>3, <3>4 DEF Scope!Pushes, Scope!Spec
    <3> QED BY <2>2, <3>5 DEF Scope!Changes
  <2>3. CASE w1.verb # "push"
    <3>1. w1.verb = "copy" /\ Scope!CopyGates(w1)
      BY <2>1, <2>3
    <3>2. "deploy" \in w1.ends
      BY <3>1 DEF Scope!CopyGates, Scope!Resolved
    <3> QED BY <3>1, <3>2 DEF Scope!Changes
  <2> QED BY <2>2, <2>3
<1> QED BY <1>1, <1>2 DEF Scope!deployReasons

\* So the classifier fails closed, and only where it must.
LEMMA HookFailsClosed == TextIInv /\ JudgedAsSaid => Scope!FailsClosed
<1> SUFFICES ASSUME TextIInv, JudgedAsSaid PROVE Scope!FailsClosed
  OBVIOUS
<1>0. /\ TextTypeOK /\ WordBegun /\ LettersKept /\ SeparatorsTyped /\ PlainIsPlain /\ DollarShows
  BY DEF TextIInv
<1>1. reasons = "free" /\ Scope!Changes(command) =>
        Len(command.hops) > 2 \/ command.hides \/ Scope!Cloaked(command)
  <2> SUFFICES ASSUME reasons = "free", Scope!Changes(command), ~(Len(command.hops) > 2),
                      ~command.hides, ~Scope!Cloaked(command)
               PROVE  FALSE
    OBVIOUS
  <2>1. command.hops \in Seq(Scope!Host) /\ command.work \in Scope!Works /\ ~Scope!deployReasons(command)
    BY DEF JudgedAsSaid
  <2>2. Len(command.hops) <= 2
    BY <2>1
  <2> QED BY <2>1, <2>2, ChangesAreHeld
<1>2. reasons = "gated" /\ Scope!Resolved(command) =>
        \/ Scope!Changes(command) \/ \E d \in DOMAIN command.hops : command.hops[d] = "deploy"
        \/ \E w1 \in command.work : w1.verb \in {"composeUp", "restart"}
  BY HeldForAReason DEF JudgedAsSaid
<1> DEFINE shells == {i \in Scope!Word : words[i].dynamic}
<1>3. shells = {} <=> ~HasDynamic
  BY DEF HasDynamic, Scope!Word, Scope!WordIn
<1>4. ASSUME quoting = "end"
      PROVE  /\ Scope!Typed({"dollar", "single", "double"}) = {} => shells = {}
             /\ Scope!Typed({"dollar"}) # {} /\ Scope!Typed({"single", "escape"}) = {} => shells # {}
             /\ shells = {} => Scope!Cardinality(Scope!LettersOf(words)) >= Scope!Cardinality(Scope!Typed({"letter"}))
             /\ Scope!Cardinality(DOMAIN words \ Scope!Word) <= Scope!Cardinality(Scope!Typed({"sep"}))
  <2>1. word.letters = 0 /\ word.body = 0 /\ ~word.dynamic
    BY <1>0, <1>4 DEF WordBegun
  <2>2. /\ Scope!Typed({"dollar", "single", "double"}) = {} => shells = {}
        /\ Scope!Typed({"dollar"}) # {} /\ Scope!Typed({"single", "escape"}) = {} => shells # {}
    BY <1>0, <1>3, <2>1 DEF PlainIsPlain, DollarShows
  <2>3. Cardinality(Scope!LettersOf(words)) \in Nat
    BY FS_CardinalityType DEF TextIInv
  <2>4. shells = {} => Cardinality(Scope!LettersOf(words)) >= Cardinality(Scope!Typed({"letter"}))
    BY <1>0, <1>3, <2>1, <2>3 DEF LettersKept
  <2>5. Cardinality(DOMAIN words \ Scope!Word) <= Cardinality(Scope!Typed({"sep"}))
    BY <1>0 DEF SeparatorsTyped, Scope!Word
  <2> QED BY <2>2, <2>4, <2>5, SizesAgree
<1> QED BY <1>1, <1>2, <1>4 DEF Scope!FailsClosed

\* The gate approves only what every reviewer's latest verdict approves, and
\* the classifier finds out every command that changes what users get behind at
\* most two shells, in words it looks at and by branches spelled out, for every
\* set of reviewers, any texts and any number of remote shells.
THEOREM CouncilIsKept == ToolSpec => []CouncilHolds
<1>1. ToolInit => GateIInv /\ TextIInv /\ JudgedAsSaid
  BY GateBegins, ScopeBegins DEF ToolInit
<1>2. [ToolNext]_toolVars => [Gate!GateStep]_(Gate!gateVars)
  BY DEF ToolNext, toolVars, Others, gateVs, Gate!gateVars
<1>3. [ToolNext]_toolVars => [Scope!ScopeStep]_(Scope!scopeVars)
  BY DEF ToolNext, toolVars, Others, scopeVs, Scope!scopeVars
<1>4. GateIInv /\ TextIInv /\ JudgedAsSaid /\ [ToolNext]_toolVars => GateIInv' /\ TextIInv' /\ JudgedAsSaid'
  BY <1>2, <1>3, GateKept, ScopeKept
<1>5. GateIInv /\ TextIInv /\ JudgedAsSaid => CouncilHolds
  BY GateDecidesOnPosts, HookFailsClosed DEF CouncilHolds
<1> QED BY <1>1, <1>4, <1>5, PTL DEF ToolSpec

=============================================================================
