------------------------------- MODULE Fleet -------------------------------
(***************************************************************************)
(* A fleet of relays under one supervisor, scripts/fleet.mjs: a staggered  *)
(* launch, a rolling restart in place and a rolling stop, one slot at a    *)
(* time, each waiting for a relay's graceful leave or its timeout.  The    *)
(* two are async loops over the same slots and may overlap.  A slot's      *)
(* relays are numbered; the latest is the one children[] holds.            *)
(***************************************************************************)
EXTENDS Naturals, FiniteSets

CONSTANTS
  SlotCount,   \* count: relays of the fleet
  RelayBound,  \* bound: relays spawned into a slot
  CrashBound   \* bound: relays that end unasked

Slot  == 1 .. SlotCount
Relay == 1 .. RelayBound
Rolling == [slot : 0 .. SlotCount, stage : {"off", "stop", "heal", "mesh", "accrue"},
            relay : 0 .. RelayBound]

VARIABLES
  fleet,     \* the supervisor: "launch", "run", "exit", or "killed" in the launch
  proc,      \* each relay: "none", "up", "leaving", "killed" or "gone"
  latest,    \* children[idx]: the relay last spawned into the slot, 0 before
  exited,    \* stats[idx].exited is set
  restart,   \* rollingRestart: its slot, where it waits, the relay it stops
  stop,      \* rollingShutdown
  overlap,   \* history: a restart was under way when the stop was asked for
  mistaken,  \* history: slots whose exited came from a relay already replaced
  crashes    \* relays ended unasked so far

fleetVars == <<fleet, proc, latest, exited, restart, stop, overlap, mistaken, crashes>>
history   == <<overlap, mistaken, crashes>>

Off == [slot |-> 0, stage |-> "off", relay |-> 0]
draining   == stop.stage # "off"
restarting == restart.stage # "off"
Running(i, r) == proc[i][r] \in {"up", "leaving"}

FleetTypeOK ==
  /\ fleet \in {"launch", "run", "exit", "killed"}
  /\ proc \in [Slot -> [Relay -> {"none", "up", "leaving", "killed", "gone"}]]
  /\ latest \in [Slot -> 0 .. RelayBound] /\ exited \in [Slot -> BOOLEAN]
  /\ {restart, stop} \subseteq Rolling
  /\ overlap \in BOOLEAN /\ mistaken \subseteq Slot /\ crashes \in 0 .. CrashBound

FleetInit ==
  /\ fleet = "launch" /\ proc = [i \in Slot |-> [r \in Relay |-> "none"]]
  /\ latest = [i \in Slot |-> 0] /\ exited = [i \in Slot |-> FALSE]
  /\ restart = Off /\ stop = Off /\ overlap = FALSE /\ mistaken = {} /\ crashes = 0

-----------------------------------------------------------------------------
spawnRelay(i) ==
  /\ latest[i] < RelayBound
  /\ latest' = [latest EXCEPT ![i] = @ + 1]
  /\ proc' = [proc EXCEPT ![i][latest[i] + 1] = "up"]
  /\ exited' = [exited EXCEPT ![i] = FALSE]

(* The launch; no signal handler and no key is set before it has ended.     *)
Launch(i) ==
  /\ fleet = "launch" /\ latest[i] = 0 /\ \A j \in Slot : j < i => latest[j] > 0
  /\ spawnRelay(i) /\ fleet' = IF i = SlotCount THEN "run" ELSE fleet
  /\ UNCHANGED <<restart, stop, history>>

SignalInLaunch ==
  /\ fleet = "launch" /\ fleet' = "killed"
  /\ UNCHANGED <<proc, latest, exited, restart, stop, history>>

-----------------------------------------------------------------------------
(* stopOne(i): SIGTERM to the slot's relay, which then leaves. *)
Terminated(i) == [proc EXCEPT ![i][latest[i]] = IF @ = "up" THEN "leaving" ELSE @]

(* The restart turns to slot i: stopOne returns at once when it has exited. *)
RestartSlot(i) ==
  IF exited[i]
  THEN restart' = [slot |-> i, stage |-> "heal", relay |-> 0] /\ UNCHANGED proc
  ELSE restart' = [slot |-> i, stage |-> "stop", relay |-> latest[i]] /\ proc' = Terminated(i)

(* The stop turns to the first slot from i on that has not exited; when     *)
(* there is none the supervisor exits.                                      *)
StopFrom(i) ==
  LET left == {j \in i .. SlotCount : ~exited[j]} IN
  IF left = {}
  THEN stop' = [Off EXCEPT !.stage = "heal"] /\ fleet' = "exit" /\ UNCHANGED proc
  ELSE \E j \in left :
         /\ \A k \in left : j <= k
         /\ stop' = [slot |-> j, stage |-> "stop", relay |-> latest[j]]
         /\ proc' = Terminated(j) /\ UNCHANGED fleet

rollingRestart ==
  /\ fleet = "run" /\ ~restarting /\ ~draining /\ RestartSlot(1)
  /\ UNCHANGED <<fleet, latest, exited, stop, history>>

rollingShutdown ==
  /\ fleet = "run" /\ ~draining /\ StopFrom(1) /\ overlap' = restarting
  /\ UNCHANGED <<latest, exited, restart, mistaken, crashes>>

-----------------------------------------------------------------------------
(* finish(): whoever awaits the stop of this relay goes on to the delay; a  *)
(* stop at its last slot exits instead.                                     *)
Waits(x, i, r) == x.stage = "stop" /\ x.slot = i /\ x.relay = r
Finish(i, r, waiting) ==
  /\ restart' = IF "restart" \in waiting /\ Waits(restart, i, r)
                THEN [restart EXCEPT !.stage = "heal"] ELSE restart
  /\ IF "stop" \in waiting /\ Waits(stop, i, r)
     THEN stop' = [stop EXCEPT !.stage = "heal"]
          /\ fleet' = IF i = SlotCount THEN "exit" ELSE fleet
     ELSE UNCHANGED <<stop, fleet>>

(* A relay ends: its leave is through, it was killed, or it crashed.  The   *)
(* exit handler writes the slot's record, whichever relay this was.         *)
RelayExits(i, r) ==
  /\ fleet \in {"launch", "run"} /\ proc[i][r] \in {"up", "leaving", "killed"}
  /\ proc[i][r] = "up" => crashes < CrashBound
  /\ crashes' = IF proc[i][r] = "up" THEN crashes + 1 ELSE crashes
  /\ proc' = [proc EXCEPT ![i][r] = "gone"]
  /\ exited' = [exited EXCEPT ![i] = TRUE]
  /\ mistaken' = IF r # latest[i] THEN mistaken \cup {i} ELSE mistaken
  /\ Finish(i, r, {"restart", "stop"})
  /\ UNCHANGED <<latest, overlap>>

\* Mutants: no timeout; a timeout that kills nothing.
LeaveNeverTimesOut(i, r) == Waits(stop, i, r) /\ FALSE /\ UNCHANGED fleetVars

LeaveTimesOutQuietly(i, r) ==
  /\ fleet = "run"
  /\ \/ Waits(restart, i, r) /\ Finish(i, r, {"restart"})
     \/ Waits(stop, i, r) /\ Finish(i, r, {"stop"})
  /\ UNCHANGED <<proc, latest, exited, history>>

(* leaveTimeoutMs is over for one of the two that wait: SIGKILL. *)
LeaveTimesOut(i, r) ==
  /\ fleet = "run"
  /\ \/ Waits(restart, i, r) /\ Finish(i, r, {"restart"})
     \/ Waits(stop, i, r) /\ Finish(i, r, {"stop"})
  /\ proc' = [proc EXCEPT ![i][r] = IF @ = "gone" THEN @ ELSE "killed"]
  /\ UNCHANGED <<latest, exited, history>>

-----------------------------------------------------------------------------
\* Mutant: the next slot is stopped while this one is being respawned.
RestartMovesOn ==
  /\ fleet = "run" /\ restart.stage = "heal" /\ restart.slot < SlotCount
  /\ RestartSlot(restart.slot + 1)
  /\ UNCHANGED <<fleet, latest, exited, stop, history>>

(* The delays end: the restart respawns the slot, whether or not a stop is  *)
(* asked for meanwhile, waits for the mesh or 30 seconds, delays again and  *)
(* turns to the next slot.                                                  *)
RestartHealed ==
  /\ fleet = "run" /\ restart.stage = "heal" /\ spawnRelay(restart.slot)
  /\ restart' = [restart EXCEPT !.stage = "mesh"]
  /\ UNCHANGED <<fleet, stop, history>>

RestartMeshed ==
  /\ fleet = "run" /\ restart.stage = "mesh"
  /\ restart' = [restart EXCEPT !.stage = "accrue"]
  /\ UNCHANGED <<fleet, proc, latest, exited, stop, history>>

RestartGoesOn ==
  /\ fleet = "run" /\ restart.stage = "accrue"
  /\ IF restart.slot = SlotCount THEN restart' = Off /\ UNCHANGED proc
                                 ELSE RestartSlot(restart.slot + 1)
  /\ UNCHANGED <<fleet, latest, exited, stop, history>>

StopGoesOn ==
  /\ fleet = "run" /\ stop.stage = "heal" /\ StopFrom(stop.slot + 1)
  /\ UNCHANGED <<latest, exited, restart, history>>

FleetStep ==
  \/ \E i \in Slot : Launch(i) \/ \E r \in Relay : RelayExits(i, r) \/ LeaveTimesOut(i, r)
  \/ SignalInLaunch \/ rollingRestart \/ rollingShutdown
  \/ RestartHealed \/ RestartMeshed \/ RestartGoesOn \/ StopGoesOn

(* Timers fire.  A relay that leaves need not ever end. *)
FleetFairness ==
  /\ WF_fleetVars(StopGoesOn)
  /\ \A i \in Slot, r \in Relay : WF_fleetVars(LeaveTimesOut(i, r))

-----------------------------------------------------------------------------
(* A rolling restart that no stop overtakes keeps all relays but one: the   *)
(* others run and none of them is leaving, apart from those that ended on   *)
(* their own (fleet.mjs 288-311).                                           *)
RestartKeepsTheOthers ==
  (restarting /\ ~draining) =>
    Cardinality({i \in Slot : proc[i][latest[i]] # "up"}) <= 1 + crashes

(* The supervisor that exits by itself leaves no relay behind, unless a     *)
(* restart was under way when the stop was asked for, or the late exit of a *)
(* replaced relay was taken for its successor's (fleet.mjs 272-286).        *)
ExitLeavesNoRelay ==
  (fleet = "exit" /\ ~overlap /\ mistaken = {}) =>
    \A i \in Slot, r \in Relay : ~Running(i, r)

(* A stop that was asked for ends the supervisor, whatever the relays do    *)
(* (fleet.mjs 246-259).                                                     *)
StopEndsTheFleet == draining ~> fleet = "exit"
=============================================================================
