------------------------------ MODULE MCDaemons -------------------------------
(***************************************************************************)
(* The processes that run for days, side by side: the relay, the worker    *)
(* that probes latencies for it, the collector of results and the          *)
(* supervisor of a fleet.  They share no state, so one behaviour runs one  *)
(* of them, `which', and their runs are one run.                           *)
(***************************************************************************)
EXTENDS RelayDaemon, TLC

CONSTANTS
  RequestBound, StartBound, Probes,
  Result, PeerSlot, OutageBound, LateBound, DeathBound,
  SlotCount, RelayBound, CrashBound

ASSUME BoundsAssumption ==
  {RequestBound, StartBound, Probes, OutageBound, LateBound, DeathBound,
   SlotCount, RelayBound, CrashBound} \subseteq Nat

VARIABLES
  which,  \* the process this behaviour runs
  request, self, awake, noticed, busy, rows, done, lost,
  logged, known, peer, h, stage, agg, tried, badHealth, publisher,
  outages, lates, deaths,
  fleet, proc, latest, exited, restart, stop, overlap, mistaken, crashes

Probe == INSTANCE ProbeWorker
Results == INSTANCE Collector
Relays == INSTANCE Fleet

Daemons == {"relay", "probe", "collector", "fleet"}

DaemonInit ==
  /\ which \in Daemons
  /\ Init
  /\ Probe!ProbeInit /\ Results!CollectorInit /\ Relays!FleetInit

probeVs == <<request, self, awake, noticed, busy, rows, done, lost>>
collectorVs == <<logged, known, peer, h, stage, agg, tried, badHealth,
                 publisher, outages, lates, deaths>>
fleetVs == <<fleet, proc, latest, exited, restart, stop, overlap, mistaken,
             crashes>>

daemonVars == <<which, vars, probeVs, collectorVs, fleetVs>>

(* Every part but `which' stands still.                                    *)
Others ==
  /\ UNCHANGED which
  /\ which # "relay" => UNCHANGED vars
  /\ which # "probe" => UNCHANGED probeVs
  /\ which # "collector" => UNCHANGED collectorVs
  /\ which # "fleet" => UNCHANGED fleetVs

DaemonNext ==
  \/ which = "relay" /\ Next /\ Others
  \/ which = "probe" /\ Probe!ProbeStep /\ Others
  \/ which = "collector" /\ Results!CollectorStep /\ Others
  \/ which = "fleet" /\ Relays!FleetStep /\ Others

(* The fairness each part has where it is defined, of the part that runs.   *)
DaemonFairness ==
  /\ WF_vars(which = "relay" /\ LoopStep) /\ WF_vars(which = "relay" /\ HostStep)
  /\ WF_vars(which = "relay" /\ ShutdownDone)
  /\ WF_vars(which = "relay" /\ Join(MaxAttempts))
  /\ WF_probeVs(which = "probe" /\ Probe!PollRequests)
  /\ \A r \in Probe!Run : WF_probeVs(which = "probe" /\ (Probe!ProbeOne(r) \/ Probe!FinishRun(r)))
  /\ WF_collectorVs(which = "collector" /\ Results!TryAgain)
  /\ WF_collectorVs(which = "collector" /\ Results!AttemptTimesOut)
  /\ WF_collectorVs(which = "collector" /\ Results!CheckHealth)
  /\ SF_collectorVs(which = "collector" /\ stage = "trying" /\ Results!Dialed(tried))
  /\ SF_collectorVs(which = "collector" /\ stage = "trying" /\ Results!Joined(tried))
  /\ \A r \in Result : WF_collectorVs(which = "collector" /\ Results!subscribed /\ Results!OnMessage(r))
  /\ WF_fleetVs(which = "fleet" /\ Relays!StopGoesOn)
  /\ \A i \in Relays!Slot, r \in Relays!Relay :
       WF_fleetVs(which = "fleet" /\ Relays!LeaveTimesOut(i, r))

DaemonSpec == DaemonInit /\ [][DaemonNext]_daemonVars /\ DaemonFairness

-----------------------------------------------------------------------------
(* The relay of a host comes up, and its shutdown ends (index.js 225-330).  *)
RelayComesUp == which = "relay" => ComesUp /\ ShutdownEnds

(* A probe run that reports success stands beside a whole output file       *)
(* (probe.js 106-136).                                                      *)
ReportIsWhole == Probe!ReportIsWhole

(* A complete request is run by the relay that is up, unless it goes down,  *)
(* a poll met the file half-written, or its failure could not be recorded   *)
(* (probe.js 113-138).                                                      *)
RequestIsServed == Probe!RequestIsServed

(* A result is on file at most once, over restarts, reconnects that replay  *)
(* the topic, and a late attempt beside the current one (pow-collector.js   *)
(* 52-58, 83-88, 139-141).                                                  *)
LoggedOnce == Results!LoggedOnce

(* Every result reaches the file, unless the collector stays down or waits  *)
(* for ever on an await without a timeout, the append of the result threw   *)
(* and the process lives on, or its current peer is a late attempt without  *)
(* a subscription (pow-collector.js 78-172).                                *)
EveryResultLogged == which = "collector" => Results!EveryResultLogged

(* A rolling restart takes one relay at a time from the mesh; and the       *)
(* supervisor that exits by itself leaves none behind, unless a stop met a  *)
(* restart or a late exit was taken for the successor's (fleet.mjs          *)
(* 272-311).                                                                *)
FleetKeepsItsRelays == Relays!RestartKeepsTheOthers /\ Relays!ExitLeavesNoRelay

(* A stop that was asked for ends the supervisor, whatever the relays do    *)
(* (fleet.mjs 246-259).                                                     *)
StopEndsTheFleet == Relays!StopEndsTheFleet
=============================================================================
