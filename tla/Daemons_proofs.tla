-------------------------- MODULE Daemons_proofs --------------------------
(***************************************************************************)
(* The processes that run for days.  The relay is one node of the mesh at  *)
(* a time, and leaves it before it exits, for any number of failed         *)
(* connects and of topics; the worker's reports are whole, the collector   *)
(* writes no result twice, and a fleet is restarted and stopped one relay  *)
(* at a time, for any number of runs, restarts, peers, results and slots.  *)
(* Under its service wrapper, for any number of crashes, freezes, starts   *)
(* and reboots, any stall and any beat, no code of a relay outlives the    *)
(* wrapper, a stop reaches the run it was meant for, a restart follows a   *)
(* crash only, and the watchdog kills no live loop.                        *)
(***************************************************************************)
EXTENDS MCDaemons, RelayService, FiniteSetTheorems, TLAPS

\* Only the current stack may be in the mesh: every earlier one was taken out,
\* and no later one has been built.
OnlyCurrent ==
  /\ mesh \subseteq {cur}
  /\ \A k \in Stack : k < cur => k \in left
  /\ \A k \in Stack : k > cur => start[k] = "none"

\* The host loop runs once main() is up, and counts its calls down.
Countdown == (host # "none" => pc = "up") /\ (host # "over" => todo >= 1)

IInv == TypeOK /\ OnlyCurrent /\ Countdown /\ LeavesFirst

\* The start of the process satisfies the invariant.
LEMMA InitIInv == Init => IInv
<1> SUFFICES ASSUME Init PROVE IInv
  OBVIOUS
<1> USE DaemonAssumption DEF Init
<1>1. TypeOK
  BY DEF TypeOK, Stack
<1>2. OnlyCurrent
  BY DEF OnlyCurrent, Stack
<1>3. Countdown
  BY DEF Countdown
<1>4. LeavesFirst
  BY DEF LeavesFirst
<1> QED BY <1>1, <1>2, <1>3, <1>4 DEF IInv

\* The steps of the loop that move only pc and the host loop's state.
LEMMA MovesOnly ==
  ASSUME IInv, UNCHANGED <<stacks, shutdown>>,
         pc' \in {"top", "teardown", "connect", "backoff", "up", "returned"},
         host' \in {"none", "wait", "call", "over"},
         todo' \in 0 .. Topics + 1, Countdown'
  PROVE  IInv'
<1>1. TypeOK'
  BY DEF IInv, TypeOK, stacks, shutdown
<1>2. OnlyCurrent'
  BY DEF IInv, OnlyCurrent, stacks
<1>3. LeavesFirst'
  BY DEF IInv, LeavesFirst, stacks, shutdown
<1> QED BY <1>1, <1>2, <1>3 DEF IInv

\* A stack is built after the one before it was taken out, or as the first.
LEMMA BuildsNext ==
  ASSUME IInv, Alive, pc # "up", cur < MaxAttempts, Build(cur + 1), StopRelay(cur),
         UNCHANGED <<shutdown, hosting>>
  PROVE  IInv'
<1> USE DaemonAssumption
<1>1. cur \in Nat /\ MaxAttempts \in Nat /\ cur + 1 \in Stack
  BY DEF IInv, TypeOK, Stack
<1>2. cur' = cur + 1 /\ start' = [start EXCEPT ![cur + 1] = "running"]
      /\ pc' = "connect" /\ mesh' = mesh \ {cur}
      /\ left' = left \cup ({cur} \cap Stack)
  BY DEF Build, StopRelay
<1>3. TypeOK'
  <2>1. cur' \in 0 .. MaxAttempts
    BY <1>1, <1>2 DEF Stack
  <2>2. start' \in [Stack -> {"none", "running", "done", "failed"}]
    BY <1>1, <1>2 DEF IInv, TypeOK
  <2>3. mesh' \in SUBSET Stack /\ left' \in SUBSET Stack
    BY <1>2 DEF IInv, TypeOK
  <2> QED BY <1>2, <2>1, <2>2, <2>3 DEF IInv, TypeOK, shutdown, hosting
<1>4. OnlyCurrent'
  <2>1. mesh' = {}
    BY <1>2 DEF IInv, OnlyCurrent
  <2>2. ASSUME NEW k \in Stack, k < cur' PROVE k \in left'
    <3>1. CASE k = cur
      BY <3>1, <1>2
    <3>2. CASE k < cur
      BY <3>2, <1>2 DEF IInv, OnlyCurrent
    <3> QED BY <1>1, <1>2, <2>2, <3>1, <3>2 DEF Stack
  <2>3. ASSUME NEW k \in Stack, k > cur' PROVE start'[k] = "none"
    <3>1. k > cur /\ k # cur + 1
      BY <1>1, <1>2, <2>3 DEF Stack
    <3> QED BY <3>1, <1>2 DEF IInv, OnlyCurrent, TypeOK
  <2> QED BY <2>1, <2>2, <2>3 DEF OnlyCurrent
<1>5. Countdown'
  BY <1>2 DEF IInv, Countdown, hosting
<1>6. LeavesFirst'
  BY DEF Alive, LeavesFirst, shutdown
<1> QED BY <1>3, <1>4, <1>5, <1>6 DEF IInv

\* Every step of the connect loop preserves the invariant.
LEMMA LoopKeepsIInv == ASSUME IInv, LoopStep PROVE IInv'
<1> USE DaemonAssumption
<1>1. CASE LoopTop
  <2>1. CASE cur # 0
    BY <1>1, <2>1, MovesOnly DEF LoopTop, IInv, TypeOK, Countdown, stacks, shutdown, hosting
  <2>2. CASE cur = 0
    <3>1. Alive /\ pc # "up" /\ Build(1) /\ UNCHANGED <<mesh, left, shutdown, hosting>>
      BY <1>1, <2>2 DEF LoopTop
    <3>2. cur < MaxAttempts /\ cur + 1 = 1
      BY <2>2
    <3>3. StopRelay(cur)
      BY <2>2, <3>1 DEF StopRelay, IInv, TypeOK, Stack
    <3> QED BY <3>1, <3>2, <3>3, BuildsNext
  <2> QED BY <2>1, <2>2
<1>2. CASE LoopEnds
  BY <1>2, MovesOnly DEF LoopEnds, IInv, TypeOK, Countdown, hosting
<1>3. CASE TornDown
  BY <1>3, BuildsNext DEF TornDown
<1>4. CASE TimesOut
  BY <1>4, MovesOnly DEF TimesOut, Caught, IInv, TypeOK, Countdown, hosting
<1>5. CASE BackoffOver
  BY <1>5, MovesOnly DEF BackoffOver, IInv, TypeOK, Countdown, hosting
<1>6. ASSUME NEW k \in Stack, Started(k) \/ StartFails(k) PROVE IInv'
  <2>1. /\ Alive /\ start[k] = "running"
        /\ \E s \in {"done", "failed"} : start' = [start EXCEPT ![k] = s]
        /\ UNCHANGED <<cur, mesh, left, down, target, todo>>
    BY <1>6 DEF Started, StartFails, shutdown, hosting
  <2>2. /\ pc' \in {"top", "teardown", "connect", "backoff", "up", "returned"}
        /\ host' \in {"none", "wait", "call", "over"}
    BY <1>6 DEF Started, StartFails, Caught, IInv, TypeOK, hosting
  <2>3. TypeOK'
    BY <2>1, <2>2 DEF IInv, TypeOK
  <2>4. OnlyCurrent'
    BY <2>1 DEF IInv, OnlyCurrent, TypeOK
  <2>5. Countdown'
    <3>1. CASE k = cur /\ pc = "connect"
      BY <1>6, <3>1 DEF IInv, Started, StartFails, Caught, Countdown, hosting
    <3>2. CASE ~(k = cur /\ pc = "connect")
      BY <1>6, <3>2 DEF IInv, Started, StartFails, Countdown, hosting
    <3> QED BY <3>1, <3>2
  <2>6. LeavesFirst'
    BY <2>1 DEF Alive, LeavesFirst
  <2> QED BY <2>3, <2>4, <2>5, <2>6 DEF IInv
<1> QED BY <1>1, <1>2, <1>3, <1>4, <1>5, <1>6 DEF LoopStep

\* So do the host loop, a join, and both halves of shutdown().
LEMMA NextKeepsIInv == IInv /\ [Next]_vars => IInv'
<1> SUFFICES ASSUME IInv, [Next]_vars PROVE IInv'
  OBVIOUS
<1> USE DaemonAssumption
<1>1. CASE LoopStep
  BY <1>1, LoopKeepsIInv
<1>2. CASE HostStep
  <2>1. UNCHANGED <<stacks, shutdown>> /\ pc' = pc
    BY <1>2 DEF HostStep, HostReady, Hosted
  <2>2. host' \in {"none", "wait", "call", "over"} /\ todo' \in 0 .. Topics + 1 /\ Countdown'
    BY <1>2 DEF HostStep, HostReady, Hosted, IInv, TypeOK, Countdown
  <2> QED BY <2>1, <2>2, MovesOnly DEF IInv, TypeOK
<1>3. CASE Shutdown
  <2>1. TypeOK'
    BY <1>3 DEF Shutdown, IInv, TypeOK, stacks, hosting
  <2>2. OnlyCurrent' /\ Countdown'
    BY <1>3 DEF Shutdown, IInv, OnlyCurrent, Countdown, stacks, hosting
  <2>3. LeavesFirst'
    BY <1>3 DEF Shutdown, LeavesFirst
  <2> QED BY <2>1, <2>2, <2>3 DEF IInv
<1>4. CASE ShutdownDone
  <2>1. TypeOK'
    BY <1>4 DEF ShutdownDone, StopRelay, IInv, TypeOK, hosting
  <2>2. OnlyCurrent' /\ Countdown'
    BY <1>4 DEF ShutdownDone, StopRelay, IInv, OnlyCurrent, Countdown, hosting
  <2>3. LeavesFirst'
    BY <1>4 DEF ShutdownDone, StopRelay, IInv, OnlyCurrent, LeavesFirst
  <2> QED BY <2>1, <2>2, <2>3 DEF IInv
<1>5. ASSUME NEW k \in Stack, Join(k) PROVE IInv'
  <2>1. /\ Alive /\ start[k] = "running" /\ k \notin left /\ mesh' = mesh \cup {k}
        /\ UNCHANGED <<pc, cur, start, left, down, target, host, todo>>
    BY <1>5 DEF Join, shutdown, hosting
  <2>2. k = cur
    <3>1. ~(k < cur) /\ ~(k > cur)
      BY <2>1 DEF IInv, OnlyCurrent
    <3> QED BY <3>1 DEF IInv, TypeOK, Stack
  <2>3. TypeOK'
    BY <2>1 DEF IInv, TypeOK
  <2>4. OnlyCurrent'
    BY <2>1, <2>2 DEF IInv, OnlyCurrent
  <2>5. Countdown' /\ LeavesFirst'
    BY <2>1 DEF IInv, Countdown, Alive, LeavesFirst
  <2> QED BY <2>3, <2>4, <2>5 DEF IInv
<1>6. CASE UNCHANGED vars
  <2>1. UNCHANGED <<pc, cur, start, mesh, left, down, target, host, todo>>
    BY <1>6 DEF vars
  <2> QED BY <2>1 DEF IInv, TypeOK, OnlyCurrent, Countdown, LeavesFirst
<1> QED BY <1>1, <1>2, <1>3, <1>4, <1>5, <1>6 DEF Next

\* The invariant holds in every reachable state.
LEMMA Invariance == Spec => []IInv
  BY InitIInv, NextKeepsIInv, PTL DEF Spec

\* Every reachable state of the process is well typed.
THEOREM TypeCorrect == Spec => []TypeOK
<1>1. IInv => TypeOK
  BY DEF IInv
<1> QED BY <1>1, Invariance, PTL

\* A connect that timed out and still comes up is never a second node: its
\* stack was taken out before the next one was built.
THEOREM NeverTwoNodes == Spec => []OneNode
<1>1. IInv => OneNode
  BY DEF IInv, OnlyCurrent, OneNode
<1> QED BY <1>1, Invariance, PTL

\* A process that shut down the stack it ended with has left the mesh.
THEOREM LeavesBeforeExit == Spec => []LeavesFirst
<1>1. IInv => LeavesFirst
  BY DEF IInv
<1> QED BY <1>1, Invariance, PTL

-----------------------------------------------------------------------------
(* The refinement: what the process shows of itself is a run of RelayLife.  *)

\* A process that only starts shows "up" and nothing held.
LEMMA InitShows == Init => Promise!Init
  BY DEF Init, Promise!Init, LifeSeen, Holds, ShuttingDown

\* Nothing the process does before or after its exit is seen but a join or a
\* drop: the state of the shutdown is as it was.
LEMMA JoinsOrDrops ==
  ASSUME IInv, Alive, UNCHANGED <<down, target>>
  PROVE  Promise!Join \/ Promise!Drop
<1>1. LifeSeen \in {"up", "leaving"} /\ LifeSeen' = LifeSeen
  BY DEF Alive, LifeSeen, ShuttingDown, IInv, TypeOK
<1>2. Holds' = TRUE \/ Holds' = FALSE
  BY SMT DEF Holds, ShuttingDown
<1> QED BY <1>1, <1>2, Zenon DEF Promise!Join, Promise!Drop

\* Every step of the process is a step of RelayLife, or none.
LEMMA NextShows == ASSUME IInv, [Next]_vars PROVE [Promise!Next]_(Promise!lifeVars)
<1>1. CASE LoopStep \/ HostStep \/ \E k \in Stack : Join(k)
  <2>1. Alive /\ UNCHANGED <<down, target>>
    BY <1>1 DEF LoopStep, LoopTop, LoopEnds, TornDown, TimesOut, BackoffOver, Started, StartFails,
                HostStep, HostReady, Hosted, Join, shutdown
  <2> QED BY <2>1, JoinsOrDrops DEF Promise!Next
<1>2. CASE Shutdown
  <2>1. LifeSeen = "up" /\ LifeSeen' = "leaving"
    BY <1>2 DEF Shutdown, LifeSeen, ShuttingDown
  <2>2. (mesh # {}) <=> (cur \in mesh)
    BY DEF IInv, OnlyCurrent
  <2>3. Holds' <=> Holds
    BY <1>2, <2>2 DEF Shutdown, Holds, ShuttingDown, stacks
  <2>4. (Holds = TRUE \/ Holds = FALSE) /\ (Holds' = TRUE \/ Holds' = FALSE)
    BY SMT DEF Holds, ShuttingDown
  <2>5. Holds' = Holds
    BY <2>3, <2>4, Zenon
  <2> QED BY <2>1, <2>5 DEF Promise!Next, Promise!Stop
<1>3. CASE ShutdownDone
  <2>1. LifeSeen = "leaving" /\ LifeSeen' = "gone"
    BY <1>3 DEF ShutdownDone, LifeSeen, ShuttingDown
  <2>2. ~Holds'
    BY <1>3 DEF ShutdownDone, StopRelay, Holds, ShuttingDown
  <2>3. Holds' = TRUE \/ Holds' = FALSE
    BY SMT DEF Holds, ShuttingDown
  <2>4. Holds' = FALSE
    BY <2>2, <2>3, Zenon
  <2> QED BY <2>1, <2>4 DEF Promise!Next, Promise!Leave
<1>4. CASE UNCHANGED vars
  BY <1>4 DEF vars, Promise!lifeVars, LifeSeen, Holds, ShuttingDown
<1> QED BY <1>1, <1>2, <1>3, <1>4 DEF Next

\* The process implements the abstract relay's safety: whatever its connects
\* and time-outs do, no one sees it gone with what the shutdown did not hand off.
THEOREM ImplementsRelayLife == Spec => Promise!SafeSpec
  BY InitShows, NextShows, Invariance, PTL DEF Spec, Promise!SafeSpec

-----------------------------------------------------------------------------
(* One behaviour of the composition runs one process: each part takes its   *)
(* own steps or stands still.                                               *)

\* A step of the composition is a step of the probe worker, or leaves it alone.
LEMMA ProbePart == [DaemonNext]_daemonVars => [Probe!ProbeStep]_probeVs
  BY DEF DaemonNext, Others, daemonVars

\* The same of the collector.
LEMMA CollectorPart == [DaemonNext]_daemonVars => [Results!CollectorStep]_collectorVs
  BY DEF DaemonNext, Others, daemonVars

\* The same of the fleet's supervisor.
LEMMA FleetPart == [DaemonNext]_daemonVars => [Relays!FleetStep]_fleetVs
  BY DEF DaemonNext, Others, daemonVars

-----------------------------------------------------------------------------
(* The probe worker: a report of success stands beside a whole output file. *)

\* A run under way was started by this process, has no done file of this
\* process yet, and its output file has a row for every probe it has made.
BusyIsFresh ==
  \A r \in Probe!Run : busy[r] > 0 =>
    /\ self \in 1 .. StartBound /\ done[r][self] = "none"
    /\ rows[r][self] = Probes + 1 - busy[r]

\* A process that has not started has left no done file.
NotYet == \A r \in Probe!Run, n \in 1 .. StartBound : n > self => done[r][n] = "none"

ProbeIInv ==
  /\ Probe!ProbeTypeOK /\ (awake => self >= 1)
  /\ BusyIsFresh /\ NotYet /\ ReportIsWhole

\* A directory without requests satisfies the invariant.
LEMMA ProbeInitIInv == Probe!ProbeInit => ProbeIInv
<1> SUFFICES ASSUME Probe!ProbeInit PROVE ProbeIInv
  OBVIOUS
<1> USE BoundsAssumption DEF Probe!ProbeInit
<1>1. rows \in [Probe!Run -> [1 .. StartBound -> 0 .. Probes]]
  OBVIOUS
<1>2. done \in [Probe!Run -> [1 .. StartBound -> {"none", "ok", "failed"}]]
  OBVIOUS
<1>3. Probe!ProbeTypeOK
  <2>1. request \in [Probe!Run -> {"none", "half", "whole"}] /\ busy \in [Probe!Run -> 0 .. Probes + 1]
    OBVIOUS
  <2>2. self \in 0 .. StartBound
    OBVIOUS
  <2>3. awake \in BOOLEAN /\ noticed \subseteq Probe!Run /\ lost \subseteq Probe!Run
    BY Zenon
  <2> QED BY <1>1, <1>2, <2>1, <2>2, <2>3, Zenon DEF Probe!ProbeTypeOK
<1>4. BusyIsFresh /\ NotYet /\ ReportIsWhole
  BY DEF BusyIsFresh, NotYet, ReportIsWhole, Probe!ReportIsWhole
<1> QED BY <1>3, <1>4 DEF ProbeIInv

\* Steps that leave the output files and the runs under way alone.
LEMMA ProbeFilesStand ==
  ASSUME ProbeIInv, UNCHANGED <<rows, done, self, busy>>, awake' \in BOOLEAN, awake' => awake,
         request' \in [Probe!Run -> {"none", "half", "whole"}],
         noticed' \subseteq Probe!Run, lost' \subseteq Probe!Run
  PROVE  ProbeIInv'
  BY DEF ProbeIInv, Probe!ProbeTypeOK, BusyIsFresh, NotYet, ReportIsWhole, Probe!ReportIsWhole

\* A start finds no done file under its new id, and no run under way.
LEMMA StartKeepsProbe == ASSUME ProbeIInv, Probe!StartRelay PROVE ProbeIInv'
<1> USE BoundsAssumption
<1>1. self \in Nat /\ self' = self + 1 /\ self' \in 1 .. StartBound
  BY DEF Probe!StartRelay, ProbeIInv, Probe!ProbeTypeOK
<1>2. UNCHANGED <<request, rows, done, lost>> /\ noticed' = {} /\ awake' = TRUE
      /\ busy' = [r \in Probe!Run |-> 0]
  BY DEF Probe!StartRelay, Probe!probeFiles
<1>3. Probe!ProbeTypeOK'
  BY <1>1, <1>2 DEF ProbeIInv, Probe!ProbeTypeOK
<1>4. BusyIsFresh' /\ NotYet' /\ ReportIsWhole'
  BY <1>1, <1>2 DEF ProbeIInv, BusyIsFresh, NotYet, ReportIsWhole, Probe!ReportIsWhole
<1> QED BY <1>1, <1>2, <1>3, <1>4 DEF ProbeIInv

\* A poll starts a run that has no done file of this process, with an output
\* file it has just emptied.
LEMMA PollKeepsProbe == ASSUME ProbeIInv, Probe!PollRequests PROVE ProbeIInv'
<1> USE BoundsAssumption
<1> DEFINE Taken(r) == r \in Probe!Looked /\ Probe!Fit(r)
<1>1. /\ awake /\ Probe!Idle
      /\ busy' = [r \in Probe!Run |-> IF Taken(r) THEN busy[r] + Probes + 1 ELSE busy[r]]
      /\ rows' = [r \in Probe!Run |-> IF Taken(r) THEN [rows[r] EXCEPT ![self] = 0] ELSE rows[r]]
      /\ UNCHANGED <<request, done, self, awake>>
      /\ noticed' = noticed \cup {r \in Probe!Looked : ~Probe!Fit(r)}
      /\ lost' = lost \cup {r \in Probe!Looked : Probe!Useless(r)}
  BY DEF Probe!PollRequests, Probe!Look
<1>2. Probe!Looked \subseteq Probe!Run /\ self \in 1 .. StartBound
  BY <1>1 DEF Probe!Looked, Probe!Files, ProbeIInv, Probe!ProbeTypeOK
<1>3. \A r \in Probe!Run : Taken(r) => busy[r] = 0 /\ done[r][self] = "none"
  BY <1>1 DEF Probe!Idle, Probe!Fit, Probe!Passed
<1> HIDE DEF Taken
<1>4. Probe!ProbeTypeOK'
  <2>1. busy' \in [Probe!Run -> 0 .. Probes + 1]
    BY <1>1, <1>3 DEF ProbeIInv, Probe!ProbeTypeOK
  <2>2. rows' \in [Probe!Run -> [1 .. StartBound -> 0 .. Probes]]
    BY <1>1, <1>2 DEF ProbeIInv, Probe!ProbeTypeOK
  <2> QED BY <1>1, <1>2, <2>1, <2>2 DEF ProbeIInv, Probe!ProbeTypeOK
<1>5. BusyIsFresh'
  <2> SUFFICES ASSUME NEW r \in Probe!Run, busy'[r] > 0
               PROVE done[r][self] = "none" /\ rows'[r][self] = Probes + 1 - busy'[r]
    BY <1>1, <1>2 DEF BusyIsFresh
  <2>1. Taken(r)
    BY <1>1 DEF Probe!Idle
  <2> QED BY <1>1, <1>2, <1>3, <2>1 DEF ProbeIInv, Probe!ProbeTypeOK
<1>6. NotYet'
  BY <1>1 DEF ProbeIInv, NotYet
<1>7. ReportIsWhole'
  BY <1>1, <1>2, <1>3 DEF ProbeIInv, Probe!ProbeTypeOK, ReportIsWhole, Probe!ReportIsWhole
<1> QED BY <1>1, <1>4, <1>5, <1>6, <1>7 DEF ProbeIInv

\* A probe and its row; the end of a run, with its done file.
LEMMA RunKeepsProbe ==
  ASSUME ProbeIInv, NEW r \in Probe!Run, Probe!ProbeOne(r) \/ Probe!FinishRun(r) \/ Probe!FailRun(r)
  PROVE  ProbeIInv'
<1> USE BoundsAssumption
<1>1. /\ UNCHANGED <<request, self, awake>> /\ busy[r] > 0 /\ busy[r] \in 0 .. Probes + 1
      /\ self \in 1 .. StartBound
      /\ done[r][self] = "none" /\ rows[r][self] = Probes + 1 - busy[r]
  BY DEF Probe!ProbeOne, Probe!FinishRun, Probe!FailRun, ProbeIInv, Probe!ProbeTypeOK, BusyIsFresh
<1>2. CASE Probe!ProbeOne(r)
  <2>1. /\ busy[r] > 1 /\ busy' = [busy EXCEPT ![r] = @ - 1]
        /\ rows' = [rows EXCEPT ![r][self] = @ + 1] /\ UNCHANGED <<done, noticed, lost>>
    BY <1>2 DEF Probe!ProbeOne
  <2>2. \A q \in Probe!Run, n \in 1 .. StartBound :
          rows'[q][n] = IF q = r /\ n = self THEN rows[q][n] + 1 ELSE rows[q][n]
    BY <1>1, <2>1 DEF ProbeIInv, Probe!ProbeTypeOK
  <2>3. \A q \in Probe!Run : busy'[q] = IF q = r THEN busy[q] - 1 ELSE busy[q]
    BY <2>1 DEF ProbeIInv, Probe!ProbeTypeOK
  <2>4. [rows[r] EXCEPT ![self] = @ + 1] \in [1 .. StartBound -> 0 .. Probes]
    <3>1. rows[r] \in [1 .. StartBound -> 0 .. Probes]
      BY DEF ProbeIInv, Probe!ProbeTypeOK
    <3>2. rows[r][self] + 1 \in 0 .. Probes
      BY <1>1, <2>1
    <3> QED BY <1>1, <3>1, <3>2
  <2>5. rows' \in [Probe!Run -> [1 .. StartBound -> 0 .. Probes]]
    BY <2>1, <2>4 DEF ProbeIInv, Probe!ProbeTypeOK
  <2>6. busy' \in [Probe!Run -> 0 .. Probes + 1]
    BY SMTT(30), <1>1, <2>1 DEF ProbeIInv, Probe!ProbeTypeOK
  <2>7. Probe!ProbeTypeOK'
    BY <1>1, <2>1, <2>5, <2>6 DEF ProbeIInv, Probe!ProbeTypeOK
  <2>8. BusyIsFresh'
    <3>1. SUFFICES ASSUME NEW q \in Probe!Run, busy'[q] > 0
                   PROVE  self' \in 1 .. StartBound /\ done'[q][self'] = "none"
                          /\ rows'[q][self'] = Probes + 1 - busy'[q]
      BY DEF BusyIsFresh
    <3>2. busy[q] > 0 /\ self' = self /\ done' = done /\ busy[q] \in Nat /\ Probes \in Nat
      BY <1>1, <2>1, <2>3, <3>1, BoundsAssumption DEF ProbeIInv, Probe!ProbeTypeOK
    <3>3. self \in 1 .. StartBound /\ done[q][self] = "none" /\ rows[q][self] = Probes + 1 - busy[q]
      BY <3>2 DEF ProbeIInv, BusyIsFresh
    <3>4. CASE q = r
      BY <2>2, <2>3, <3>2, <3>3, <3>4
    <3>5. CASE q # r
      BY <2>2, <2>3, <3>2, <3>3, <3>5
    <3> QED BY <3>4, <3>5
  <2>9. NotYet' /\ ReportIsWhole'
    BY <1>1, <2>1, <2>2 DEF ProbeIInv, NotYet, ReportIsWhole, Probe!ReportIsWhole
  <2> QED BY <1>1, <2>7, <2>8, <2>9 DEF ProbeIInv
<1>3. CASE Probe!FinishRun(r) \/ Probe!FailRun(r)
  <2>1. /\ busy' = [busy EXCEPT ![r] = 0] /\ rows' = rows /\ noticed' = noticed \cup {r}
        /\ lost' = lost \/ lost' = lost \cup {r}
        /\ \/ busy[r] = 1 /\ done' = [done EXCEPT ![r][self] = "ok"]
           \/ done' = [done EXCEPT ![r][self] = "failed"]
           \/ done' = done
    BY <1>3 DEF Probe!FinishRun, Probe!FailRun
  <2>2. /\ \A q \in Probe!Run, n \in 1 .. StartBound :
             done'[q][n] # done[q][n] => q = r /\ n = self /\ (done'[q][n] = "ok" => busy[r] = 1)
        /\ \A q \in Probe!Run : busy'[q] = IF q = r THEN 0 ELSE busy[q]
    <3>1. /\ DOMAIN done = Probe!Run /\ DOMAIN busy = Probe!Run
          /\ \A q \in Probe!Run : DOMAIN done[q] = 1 .. StartBound
      BY DEF ProbeIInv, Probe!ProbeTypeOK
    <3> QED BY <2>1, <3>1
  <2>3. done' \in [Probe!Run -> [1 .. StartBound -> {"none", "ok", "failed"}]]
    <3>1. done[r] \in [1 .. StartBound -> {"none", "ok", "failed"}]
      BY DEF ProbeIInv, Probe!ProbeTypeOK
    <3>2. \A d \in {"ok", "failed"} :
            [done[r] EXCEPT ![self] = d] \in [1 .. StartBound -> {"none", "ok", "failed"}]
      BY <3>1
    <3> QED BY <2>1, <3>2 DEF ProbeIInv, Probe!ProbeTypeOK
  <2>4. busy' \in [Probe!Run -> 0 .. Probes + 1]
    BY <2>1 DEF ProbeIInv, Probe!ProbeTypeOK
  <2>5. Probe!ProbeTypeOK'
    BY <1>1, <2>1, <2>3, <2>4 DEF ProbeIInv, Probe!ProbeTypeOK
  <2>6. BusyIsFresh'
    BY <1>1, <2>1, <2>2 DEF ProbeIInv, BusyIsFresh
  <2>7. NotYet'
    BY <1>1, <2>1, <2>2 DEF ProbeIInv, NotYet
  <2>8. ReportIsWhole'
    BY <1>1, <2>1, <2>2 DEF ProbeIInv, ReportIsWhole, Probe!ReportIsWhole
  <2> QED BY <1>1, <2>5, <2>6, <2>7, <2>8 DEF ProbeIInv
<1> QED BY <1>2, <1>3

\* Every step of the worker and of whoever writes requests.
LEMMA StepKeepsProbe == ASSUME ProbeIInv, [Probe!ProbeStep]_probeVs PROVE ProbeIInv'
<1>1. ASSUME NEW r \in Probe!Run, Probe!DropRequest(r) \/ Probe!CloseRequest(r) PROVE ProbeIInv'
  <2>1. /\ UNCHANGED <<rows, done, self, awake, noticed, busy, lost>>
        /\ \E how \in {"half", "whole"} : request' = [request EXCEPT ![r] = how]
    BY <1>1 DEF Probe!DropRequest, Probe!CloseRequest
  <2>2. request' \in [Probe!Run -> {"none", "half", "whole"}]
    BY <2>1 DEF ProbeIInv, Probe!ProbeTypeOK
  <2> QED BY <2>1, <2>2, ProbeFilesStand DEF ProbeIInv, Probe!ProbeTypeOK
<1>2. CASE Probe!StopWorker
  BY <1>2, ProbeFilesStand DEF Probe!StopWorker, Probe!probeFiles, ProbeIInv, Probe!ProbeTypeOK
<1>3. CASE UNCHANGED probeVs
  BY <1>3, ProbeFilesStand DEF probeVs, ProbeIInv, Probe!ProbeTypeOK
<1> QED BY <1>1, <1>2, <1>3, StartKeepsProbe, PollKeepsProbe, RunKeepsProbe DEF Probe!ProbeStep

\* A done file that reports success stands beside a file with every row of its
\* matrix, whatever polls, stops and restarts do while it is written (probe.js
\* 106-136): for any number of runs, starts and probes.
THEOREM ReportsAreWhole == DaemonSpec => []ReportIsWhole
<1>1. DaemonInit => ProbeIInv
  BY ProbeInitIInv DEF DaemonInit
<1>2. ProbeIInv /\ [DaemonNext]_daemonVars => ProbeIInv'
  BY ProbePart, StepKeepsProbe
<1>3. ProbeIInv => ReportIsWhole
  BY DEF ProbeIInv
<1> QED BY <1>1, <1>2, <1>3, PTL DEF DaemonSpec

-----------------------------------------------------------------------------
(* The collector: no result is on file twice.                               *)

\* What is on file is there once, and the process that runs knows it: it read
\* the file when it started, and noted what it has written since.
OnFileIsKnown ==
  /\ logged \in [Result -> 0 .. 1] /\ known \subseteq Result
  /\ \A r \in Result : r \notin known => logged[r] = 0

\* The start of a process reads the file, a message is written at most when it
\* is not known, and nothing else touches either.
LEMMA StepKeepsFile ==
  ASSUME OnFileIsKnown, [Results!CollectorStep]_collectorVs PROVE OnFileIsKnown'
<1>1. CASE Results!BootCollector
  <2>1. logged' = logged /\ known' = {r \in Result : logged[r] > 0}
    BY <1>1 DEF Results!BootCollector
  <2> QED BY <2>1 DEF OnFileIsKnown
<1>2. ASSUME NEW r \in Result, Results!OnMessage(r) PROVE OnFileIsKnown'
  <2>1. /\ r \notin known /\ known' = known \cup {r}
        /\ logged' = [logged EXCEPT ![r] = @ + 1] \/ logged' = logged
    BY <1>2 DEF Results!OnMessage
  <2>2. logged[r] = 0
    BY <2>1 DEF OnFileIsKnown
  <2>3. CASE logged' = logged
    BY <2>1, <2>3 DEF OnFileIsKnown
  <2>4. CASE logged' = [logged EXCEPT ![r] = @ + 1]
    BY <2>1, <2>2, <2>4 DEF OnFileIsKnown
  <2> QED BY <2>1, <2>3, <2>4
<1>3. ASSUME UNCHANGED <<logged, known>> PROVE OnFileIsKnown'
  BY <1>3 DEF OnFileIsKnown
<1>4. CASE UNCHANGED collectorVs
  BY <1>3, <1>4 DEF collectorVs
<1>5. CASE \/ Results!AttemptTimesOut \/ Results!Closed \/ Results!Cleared \/ Results!TryAgain
           \/ Results!CheckHealth \/ Results!PublishBoard \/ Results!BoardOut
  BY <1>3, <1>5 DEF Results!AttemptTimesOut, Results!Closed, Results!Cleared, Results!TryAgain,
     Results!CheckHealth, Results!PublishBoard, Results!BoardOut, Results!files
<1>6. CASE Results!Interrupt \/ Results!Exit \/ Results!Killed
  BY <1>3, <1>6 DEF Results!Interrupt, Results!Exit, Results!Killed, Results!files
<1>7. ASSUME NEW p \in PeerSlot,
             \/ Results!Dialed(p) \/ Results!Joined(p) \/ Results!AttemptFails(p) \/ Results!LinkLost(p)
      PROVE OnFileIsKnown'
  BY <1>3, <1>7 DEF Results!Dialed, Results!Joined, Results!AttemptFails, Results!LinkLost, Results!files
<1> QED BY <1>1, <1>2, <1>4, <1>5, <1>6, <1>7 DEF Results!CollectorStep

\* A result is on file at most once, over restarts, reconnects that replay the
\* topic and a late attempt beside the current one (pow-collector.js 52-58,
\* 83-88, 139-141): for any number of results and peers.
THEOREM NothingLoggedTwice == DaemonSpec => []LoggedOnce
<1>1. DaemonInit => OnFileIsKnown
  BY DEF DaemonInit, Results!CollectorInit, OnFileIsKnown
<1>2. OnFileIsKnown /\ [DaemonNext]_daemonVars => OnFileIsKnown'
  BY CollectorPart, StepKeepsFile
<1>3. OnFileIsKnown => LoggedOnce
  BY DEF OnFileIsKnown, LoggedOnce, Results!LoggedOnce
<1> QED BY <1>1, <1>2, <1>3, PTL DEF DaemonSpec

-----------------------------------------------------------------------------
(* The fleet: a restart keeps all relays but one, an exit leaves none.      *)

\* Relays of a slot are spawned in order, all slots once the launch is over;
\* the loops work on slots, and the restart waits for the relay it can reach.
Numbered ==
  /\ \A i \in Relays!Slot, r \in Relays!Relay : r > latest[i] => proc[i][r] = "none"
  /\ fleet \in {"run", "exit"} => 1 \in Relays!Slot /\ \A i \in Relays!Slot : latest[i] > 0
  /\ fleet \notin {"run", "exit"} => restart.stage = "off" /\ stop.stage = "off"
  /\ restart.stage # "off" => restart.slot \in Relays!Slot
  /\ restart.stage = "stop" => restart.relay = latest[restart.slot]
  /\ stop.stage = "stop" => stop.slot \in Relays!Slot /\ stop.relay <= latest[stop.slot]
  /\ stop.stage = "off" => fleet # "exit"

\* A slot whose latest relay does not run and is not the one being restarted.
Down ==
  {i \in Relays!Slot : /\ latest[i] > 0 /\ proc[i][latest[i]] # "up"
                       /\ ~(restart.slot = i /\ restart.stage \in {"stop", "heal"})}

\* Until a stop is asked for, each of these has crashed.
OnlyCrashesCount == stop.stage = "off" => Cardinality(Down) <= crashes

\* The record of an exit speaks of the latest relay, or is known to be mistaken.
ExitedIsGone ==
  \A i \in Relays!Slot : exited[i] => i \in mistaken \/ (latest[i] > 0 /\ proc[i][latest[i]] = "gone")

\* A slot without a mistaken record runs no relay but its latest, and none when
\* the restart is about to spawn the next.
OnlyLatest ==
  \A i \in Relays!Slot, r \in Relays!Relay : Relays!Running(i, r) => r = latest[i] \/ i \in mistaken
HealedSlot ==
  restart.stage = "heal" =>
    restart.slot \in mistaken \/ ~Relays!Running(restart.slot, latest[restart.slot])

\* What a stop that met no restart has passed does not run any more.
StopPassed ==
  (stop.stage # "off" /\ ~overlap) =>
    /\ restart.stage = "off"
    /\ mistaken = {} =>
         /\ \A i \in Relays!Slot : i < stop.slot => ~Relays!Running(i, latest[i])
         /\ (stop.stage = "heal" /\ fleet = "run") =>
              stop.slot \in Relays!Slot /\ ~Relays!Running(stop.slot, latest[stop.slot])
         /\ stop.stage = "stop" => stop.relay = latest[stop.slot]

FleetIInv ==
  /\ Relays!FleetTypeOK /\ Numbered /\ OnlyCrashesCount
  /\ ExitedIsGone /\ OnlyLatest /\ HealedSlot /\ StopPassed
  /\ Relays!ExitLeavesNoRelay

\* The slots are finitely many.
LEMMA SlotsFinite == IsFiniteSet(Relays!Slot) /\ IsFiniteSet(Down) /\ Cardinality(Down) \in Nat
<1>1. IsFiniteSet(Relays!Slot)
  BY FS_Interval, BoundsAssumption DEF Relays!Slot
<1>2. Down \subseteq Relays!Slot
  BY DEF Down
<1> QED BY <1>1, <1>2, FS_Subset, FS_CardinalityType

\* Only a crash makes a slot more count.
LEMMA DownShrinks ==
  ASSUME FleetIInv, Down' \subseteq Down, crashes' = crashes, stop'.stage = "off" => stop.stage = "off"
  PROVE  OnlyCrashesCount'
<1>1. Cardinality(Down') <= Cardinality(Down) /\ Cardinality(Down') \in Nat
  BY SlotsFinite, FS_Subset, FS_CardinalityType
<1> QED BY <1>1, SlotsFinite DEF FleetIInv, OnlyCrashesCount, Relays!FleetTypeOK

\* A supervisor that has launched nothing satisfies the invariant.
LEMMA FleetInitIInv == Relays!FleetInit => FleetIInv
<1> SUFFICES ASSUME Relays!FleetInit PROVE FleetIInv
  OBVIOUS
<1> USE BoundsAssumption
<1>1. Relays!FleetTypeOK
  <2>1. restart \in Relays!Rolling /\ stop \in Relays!Rolling
    BY DEF Relays!FleetInit, Relays!Rolling, Relays!Off
  <2>2. proc \in [Relays!Slot -> [Relays!Relay -> {"none", "up", "leaving", "killed", "gone"}]]
    BY DEF Relays!FleetInit
  <2>3. latest \in [Relays!Slot -> 0 .. RelayBound] /\ crashes \in 0 .. CrashBound /\ mistaken \subseteq Relays!Slot
    BY DEF Relays!FleetInit
  <2>4. exited \in [Relays!Slot -> BOOLEAN] /\ overlap \in BOOLEAN
    BY Zenon DEF Relays!FleetInit
  <2>5. fleet = "launch"
    BY DEF Relays!FleetInit
  <2> QED BY <2>1, <2>2, <2>3, <2>4, <2>5 DEF Relays!FleetTypeOK
<1>2. Numbered /\ ExitedIsGone
  BY DEF Relays!FleetInit, Relays!Off, Numbered, ExitedIsGone
<1>3. OnlyLatest /\ HealedSlot /\ StopPassed /\ Relays!ExitLeavesNoRelay
  BY DEF Relays!FleetInit, Relays!Off, OnlyLatest, HealedSlot, StopPassed, Relays!Running,
         Relays!ExitLeavesNoRelay
<1>4. OnlyCrashesCount
  <2>1. Down = {}
    BY DEF Relays!FleetInit, Down
  <2> QED BY <2>1, FS_EmptySet DEF Relays!FleetInit, OnlyCrashesCount
<1> QED BY <1>1, <1>2, <1>3, <1>4 DEF FleetIInv

States == {"none", "up", "leaving", "killed", "gone"}

\* One entry of a table of tables is written.
LEMMA EntryWritten ==
  ASSUME NEW S, NEW T, NEW V, NEW P \in [S -> [T -> V]], NEW i \in S, NEW r, NEW v \in V,
         NEW Q, Q = [P EXCEPT ![i][r] = v]
  PROVE  /\ Q \in [S -> [T -> V]]
         /\ \A j \in S, q \in T : Q[j][q] = IF j = i /\ q = r THEN v ELSE P[j][q]
<1>1. [P[i] EXCEPT ![r] = v] \in [T -> V]
  OBVIOUS
<1>2. Q = [P EXCEPT ![i] = [P[i] EXCEPT ![r] = v]]
  OBVIOUS
<1> QED BY <1>1, <1>2

\* SIGTERM to the latest relay of a slot: it runs on until it has left.
LEMMA SlotTerminated ==
  ASSUME FleetIInv, fleet = "run", NEW i \in Relays!Slot
  PROVE  proc' = Relays!Terminated(i) =>
           /\ proc' \in [Relays!Slot -> [Relays!Relay -> States]] /\ latest[i] \in Relays!Relay
           /\ \A j \in Relays!Slot, q \in Relays!Relay :
                /\ j # i \/ q # latest[i] => proc'[j][q] = proc[j][q]
                /\ proc'[j][q] = proc[j][q] \/ (proc[j][q] = "up" /\ proc'[j][q] = "leaving")
<1> SUFFICES ASSUME proc' = [proc EXCEPT ![i][latest[i]] = IF @ = "up" THEN "leaving" ELSE @]
             PROVE  /\ proc' \in [Relays!Slot -> [Relays!Relay -> States]] /\ latest[i] \in Relays!Relay
                    /\ \A j \in Relays!Slot, q \in Relays!Relay :
                         /\ j # i \/ q # latest[i] => proc'[j][q] = proc[j][q]
                         /\ proc'[j][q] = proc[j][q] \/ (proc[j][q] = "up" /\ proc'[j][q] = "leaving")
  BY DEF Relays!Terminated
<1>1. latest[i] \in Relays!Relay
  BY BoundsAssumption DEF FleetIInv, Numbered, Relays!FleetTypeOK, Relays!Relay
<1>2. proc \in [Relays!Slot -> [Relays!Relay -> States]]
  BY DEF FleetIInv, Relays!FleetTypeOK, States
<1>3. [proc[i] EXCEPT ![latest[i]] = IF @ = "up" THEN "leaving" ELSE @] \in [Relays!Relay -> States]
  BY <1>1, <1>2 DEF States
<1>4. proc' \in [Relays!Slot -> [Relays!Relay -> States]]
  BY <1>2, <1>3
<1>5. \A j \in Relays!Slot, q \in Relays!Relay :
        /\ j # i \/ q # latest[i] => proc'[j][q] = proc[j][q]
        /\ proc'[j][q] = proc[j][q] \/ (proc[j][q] = "up" /\ proc'[j][q] = "leaving")
  BY <1>1, <1>2
<1> QED BY <1>1, <1>4, <1>5

\* A relay is spawned into a slot in which nothing runs, or nothing reliable
\* is known of.
LEMMA SpawnKeepsFleet ==
  ASSUME FleetIInv, NEW i \in Relays!Slot, Relays!spawnRelay(i), mistaken' = mistaken,
         latest[i] = 0 \/ i \in mistaken \/ ~Relays!Running(i, latest[i])
  PROVE  /\ proc' \in [Relays!Slot -> [Relays!Relay -> {"none", "up", "leaving", "killed", "gone"}]]
         /\ latest' \in [Relays!Slot -> 0 .. RelayBound] /\ exited' \in [Relays!Slot -> BOOLEAN]
         /\ \A j \in Relays!Slot, r \in Relays!Relay : r > latest'[j] => proc'[j][r] = "none"
         /\ \A j \in Relays!Slot : latest'[j] >= latest[j] /\ (j # i => latest'[j] = latest[j])
         /\ latest'[i] > 0 /\ proc'[i][latest'[i]] = "up"
         /\ \A j \in Relays!Slot : j # i => proc'[j] = proc[j]
         /\ ExitedIsGone' /\ OnlyLatest'
<1> USE BoundsAssumption
<1>1. /\ latest[i] \in 0 .. RelayBound /\ latest[i] < RelayBound
      /\ latest' = [latest EXCEPT ![i] = latest[i] + 1]
      /\ proc' = [proc EXCEPT ![i][latest[i] + 1] = "up"] /\ exited' = [exited EXCEPT ![i] = FALSE]
  BY DEF Relays!spawnRelay, FleetIInv, Relays!FleetTypeOK
<1>2. latest[i] + 1 \in Relays!Relay
  BY <1>1 DEF Relays!Relay
<1>3. latest' \in [Relays!Slot -> 0 .. RelayBound]
  BY <1>1 DEF FleetIInv, Relays!FleetTypeOK
<1>4. exited' \in [Relays!Slot -> BOOLEAN]
  BY <1>1, Zenon DEF FleetIInv, Relays!FleetTypeOK
<1>5. /\ proc' \in [Relays!Slot -> [Relays!Relay -> {"none", "up", "leaving", "killed", "gone"}]]
      /\ \A j \in Relays!Slot, q \in Relays!Relay :
           proc'[j][q] = IF j = i /\ q = latest[i] + 1 THEN "up" ELSE proc[j][q]
  <2>1. proc \in [Relays!Slot -> [Relays!Relay -> States]] /\ "up" \in States
    BY DEF FleetIInv, Relays!FleetTypeOK, States
  <2> QED BY <1>1, <2>1, EntryWritten DEF States
<1>6. \A j \in Relays!Slot : latest'[j] = IF j = i THEN latest[i] + 1 ELSE latest[j]
  BY <1>1 DEF FleetIInv, Relays!FleetTypeOK
<1>7. \A j \in Relays!Slot : latest[j] \in Nat
  BY DEF FleetIInv, Relays!FleetTypeOK
<1>8. \A j \in Relays!Slot : j # i => proc'[j] = proc[j]
  BY <1>1 DEF FleetIInv, Relays!FleetTypeOK
<1>9. \A j \in Relays!Slot, r \in Relays!Relay : r > latest'[j] => proc'[j][r] = "none"
  <2> SUFFICES ASSUME NEW j \in Relays!Slot, NEW r \in Relays!Relay, r > latest'[j]
               PROVE proc'[j][r] = "none"
    OBVIOUS
  <2>1. r > latest[j] /\ ~(j = i /\ r = latest[i] + 1)
    BY <1>6, <1>7 DEF Relays!Relay
  <2> QED BY <1>5, <2>1 DEF FleetIInv, Numbered
<1>10. ExitedIsGone'
  BY <1>1, <1>6, <1>8 DEF FleetIInv, ExitedIsGone, Relays!FleetTypeOK
<1>11. OnlyLatest'
  <2> SUFFICES ASSUME NEW j \in Relays!Slot, NEW r \in Relays!Relay, Relays!Running(j, r)',
                      j \notin mistaken
               PROVE r = latest'[j]
    BY DEF OnlyLatest
  <2>1. CASE j # i
    BY <1>5, <1>6, <2>1 DEF FleetIInv, OnlyLatest, Relays!Running
  <2>2. CASE j = i
    <3> SUFFICES ASSUME r # latest[i] + 1 PROVE FALSE
      BY <1>6, <2>2
    <3>1. Relays!Running(i, r)
      BY <1>5, <2>2 DEF Relays!Running
    <3>2. r = latest[i]
      BY <2>2, <3>1 DEF FleetIInv, OnlyLatest
    <3> QED BY <2>2, <3>1, <3>2 DEF Relays!Relay
  <2> QED BY <2>1, <2>2
<1> QED BY <1>1, <1>2, <1>3, <1>4, <1>5, <1>6, <1>7, <1>8, <1>9, <1>10, <1>11

\* The launch, and the spawn of a restart that has waited its delay.
LEMMA SpawnsKeepFleet ==
  ASSUME FleetIInv, NEW i \in Relays!Slot,
         \/ Relays!Launch(i)
         \/ Relays!RestartHealed /\ i = restart.slot
  PROVE  FleetIInv'
<1> USE BoundsAssumption
<1>1. /\ Relays!spawnRelay(i) /\ UNCHANGED <<stop, overlap, mistaken, crashes>>
      /\ latest[i] = 0 \/ i \in mistaken \/ ~Relays!Running(i, latest[i])
  BY DEF Relays!Launch, Relays!RestartHealed, Relays!history, FleetIInv, HealedSlot
<1>2. /\ proc' \in [Relays!Slot -> [Relays!Relay -> States]]
      /\ latest' \in [Relays!Slot -> 0 .. RelayBound] /\ exited' \in [Relays!Slot -> BOOLEAN]
      /\ \A j \in Relays!Slot, r \in Relays!Relay : r > latest'[j] => proc'[j][r] = "none"
      /\ \A j \in Relays!Slot : latest'[j] >= latest[j] /\ (j # i => latest'[j] = latest[j])
      /\ latest'[i] > 0 /\ proc'[i][latest'[i]] = "up"
      /\ \A j \in Relays!Slot : j # i => proc'[j] = proc[j]
      /\ ExitedIsGone' /\ OnlyLatest'
  BY <1>1, SpawnKeepsFleet DEF States
<1>3. /\ \A j \in Relays!Slot : latest[j] \in Nat /\ latest'[j] \in Nat
      /\ restart \in Relays!Rolling /\ stop \in Relays!Rolling
  BY <1>2 DEF FleetIInv, Relays!FleetTypeOK
<1>4. CASE Relays!Launch(i)
  <2>1. /\ fleet = "launch" /\ latest[i] = 0 /\ \A j \in Relays!Slot : j < i => latest[j] > 0
        /\ fleet' = IF i = SlotCount THEN "run" ELSE fleet
        /\ restart' = restart /\ restart.stage = "off" /\ stop.stage = "off"
    BY <1>4 DEF Relays!Launch, FleetIInv, Numbered
  <2>2. Relays!FleetTypeOK'
    BY <1>1, <1>2, <2>1 DEF FleetIInv, Relays!FleetTypeOK, States
  <2>3. fleet' = "run" => 1 \in Relays!Slot /\ \A j \in Relays!Slot : latest'[j] > 0
    <3> SUFFICES ASSUME i = SlotCount PROVE 1 \in Relays!Slot /\ \A j \in Relays!Slot : latest'[j] > 0
      BY <2>1
    <3>1. 1 \in Relays!Slot /\ \A j \in Relays!Slot : j # i => j < i
      BY DEF Relays!Slot
    <3>2. \A j \in Relays!Slot : j # i => latest'[j] > 0
      BY <1>2, <2>1, <3>1
    <3> QED BY <1>2, <3>1, <3>2
  <2>4. Numbered'
    BY <1>1, <1>2, <2>1, <2>3 DEF FleetIInv, Numbered
  <2>5. Down' \subseteq Down
    BY <1>2, <2>1 DEF Down
  <2>6. HealedSlot' /\ StopPassed' /\ Relays!ExitLeavesNoRelay'
    BY <1>1, <2>1 DEF HealedSlot, StopPassed, Relays!ExitLeavesNoRelay
  <2> QED BY <1>1, <1>2, <2>2, <2>4, <2>5, <2>6, DownShrinks DEF FleetIInv
<1>5. CASE Relays!RestartHealed /\ i = restart.slot
  <2>1. /\ fleet = "run" /\ fleet' = "run" /\ restart.stage = "heal"
        /\ restart' = [restart EXCEPT !.stage = "mesh"]
    BY <1>5 DEF Relays!RestartHealed
  <2>2. restart' \in Relays!Rolling /\ restart'.stage = "mesh" /\ restart'.slot = i
    BY <1>3, <1>5, <2>1 DEF Relays!Rolling
  <2>3. Relays!FleetTypeOK'
    BY <1>1, <1>2, <2>1, <2>2 DEF FleetIInv, Relays!FleetTypeOK, States
  <2>4. \A j \in Relays!Slot : latest[j] > 0 /\ latest'[j] > 0
    BY <1>2, <1>3, <2>1 DEF FleetIInv, Numbered
  <2>5. Numbered'
    <3>1. stop.stage = "stop" => stop.relay <= latest'[stop.slot]
      BY <1>2, <1>3 DEF FleetIInv, Numbered, Relays!Rolling
    <3> QED BY <1>1, <1>2, <2>1, <2>2, <2>4, <3>1 DEF FleetIInv, Numbered
  <2>6. Down' \subseteq Down
    BY <1>2, <1>5, <2>1, <2>2, <2>4 DEF Down
  <2>7. HealedSlot' /\ StopPassed' /\ Relays!ExitLeavesNoRelay'
    BY <1>1, <2>1, <2>2 DEF FleetIInv, HealedSlot, StopPassed, Relays!ExitLeavesNoRelay
  <2> QED BY <1>1, <1>2, <2>3, <2>5, <2>6, <2>7, DownShrinks DEF FleetIInv
<1> QED BY <1>4, <1>5

\* The restart turns to a slot that has ended, or signals its latest relay.
LEMMA RestartKeepsFleet ==
  ASSUME FleetIInv, Relays!rollingRestart \/ Relays!RestartGoesOn
  PROVE  FleetIInv'
<1> USE BoundsAssumption
<1>1. /\ fleet = "run" /\ restart.stage \in {"off", "accrue"}
      /\ restart.stage = "off" => stop.stage = "off"
      /\ UNCHANGED <<fleet, latest, exited, stop, overlap, mistaken, crashes>>
      /\ \/ restart' = Relays!Off /\ proc' = proc
         \/ restart.stage = "off" /\ Relays!RestartSlot(1)
         \/ restart.stage = "accrue" /\ restart.slot # SlotCount /\ Relays!RestartSlot(restart.slot + 1)
  BY DEF Relays!rollingRestart, Relays!RestartGoesOn, Relays!history, Relays!restarting, Relays!draining
<1>2. /\ \A j \in Relays!Slot : latest[j] \in Nat /\ latest[j] > 0 /\ latest[j] \in Relays!Relay
      /\ restart \in Relays!Rolling /\ stop \in Relays!Rolling
      /\ proc \in [Relays!Slot -> [Relays!Relay -> States]]
  BY <1>1 DEF FleetIInv, Relays!FleetTypeOK, Numbered, States, Relays!Relay
<1>3. ASSUME restart' = Relays!Off, proc' = proc PROVE FleetIInv'
  <2>1. restart' \in Relays!Rolling /\ restart'.stage = "off"
    BY <1>3 DEF Relays!Off, Relays!Rolling
  <2>2. Relays!FleetTypeOK'
    BY <1>1, <1>3, <2>1 DEF FleetIInv, Relays!FleetTypeOK
  <2>3. Down' \subseteq Down
    BY <1>1, <1>3, <2>1 DEF Down
  <2>4. Numbered' /\ ExitedIsGone' /\ OnlyLatest'
    BY <1>1, <1>3, <2>1 DEF FleetIInv, Numbered, ExitedIsGone, OnlyLatest, Relays!Running
  <2>5. HealedSlot' /\ StopPassed' /\ Relays!ExitLeavesNoRelay'
    BY <1>1, <1>3, <2>1 DEF FleetIInv, HealedSlot, StopPassed, Relays!ExitLeavesNoRelay
  <2> QED BY <1>1, <2>2, <2>3, <2>4, <2>5, DownShrinks DEF FleetIInv
<1>4. ASSUME NEW i \in Relays!Slot, Relays!RestartSlot(i) PROVE FleetIInv'
  <2>1. /\ proc' \in [Relays!Slot -> [Relays!Relay -> States]]
        /\ \A j \in Relays!Slot, q \in Relays!Relay :
             /\ j # i \/ q # latest[i] => proc'[j][q] = proc[j][q]
             /\ proc'[j][q] = proc[j][q] \/ (proc[j][q] = "up" /\ proc'[j][q] = "leaving")
    <3>1. CASE proc' = proc
      BY <1>2, <3>1
    <3>2. CASE proc' = Relays!Terminated(i)
      BY <1>1, <3>2, SlotTerminated
    <3> QED BY <1>4, <3>1, <3>2 DEF Relays!RestartSlot
  <2>2. /\ restart' \in Relays!Rolling /\ restart'.slot = i /\ restart'.stage \in {"stop", "heal"}
        /\ restart'.stage = "heal" => exited[i]
        /\ restart'.stage = "stop" => restart'.relay = latest[i]
    <3>1. CASE exited[i]
      BY <1>4, <3>1 DEF Relays!RestartSlot, Relays!Rolling, Relays!Slot
    <3>2. CASE ~exited[i]
      BY SMTT(30), <1>2, <1>4, <3>2 DEF Relays!RestartSlot, Relays!Rolling, Relays!Slot, Relays!Relay
    <3> QED BY <3>1, <3>2
  <2>3. Relays!FleetTypeOK'
    BY <1>1, <2>1, <2>2 DEF FleetIInv, Relays!FleetTypeOK, States
  <2>4. \A j \in Relays!Slot, q \in Relays!Relay : Relays!Running(j, q)' <=> Relays!Running(j, q)
    BY <2>1 DEF Relays!Running
  <2>5. Down' \subseteq Down
    BY <1>1, <1>2, <2>1, <2>2 DEF Down
  <2>6. Numbered'
    <3>1. \A j \in Relays!Slot, r \in Relays!Relay : r > latest[j] => proc'[j][r] = "none"
      BY <1>2, <2>1 DEF FleetIInv, Numbered
    <3> QED BY <1>1, <2>2, <3>1 DEF FleetIInv, Numbered
  <2>7. ExitedIsGone'
    BY <1>1, <1>2, <2>1 DEF FleetIInv, ExitedIsGone
  <2>8. OnlyLatest'
    BY <1>1, <2>4 DEF FleetIInv, OnlyLatest
  <2>9. HealedSlot'
    <3> SUFFICES ASSUME exited[i], i \notin mistaken PROVE ~Relays!Running(i, latest[i])'
      BY <1>1, <2>2 DEF HealedSlot, Relays!Running
    <3>1. proc[i][latest[i]] = "gone"
      BY DEF FleetIInv, ExitedIsGone
    <3> QED BY <1>1, <1>2, <2>1, <3>1 DEF Relays!Running
  <2>10. StopPassed' /\ Relays!ExitLeavesNoRelay'
    BY <1>1 DEF FleetIInv, StopPassed, Relays!ExitLeavesNoRelay
  <2> QED BY <1>1, <2>3, <2>5, <2>6, <2>7, <2>8, <2>9, <2>10, DownShrinks DEF FleetIInv
<1>5. restart.stage = "off" => 1 \in Relays!Slot
  BY <1>1 DEF FleetIInv, Numbered
<1>6. restart.stage = "accrue" /\ restart.slot # SlotCount => restart.slot + 1 \in Relays!Slot
  BY DEF FleetIInv, Numbered, Relays!Slot
<1> QED BY <1>1, <1>3, <1>4, <1>5, <1>6

\* The stop turns to the first slot that has not ended, or ends the supervisor.
LEMMA StopKeepsFleet ==
  ASSUME FleetIInv, Relays!rollingShutdown \/ Relays!StopGoesOn
  PROVE  FleetIInv'
<1> USE BoundsAssumption
<1>1. PICK from \in Nat :
        /\ Relays!StopFrom(from) /\ from > 0
        /\ \A j \in Relays!Slot : ~overlap' /\ mistaken = {} /\ j < from => ~Relays!Running(j, latest[j])
  <2>1. CASE Relays!rollingShutdown
    <3>1. \A j \in Relays!Slot : ~(j < 1)
      BY DEF Relays!Slot
    <3> QED BY <2>1, <3>1 DEF Relays!rollingShutdown
  <2>2. CASE Relays!StopGoesOn
    <3>1. /\ stop.stage = "heal" /\ fleet = "run" /\ Relays!StopFrom(stop.slot + 1) /\ overlap' = overlap
          /\ stop.slot \in Nat
      BY <2>2 DEF Relays!StopGoesOn, Relays!history, FleetIInv, Relays!FleetTypeOK, Relays!Rolling
    <3>2. \A j \in Relays!Slot : j < stop.slot + 1 => j < stop.slot \/ j = stop.slot
      BY <3>1 DEF Relays!Slot
    <3>3. \A j \in Relays!Slot : ~overlap /\ mistaken = {} /\ j < stop.slot + 1 => ~Relays!Running(j, latest[j])
      BY <3>1, <3>2 DEF FleetIInv, StopPassed
    <3> QED BY <3>1, <3>3
  <2> QED BY <2>1, <2>2
<1>2. /\ fleet = "run" /\ UNCHANGED <<latest, exited, restart, mistaken, crashes>> /\ overlap' \in BOOLEAN
      /\ ~overlap' => restart.stage = "off"
  <2>1. CASE Relays!rollingShutdown
    <3>1. overlap' = Relays!restarting
      BY <2>1 DEF Relays!rollingShutdown
    <3>2. overlap' \in BOOLEAN /\ (~overlap' => restart.stage = "off")
      BY <3>1, Zenon DEF Relays!restarting
    <3> QED BY <2>1, <3>2 DEF Relays!rollingShutdown
  <2>2. CASE Relays!StopGoesOn
    BY <2>2 DEF Relays!StopGoesOn, Relays!history, FleetIInv, Relays!FleetTypeOK, StopPassed
  <2> QED BY <2>1, <2>2
<1>3. /\ \A j \in Relays!Slot : latest[j] \in Nat /\ latest[j] > 0 /\ latest[j] \in Relays!Relay
      /\ restart \in Relays!Rolling /\ stop \in Relays!Rolling
      /\ proc \in [Relays!Slot -> [Relays!Relay -> States]]
  BY <1>2 DEF FleetIInv, Relays!FleetTypeOK, Numbered, States, Relays!Relay
<1>4. \A j \in Relays!Slot : exited[j] /\ mistaken = {} => ~Relays!Running(j, latest[j])
  BY DEF FleetIInv, ExitedIsGone, Relays!Running
<1> DEFINE remain == {j \in from .. SlotCount : ~exited[j]}
<1>5. CASE remain = {}
  <2>1. stop' = [Relays!Off EXCEPT !.stage = "heal"] /\ fleet' = "exit" /\ proc' = proc
    BY <1>1, <1>5 DEF Relays!StopFrom
  <2>2. stop' \in Relays!Rolling /\ stop'.stage = "heal"
    BY <2>1 DEF Relays!Off, Relays!Rolling
  <2>3. Relays!FleetTypeOK'
    BY <1>2, <2>1, <2>2 DEF FleetIInv, Relays!FleetTypeOK
  <2>4. \A j \in Relays!Slot : ~overlap' /\ mistaken = {} => ~Relays!Running(j, latest[j])
    <3> SUFFICES ASSUME NEW j \in Relays!Slot, ~overlap', mistaken = {} PROVE ~Relays!Running(j, latest[j])
      OBVIOUS
    <3>1. j < from \/ j \in from .. SlotCount
      BY DEF Relays!Slot
    <3>2. j \in from .. SlotCount => exited[j]
      BY <1>5
    <3> QED BY <1>1, <1>4, <3>1, <3>2
  <2>5. Numbered' /\ ExitedIsGone' /\ OnlyLatest' /\ HealedSlot'
    BY <1>2, <2>1, <2>2 DEF FleetIInv, Numbered, ExitedIsGone, OnlyLatest, HealedSlot, Relays!Running
  <2>6. StopPassed'
    BY <1>2, <2>1, <2>2, <2>4 DEF StopPassed, Relays!Running
  <2>7. Relays!ExitLeavesNoRelay'
    BY <1>2, <2>1, <2>4 DEF FleetIInv, OnlyLatest, Relays!ExitLeavesNoRelay, Relays!Running
  <2> QED BY <2>2, <2>3, <2>5, <2>6, <2>7 DEF FleetIInv, OnlyCrashesCount
<1>6. CASE remain # {}
  <2>1. PICK j \in remain :
          /\ \A k \in remain : j <= k
          /\ stop' = [slot |-> j, stage |-> "stop", relay |-> latest[j]]
          /\ proc' = Relays!Terminated(j) /\ fleet' = fleet
    BY <1>1, <1>6 DEF Relays!StopFrom
  <2>2. j \in Relays!Slot /\ \A k \in Relays!Slot : k < j => k < from \/ exited[k]
    BY <1>1, <2>1 DEF Relays!Slot
  <2>3. /\ proc' \in [Relays!Slot -> [Relays!Relay -> States]]
        /\ \A k \in Relays!Slot, q \in Relays!Relay :
             /\ k # j \/ q # latest[j] => proc'[k][q] = proc[k][q]
             /\ proc'[k][q] = proc[k][q] \/ (proc[k][q] = "up" /\ proc'[k][q] = "leaving")
    BY <1>2, <2>1, <2>2, SlotTerminated
  <2>4. /\ stop' \in Relays!Rolling /\ stop'.stage = "stop" /\ stop'.slot = j /\ stop'.relay = latest[j]
    BY <1>3, <2>1, <2>2 DEF Relays!Rolling, Relays!Slot, Relays!Relay
  <2>5. \A k \in Relays!Slot, q \in Relays!Relay : Relays!Running(k, q)' <=> Relays!Running(k, q)
    BY <2>3 DEF Relays!Running
  <2>6. Relays!FleetTypeOK'
    BY <1>2, <2>1, <2>3, <2>4 DEF FleetIInv, Relays!FleetTypeOK, States
  <2>7. Numbered'
    <3>1. \A k \in Relays!Slot, r \in Relays!Relay : r > latest[k] => proc'[k][r] = "none"
      BY <1>3, <2>3 DEF FleetIInv, Numbered
    <3> QED BY <1>2, <1>3, <2>1, <2>2, <2>4, <3>1 DEF FleetIInv, Numbered
  <2>8. ExitedIsGone'
    BY <1>2, <1>3, <2>3 DEF FleetIInv, ExitedIsGone
  <2>9. OnlyLatest'
    BY <1>2, <2>5 DEF FleetIInv, OnlyLatest
  <2>10. HealedSlot'
    <3> SUFFICES ASSUME restart.stage = "heal" PROVE HealedSlot'
      BY <1>2 DEF HealedSlot
    <3>1. restart.slot \in Relays!Slot
      BY DEF FleetIInv, Numbered
    <3>2. Relays!Running(restart.slot, latest[restart.slot])' <=> Relays!Running(restart.slot, latest[restart.slot])
      BY <1>2, <1>3, <2>5, <3>1 DEF Relays!Running
    <3> QED BY <1>2, <3>2 DEF FleetIInv, HealedSlot, Relays!Running
  <2>11. StopPassed'
    <3>1. \A k \in Relays!Slot : ~overlap' /\ mistaken = {} /\ k < j => ~Relays!Running(k, latest[k])
      BY <1>1, <1>4, <2>2
    <3>2. \A k \in Relays!Slot : ~overlap' /\ mistaken = {} /\ k < j => ~Relays!Running(k, latest[k])'
      BY <1>2, <1>3, <2>3, <3>1 DEF Relays!Running
    <3> QED BY <1>2, <2>4, <3>2 DEF StopPassed
  <2>12. Relays!ExitLeavesNoRelay'
    BY <1>2, <2>1 DEF Relays!ExitLeavesNoRelay
  <2> QED BY <2>4, <2>6, <2>7, <2>8, <2>9, <2>10, <2>11, <2>12 DEF FleetIInv, OnlyCrashesCount
<1> QED BY <1>5, <1>6

\* Who waits for the end of a relay goes on to the delay.
LEMMA Finished ==
  ASSUME FleetIInv, NEW i \in Relays!Slot, NEW r \in Relays!Relay, NEW who, Relays!Finish(i, r, who)
  PROVE  /\ restart' \in Relays!Rolling /\ restart'.slot = restart.slot /\ restart'.relay = restart.relay
         /\ \/ restart'.stage = restart.stage
            \/ restart.stage = "stop" /\ restart'.stage = "heal" /\ restart.slot = i /\ restart.relay = r
         /\ stop' \in Relays!Rolling /\ stop'.slot = stop.slot /\ stop'.relay = stop.relay
         /\ \/ stop'.stage = stop.stage /\ fleet' = fleet
            \/ /\ stop.stage = "stop" /\ stop'.stage = "heal" /\ stop.slot = i /\ stop.relay = r
               /\ fleet' = IF i = SlotCount THEN "exit" ELSE fleet
  BY DEF FleetIInv, Relays!FleetTypeOK, Relays!Rolling, Relays!Finish, Relays!Waits

\* A relay ends, or is taken not to end: in both cases its slot may go on.
LEMMA EndKeepsFleet ==
  ASSUME FleetIInv, NEW i \in Relays!Slot, NEW r \in Relays!Relay, NEW v \in {"killed", "gone"},
         fleet \in {"launch", "run"}, r <= latest[i],
         proc' = [proc EXCEPT ![i][r] = v], proc[i][r] = "gone" => v = "gone",
         \E who : Relays!Finish(i, r, who),
         exited' \in [Relays!Slot -> BOOLEAN], mistaken \subseteq mistaken', mistaken' \subseteq Relays!Slot,
         \A j \in Relays!Slot : exited'[j] => exited[j] \/ (j = i /\ v = "gone" /\ (r = latest[i] \/ i \in mistaken')),
         UNCHANGED <<latest, overlap>>, crashes' \in 0 .. CrashBound,
         crashes' = crashes \/ crashes' = crashes + 1,
         r = latest[i] /\ proc[i][r] = "up" =>
           \/ crashes' = crashes + 1
           \/ stop.stage # "off"
           \/ restart.stage = "stop" /\ restart.slot = i
  PROVE  FleetIInv'
<1> USE BoundsAssumption
<1>1. /\ restart' \in Relays!Rolling /\ restart'.slot = restart.slot /\ restart'.relay = restart.relay
      /\ \/ restart'.stage = restart.stage
         \/ restart.stage = "stop" /\ restart'.stage = "heal" /\ restart.slot = i /\ restart.relay = r
      /\ stop' \in Relays!Rolling /\ stop'.slot = stop.slot /\ stop'.relay = stop.relay
      /\ \/ stop'.stage = stop.stage /\ fleet' = fleet
         \/ /\ stop.stage = "stop" /\ stop'.stage = "heal" /\ stop.slot = i /\ stop.relay = r
            /\ fleet' = IF i = SlotCount THEN "exit" ELSE fleet
  BY Finished
<1>2. /\ \A j \in Relays!Slot : latest[j] \in 0 .. RelayBound
      /\ proc \in [Relays!Slot -> [Relays!Relay -> States]] /\ v \in States
      /\ restart \in Relays!Rolling /\ stop \in Relays!Rolling /\ crashes \in Nat
  BY DEF FleetIInv, Relays!FleetTypeOK, States
<1>3. latest[i] > 0 /\ latest[i] \in Relays!Relay
  BY <1>2 DEF Relays!Relay
<1>4. /\ proc' \in [Relays!Slot -> [Relays!Relay -> States]]
      /\ \A j \in Relays!Slot, q \in Relays!Relay : proc'[j][q] = IF j = i /\ q = r THEN v ELSE proc[j][q]
  BY <1>2, EntryWritten
<1>5. \A j \in Relays!Slot, q \in Relays!Relay :
        Relays!Running(j, q)' => Relays!Running(j, q) /\ ~(j = i /\ q = r)
  BY <1>4 DEF Relays!Running
<1>6. Relays!FleetTypeOK'
  BY <1>1, <1>4 DEF FleetIInv, Relays!FleetTypeOK, States
<1>7. stop.stage # "off" \/ restart.stage # "off" => fleet = "run"
  BY DEF FleetIInv, Numbered
<1>8. Numbered'
  <2>1. \A j \in Relays!Slot, q \in Relays!Relay : q > latest[j] => proc'[j][q] = "none"
    BY <1>2, <1>3, <1>4 DEF FleetIInv, Numbered, Relays!Relay
  <2> QED BY <1>1, <1>7, <2>1 DEF FleetIInv, Numbered
<1>9. ExitedIsGone'
  <2> SUFFICES ASSUME NEW j \in Relays!Slot, exited'[j], j \notin mistaken'
               PROVE latest[j] > 0 /\ proc'[j][latest[j]] = "gone"
    BY DEF ExitedIsGone
  <2>1. CASE exited[j]
    <3>1. latest[j] > 0 /\ proc[j][latest[j]] = "gone" /\ latest[j] \in Relays!Relay
      BY SMTT(30), <1>2, <2>1 DEF FleetIInv, ExitedIsGone, Relays!Relay
    <3> QED BY <1>4, <3>1
  <2>2. CASE j = i /\ v = "gone" /\ r = latest[i]
    BY <1>3, <1>4, <2>2
  <2> QED BY <2>1, <2>2
<1>10. OnlyLatest'
  BY <1>5 DEF FleetIInv, OnlyLatest
<1>11. HealedSlot'
  <2> SUFFICES ASSUME restart'.stage = "heal", restart.slot \notin mistaken
               PROVE ~Relays!Running(restart.slot, latest[restart.slot])'
    BY <1>1 DEF HealedSlot, Relays!Running
  <2>1. restart.slot \in Relays!Slot /\ fleet = "run"
    BY <1>1, <1>7 DEF FleetIInv, Numbered
  <2>2. latest[restart.slot] \in Relays!Relay
    BY <1>2, <2>1 DEF FleetIInv, Numbered, Relays!Relay
  <2>3. restart.stage = "stop" => restart.relay = latest[restart.slot]
    BY DEF FleetIInv, Numbered
  <2>4. restart.stage = "heal" => ~Relays!Running(restart.slot, latest[restart.slot])
    BY DEF FleetIInv, HealedSlot
  <2>5. CASE restart.stage = "heal"
    BY <1>1, <1>4, <2>1, <2>2, <2>4, <2>5 DEF Relays!Running
  <2>6. CASE restart.stage = "stop" /\ restart.slot = i /\ restart.relay = r
    BY <1>1, <1>3, <1>4, <2>3, <2>6 DEF Relays!Running
  <2> QED BY <1>1, <2>5, <2>6
<1>12. StopPassed' /\ Relays!ExitLeavesNoRelay'
  <2> SUFFICES ASSUME stop'.stage # "off", ~overlap
               PROVE /\ restart'.stage = "off"
                     /\ mistaken' = {} =>
                          /\ \A j \in Relays!Slot : j < stop.slot => ~Relays!Running(j, latest[j])'
                          /\ stop'.stage = "heal" /\ (fleet' = "run" \/ fleet' = "exit") =>
                               stop.slot \in Relays!Slot /\ ~Relays!Running(stop.slot, latest[stop.slot])'
                          /\ stop'.stage = "stop" => stop.relay = latest[stop.slot]
                          /\ fleet' = "exit" =>
                               \A j \in Relays!Slot, q \in Relays!Relay : ~Relays!Running(j, q)'
    BY <1>1, <1>8 DEF StopPassed, Numbered, Relays!ExitLeavesNoRelay, Relays!Running
  <2>1. stop.stage # "off" /\ fleet = "run"
    BY <1>1, <1>7
  <2>2. restart'.stage = "off"
    BY <1>1, <2>1 DEF FleetIInv, StopPassed
  <2> SUFFICES ASSUME mistaken' = {}
               PROVE /\ \A j \in Relays!Slot : j < stop.slot => ~Relays!Running(j, latest[j])'
                     /\ stop'.stage = "heal" =>
                          stop.slot \in Relays!Slot /\ ~Relays!Running(stop.slot, latest[stop.slot])'
                     /\ stop'.stage = "stop" => stop.relay = latest[stop.slot]
                     /\ fleet' = "exit" =>
                          \A j \in Relays!Slot, q \in Relays!Relay : ~Relays!Running(j, q)'
    BY <2>2
  <2>3. mistaken = {} /\ \A j \in Relays!Slot : latest[j] \in Relays!Relay
    BY <1>2, <2>1 DEF FleetIInv, Numbered, Relays!Relay
  <2>4. \A j \in Relays!Slot : Relays!Running(j, latest[j])' => Relays!Running(j, latest[j]) /\ ~(j = i /\ latest[j] = r)
    BY <1>4, <2>3 DEF Relays!Running
  <2>5. \A j \in Relays!Slot : j < stop.slot => ~Relays!Running(j, latest[j])'
    BY <2>1, <2>3, <2>4 DEF FleetIInv, StopPassed
  <2>6. stop.stage = "stop" => stop.relay = latest[stop.slot]
    BY <2>3 DEF FleetIInv, StopPassed
  <2>7. stop'.stage = "heal" => stop.slot \in Relays!Slot /\ ~Relays!Running(stop.slot, latest[stop.slot])'
    <3>1. CASE stop.stage = "heal"
      BY <1>1, <2>1, <2>3, <2>4, <3>1 DEF FleetIInv, StopPassed
    <3>2. CASE stop.stage = "stop" /\ stop.slot = i /\ stop.relay = r
      BY <1>1, <2>4, <2>6, <3>2
    <3> QED BY <1>1, <3>1, <3>2
  <2>8. fleet' = "exit" => \A j \in Relays!Slot, q \in Relays!Relay : ~Relays!Running(j, q)'
    <3> SUFFICES ASSUME fleet' = "exit", NEW j \in Relays!Slot, NEW q \in Relays!Relay, Relays!Running(j, q)'
                 PROVE FALSE
      OBVIOUS
    <3>1. stop'.stage = "heal" /\ stop.slot = SlotCount
      BY <1>1, <2>1
    <3>2. q = latest[j]
      BY <1>5, <2>3 DEF FleetIInv, OnlyLatest
    <3>3. j < stop.slot \/ j = stop.slot
      BY <3>1 DEF Relays!Slot
    <3> QED BY <1>1, <2>5, <2>7, <3>1, <3>2, <3>3
  <2> QED BY <1>1, <2>5, <2>6, <2>7, <2>8
<1>13. OnlyCrashesCount'
  <2> SUFFICES ASSUME stop'.stage = "off" PROVE Cardinality(Down') <= crashes'
    BY DEF OnlyCrashesCount
  <2>1. stop.stage = "off" /\ Cardinality(Down) <= crashes
    BY <1>1 DEF FleetIInv, OnlyCrashesCount
  <2>2. \A j \in Down' : j \in Down \/ (j = i /\ r = latest[i] /\ proc[i][r] = "up" /\ crashes' = crashes + 1)
    <3> SUFFICES ASSUME NEW j \in Down', j \notin Down
                 PROVE j = i /\ r = latest[i] /\ proc[i][r] = "up" /\ crashes' = crashes + 1
      OBVIOUS
    <3>1. /\ j \in Relays!Slot /\ latest[j] > 0 /\ latest[j] \in Relays!Relay
          /\ proc'[j][latest[j]] # "up" /\ ~(restart.slot = j /\ restart.stage \in {"stop", "heal"})
      BY SMTT(30), <1>1, <1>2 DEF Down, Relays!Relay
    <3>2. proc[j][latest[j]] = "up"
      BY <3>1 DEF Down
    <3>3. j = i /\ r = latest[i]
      BY <1>4, <3>1, <3>2
    <3> QED BY <2>1, <3>1, <3>2, <3>3
  <2>3. CASE Down' \subseteq Down
    BY <1>2, <2>1, <2>3, SlotsFinite, FS_Subset, FS_CardinalityType
  <2>4. CASE ~(Down' \subseteq Down)
    <3>1. crashes' = crashes + 1 /\ Down' \subseteq Down \cup {i}
      BY <2>2, <2>4
    <3>2. /\ IsFiniteSet(Down \cup {i}) /\ Cardinality(Down \cup {i}) <= Cardinality(Down) + 1
          /\ Cardinality(Down \cup {i}) \in Nat
      <4>1. /\ IsFiniteSet(Down \cup {i})
            /\ Cardinality(Down \cup {i}) = IF i \in Down THEN Cardinality(Down) ELSE Cardinality(Down) + 1
        BY SlotsFinite, FS_AddElement, Zenon
      <4> QED BY <4>1, SlotsFinite
    <3>3. Cardinality(Down') <= Cardinality(Down \cup {i}) /\ Cardinality(Down') \in Nat
      BY <3>1, <3>2, FS_Subset, FS_CardinalityType
    <3> QED BY <1>2, <2>1, <3>1, <3>2, <3>3, SlotsFinite
  <2> QED BY <2>3, <2>4
<1> QED BY <1>6, <1>8, <1>9, <1>10, <1>11, <1>12, <1>13 DEF FleetIInv

\* Every step of the supervisor and of its relays.
LEMMA StepKeepsFleet == ASSUME FleetIInv, [Relays!FleetStep]_fleetVs PROVE FleetIInv'
<1> USE BoundsAssumption
<1>1. ASSUME NEW i \in Relays!Slot, NEW r \in Relays!Relay, Relays!RelayExits(i, r) PROVE FleetIInv'
  <2>1. /\ fleet \in {"launch", "run"} /\ proc[i][r] \in {"up", "leaving", "killed"}
        /\ proc' = [proc EXCEPT ![i][r] = "gone"] /\ exited' = [exited EXCEPT ![i] = TRUE]
        /\ mistaken' = IF r # latest[i] THEN mistaken \cup {i} ELSE mistaken
        /\ \E who : Relays!Finish(i, r, who)
        /\ UNCHANGED <<latest, overlap>>
    BY <1>1 DEF Relays!RelayExits
  <2>2. /\ crashes' \in 0 .. CrashBound /\ (crashes' = crashes \/ crashes' = crashes + 1)
        /\ proc[i][r] = "up" => crashes' = crashes + 1
    BY <1>1 DEF Relays!RelayExits, FleetIInv, Relays!FleetTypeOK
  <2>3. /\ exited' \in [Relays!Slot -> BOOLEAN]
        /\ \A j \in Relays!Slot : exited'[j] => exited[j] \/ j = i
    BY <2>1, Zenon DEF FleetIInv, Relays!FleetTypeOK
  <2>4. mistaken \subseteq mistaken' /\ mistaken' \subseteq Relays!Slot /\ (r = latest[i] \/ i \in mistaken')
    BY <2>1 DEF FleetIInv, Relays!FleetTypeOK
  <2>5. r <= latest[i]
    BY SMTT(30), <2>1 DEF FleetIInv, Relays!FleetTypeOK, Numbered, Relays!Relay
  <2>6. PICK v \in {"killed", "gone"} : v = "gone"
    OBVIOUS
  <2>7. proc' = [proc EXCEPT ![i][r] = v]
    BY <2>1, <2>6
  <2>8. /\ fleet \in {"launch", "run"} /\ UNCHANGED <<latest, overlap>>
        /\ \E who : Relays!Finish(i, r, who)
    BY <2>1
  <2>9. /\ v \in {"killed", "gone"} /\ (proc[i][r] = "gone" => v = "gone")
        /\ \A j \in Relays!Slot :
             exited'[j] => exited[j] \/ (j = i /\ v = "gone" /\ (r = latest[i] \/ i \in mistaken'))
    BY <2>3, <2>4, <2>6
  <2>10. exited' \in [Relays!Slot -> BOOLEAN] /\ mistaken \subseteq mistaken' /\ mistaken' \subseteq Relays!Slot
    BY <2>3, <2>4
  <2> QED BY ZenonT(60), <2>2, <2>5, <2>7, <2>8, <2>9, <2>10, EndKeepsFleet
<1>2. ASSUME NEW i \in Relays!Slot, NEW r \in Relays!Relay, Relays!LeaveTimesOut(i, r) PROVE FleetIInv'
  <2>1. /\ fleet = "run" /\ UNCHANGED <<latest, exited, overlap, mistaken, crashes>>
        /\ proc' = [proc EXCEPT ![i][r] = IF @ = "gone" THEN @ ELSE "killed"]
        /\ \/ Relays!Waits(restart, i, r) /\ Relays!Finish(i, r, {"restart"})
           \/ Relays!Waits(stop, i, r) /\ Relays!Finish(i, r, {"stop"})
    BY <1>2 DEF Relays!LeaveTimesOut, Relays!history
  <2>2. \E who : Relays!Finish(i, r, who)
    BY <2>1
  <2>3. stop.stage # "off" \/ (restart.stage = "stop" /\ restart.slot = i)
    BY <2>1 DEF Relays!Waits
  <2>4. r <= latest[i]
    BY <2>1 DEF Relays!Waits, FleetIInv, Relays!FleetTypeOK, Numbered, Relays!Relay
  <2>5. PICK v \in {"killed", "gone"} : v = IF proc[i][r] = "gone" THEN "gone" ELSE "killed"
    OBVIOUS
  <2>6. proc' = [proc EXCEPT ![i][r] = v]
    BY <2>1, <2>5
  <2>7. crashes' \in 0 .. CrashBound /\ exited' \in [Relays!Slot -> BOOLEAN] /\ mistaken' \subseteq Relays!Slot
    BY <2>1 DEF FleetIInv, Relays!FleetTypeOK
  <2> QED BY <2>1, <2>2, <2>3, <2>4, <2>5, <2>6, <2>7, EndKeepsFleet
<1>3. CASE Relays!SignalInLaunch
  <2>1. fleet = "launch" /\ fleet' = "killed"
        /\ UNCHANGED <<proc, latest, exited, restart, stop, overlap, mistaken, crashes>>
    BY <1>3 DEF Relays!SignalInLaunch, Relays!history
  <2>2. Relays!FleetTypeOK' /\ Numbered' /\ OnlyCrashesCount'
    BY <2>1 DEF FleetIInv, Relays!FleetTypeOK, Numbered, OnlyCrashesCount, Down
  <2>3. ExitedIsGone' /\ OnlyLatest' /\ HealedSlot' /\ StopPassed' /\ Relays!ExitLeavesNoRelay'
    BY <2>1 DEF FleetIInv, Numbered, ExitedIsGone, OnlyLatest, HealedSlot, StopPassed,
                Relays!Running, Relays!ExitLeavesNoRelay
  <2> QED BY <2>2, <2>3 DEF FleetIInv
<1>4. CASE Relays!RestartMeshed
  <2>1. /\ fleet = "run" /\ restart.stage = "mesh" /\ restart' = [restart EXCEPT !.stage = "accrue"]
        /\ UNCHANGED <<fleet, proc, latest, exited, stop, overlap, mistaken, crashes>>
    BY <1>4 DEF Relays!RestartMeshed, Relays!history
  <2>2. restart' \in Relays!Rolling /\ restart'.stage = "accrue" /\ restart'.slot = restart.slot
    BY <2>1 DEF FleetIInv, Relays!FleetTypeOK, Relays!Rolling
  <2>3. Relays!FleetTypeOK' /\ Numbered' /\ Down' = Down
    BY <2>1, <2>2 DEF FleetIInv, Relays!FleetTypeOK, Numbered, Down
  <2>4. ExitedIsGone' /\ OnlyLatest' /\ HealedSlot' /\ StopPassed' /\ Relays!ExitLeavesNoRelay'
    BY <2>1, <2>2 DEF FleetIInv, ExitedIsGone, OnlyLatest, HealedSlot, StopPassed,
                Relays!Running, Relays!ExitLeavesNoRelay
  <2> QED BY <2>1, <2>3, <2>4, DownShrinks DEF FleetIInv
<1>5. CASE UNCHANGED fleetVs
  <2>1. UNCHANGED <<fleet, proc, latest, exited, restart, stop, overlap, mistaken, crashes>>
    BY <1>5 DEF fleetVs
  <2>2. Relays!FleetTypeOK' /\ Numbered' /\ OnlyCrashesCount'
    BY <2>1 DEF FleetIInv, Relays!FleetTypeOK, Numbered, OnlyCrashesCount, Down
  <2>3. ExitedIsGone' /\ OnlyLatest' /\ HealedSlot' /\ StopPassed' /\ Relays!ExitLeavesNoRelay'
    BY <2>1 DEF FleetIInv, ExitedIsGone, OnlyLatest, HealedSlot, StopPassed,
                Relays!Running, Relays!ExitLeavesNoRelay
  <2> QED BY <2>2, <2>3 DEF FleetIInv
<1>6. CASE Relays!RestartHealed
  <2>1. restart.slot \in Relays!Slot
    BY <1>6 DEF Relays!RestartHealed, FleetIInv, Numbered
  <2> QED BY <1>6, <2>1, SpawnsKeepFleet
<1>7. ASSUME NEW i \in Relays!Slot, Relays!Launch(i) PROVE FleetIInv'
  BY <1>7, SpawnsKeepFleet
<1> QED BY <1>1, <1>2, <1>3, <1>4, <1>5, <1>6, <1>7, RestartKeepsFleet, StopKeepsFleet DEF Relays!FleetStep

\* While a restart that no stop overtakes is under way, the only slot without a
\* running relay, apart from those that crashed, is the one it is at.
LEMMA OneSlotAtATime == FleetIInv => Relays!RestartKeepsTheOthers
<1> SUFFICES ASSUME FleetIInv, restart.stage # "off", stop.stage = "off"
             PROVE  Cardinality({i \in Relays!Slot : proc[i][latest[i]] # "up"}) <= 1 + crashes
  <2>1. \A S : Relays!Cardinality(S) = Cardinality(S)
    BY DEF Relays!Cardinality, Cardinality
  <2> QED BY <2>1 DEF Relays!RestartKeepsTheOthers, Relays!restarting, Relays!draining
<1> DEFINE out == {i \in Relays!Slot : proc[i][latest[i]] # "up"}
<1>1. \A i \in Relays!Slot : latest[i] > 0
  BY DEF FleetIInv, Numbered
<1>2. out \subseteq Down \cup {restart.slot}
  BY <1>1 DEF Down
<1>3. /\ IsFiniteSet(Down \cup {restart.slot})
      /\ Cardinality(Down \cup {restart.slot}) =
           IF restart.slot \in Down THEN Cardinality(Down) ELSE Cardinality(Down) + 1
  BY SlotsFinite, FS_AddElement, Zenon
<1>4. Cardinality(out) <= Cardinality(Down \cup {restart.slot}) /\ Cardinality(out) \in Nat
  BY <1>2, <1>3, FS_Subset, FS_CardinalityType
<1>5. Cardinality(Down) <= crashes /\ crashes \in Nat
  BY BoundsAssumption DEF FleetIInv, OnlyCrashesCount, Relays!FleetTypeOK
<1> QED BY <1>3, <1>4, <1>5, SlotsFinite

\* A rolling restart takes one relay at a time from the mesh, and a supervisor
\* that exits by itself leaves none behind, unless the stop met a restart or a
\* late exit was taken for the successor's (fleet.mjs 272-311): for any number
\* of slots, restarts and crashes.
THEOREM FleetIsKept == DaemonSpec => []FleetKeepsItsRelays
<1>1. DaemonInit => FleetIInv
  BY FleetInitIInv DEF DaemonInit
<1>2. FleetIInv /\ [DaemonNext]_daemonVars => FleetIInv'
  BY FleetPart, StepKeepsFleet
<1>3. FleetIInv => FleetKeepsItsRelays
  BY OneSlotAtATime DEF FleetIInv, FleetKeepsItsRelays
<1> QED BY <1>1, <1>2, <1>3, PTL DEF DaemonSpec

-----------------------------------------------------------------------------
(* One relay slot under its service wrapper.                                *)

\* ServiceTypeOK in three parts: the states, the watchdog's count, the budgets.
Modes ==
  /\ svc \in {"stopped", "starting", "running", "stopping", "failed"}
  /\ wrap \in {"off", "clean", "create", "assign", "run"}
  /\ watch \in {"none", "wait", "exit", "over"}
  /\ halt \in {"no", "write", "grace", "kill", "reap"}
  /\ life \in {"none", "suspended", "boot", "up", "leaving", "gone"}
  /\ {file, fresh, holds, frozen, early} \subseteq BOOLEAN

\* At most Slack of the ticks counted found a live loop.
Counted ==
  /\ missed \in 0 .. Need /\ iced \in 0 .. Need
  /\ iced <= missed /\ missed <= iced + Slack

Budgets == faults \in 0 .. MaxFaults /\ stuck \in 0 .. MaxStuck /\ starts \in 0 .. MaxStarts

\* What the manager believes of the wrapper is true, and the wrapper's threads
\* and the relay's code run only inside a wrapper that is through OnStart.
Wrapped ==
  /\ svc \in {"stopped", "failed"} <=> wrap = "off"
  /\ svc = "stopping" <=> Stopping
  /\ Stopping \/ watch # "none" => wrap = "run"
  /\ NoOrphan

\* A relay that is gone under a wrapper nobody asked to stop went early, and
\* the Watch thread that is about to exit has seen such a one.
Told ==
  /\ life = "gone" /\ wrap = "run" /\ ~Stopping => early
  /\ watch = "exit" => life = "gone" /\ early
  /\ RestartIsACrash

\* Before a stop is asked for, a run that knows its file to be fresh has none,
\* a run that does not has used up the failing deletions, and the watcher of
\* the stop file has nothing to find.
Unasked ==
  /\ wrap \in {"create", "assign", "run"} /\ ~Stopping /\ fresh => ~file
  /\ wrap \in {"create", "assign", "run"} /\ ~fresh => stuck = MaxStuck
  /\ life = "up" /\ ~Stopping => ~file
  /\ NoStaleStop

ServiceIInv == Modes /\ Counted /\ Budgets /\ Wrapped /\ Told /\ StopIsHeard

\* A deletion removes the file, or uses up one of the failures.
LEMMA Deleted ==
  ASSUME stuck \in 0 .. MaxStuck, file \in BOOLEAN, Delete
  PROVE  /\ stuck' \in 0 .. MaxStuck /\ file' \in BOOLEAN
         /\ \/ ~file' /\ stuck' = stuck
            \/ stuck < MaxStuck /\ stuck' = stuck + 1 /\ file' = file
<1> USE ServiceAssumption
<1>1. CASE file' = FALSE /\ UNCHANGED stuck
  BY <1>1
<1>2. CASE stuck < MaxStuck /\ stuck' = stuck + 1 /\ UNCHANGED file
  <2>1. stuck + 1 \in 0 .. MaxStuck
    BY <1>2
  <2> QED BY <1>2, <2>1
<1> QED BY <1>1, <1>2 DEF Delete

\* Every step keeps the states.
LEMMA ModesKept == ASSUME Modes, [ServiceNext]_serviceVars PROVE Modes'
<1> USE ServiceAssumption DEF Modes
<1>1. CASE ScmStart
  BY <1>1 DEF ScmStart, dog
<1>2. CASE StartThrows
  BY <1>2 DEF StartThrows, WrapperEnds, dog, budget, Running
<1>3. CASE CleanStale
  BY <1>3 DEF CleanStale, Delete, process, dog
<1>4. CASE CreateSuspended
  BY <1>4 DEF CreateSuspended, dog, budget
<1>5. CASE Resume
  BY <1>5 DEF Resume, budget
<1>6. CASE WatchSees
  BY <1>6 DEF WatchSees, Stopping, process, dog, budget
<1>7. CASE WatchExits
  BY <1>7 DEF WatchExits, WrapperEnds, dog, budget, Running
<1>8. CASE WriteStop
  BY <1>8 DEF WriteStop, process, dog, budget
<1>9. CASE GraceEnds
  BY <1>9 DEF GraceEnds, process, dog, budget
<1>10. CASE TerminateJob
  BY <1>10 DEF TerminateJob, Running, dog, budget
<1>11. CASE Stopped
  BY <1>11 DEF Stopped, WrapperEnds, dog, budget, Running
<1>12. CASE Halt
  BY <1>12 DEF Halt, Stopping, process, dog, budget
<1>13. CASE Arm
  BY <1>13 DEF Arm, Delete, wrapper
<1>14. CASE PollStop
  <2>1. svc' = svc /\ wrap' = wrap /\ watch' = watch /\ halt' = halt /\ fresh' = fresh
        /\ holds' = holds /\ frozen' = frozen /\ early' = early /\ life' = "leaving"
    BY <1>14 DEF PollStop, wrapper, R!Stop
  <2>2. file' \in BOOLEAN
    BY <1>14 DEF PollStop, Delete
  <2> QED BY <2>1, <2>2
<1>15. CASE RelayLeaves
  BY <1>15 DEF RelayLeaves, dog, wrapper, budget, R!Leave
<1>16. CASE RelayJoins
  BY <1>16 DEF RelayJoins, dog, wrapper, budget, R!Join, R!Drop
<1>17. CASE Crash
  BY <1>17 DEF Crash, Dies, Running, dog, wrapper
<1>18. CASE Freeze
  BY <1>18 DEF Freeze, Armed, dog, wrapper
<1>19. CASE Thaw
  BY <1>19 DEF Thaw, dog, wrapper, budget
<1>20. CASE Beat
  BY <1>20 DEF Beat, Armed, process, wrapper, budget
<1>21. CASE Tick
  BY <1>21 DEF Tick, Armed, process, wrapper, budget
<1>22. CASE Kill
  BY <1>22 DEF Kill, Dies, Armed, dog, wrapper
<1>23. CASE Reboot
  BY <1>23 DEF Reboot
<1>24. CASE WrapperDies
  BY <1>24 DEF WrapperDies, WrapperEnds, dog, Running
<1>25. CASE UNCHANGED serviceVars
  BY <1>25 DEF serviceVars, process, dog, wrapper, budget
<1> QED BY <1>1, <1>2, <1>3, <1>4, <1>5, <1>6, <1>7, <1>8, <1>9, <1>10, <1>11, <1>12, <1>13, <1>14, <1>15, <1>16, <1>17, <1>18, <1>19, <1>20, <1>21, <1>22, <1>23, <1>24, <1>25 DEF ServiceNext, WrapperStep, Watchdog

\* Every step keeps the budgets.
LEMMA BudgetsKept == ASSUME Budgets, Modes, [ServiceNext]_serviceVars PROVE Budgets'
<1> USE ServiceAssumption DEF Budgets
<1>1. CASE ScmStart
  BY <1>1 DEF ScmStart, dog
<1>2. CASE CleanStale
  BY <1>2, Deleted DEF CleanStale, Modes
<1>3. CASE Arm
  BY <1>3, Deleted DEF Arm, Modes
<1>4. CASE PollStop
  BY <1>4, Deleted DEF PollStop, Modes
<1>5. CASE Crash
  BY <1>5 DEF Crash, Dies, Running, dog, wrapper
<1>6. CASE Freeze
  BY <1>6 DEF Freeze, Armed, dog, wrapper
<1>7. CASE Reboot
  BY <1>7 DEF Reboot
<1>8. CASE WrapperDies
  BY <1>8 DEF WrapperDies, WrapperEnds, dog, Running
<1>9. CASE StartThrows \/ CreateSuspended \/ Resume \/ WatchSees \/ WatchExits \/ WriteStop \/ GraceEnds \/ TerminateJob \/ Stopped \/ Halt \/ RelayLeaves \/ RelayJoins \/ Thaw \/ Beat \/ Tick \/ Kill \/ UNCHANGED serviceVars
  BY <1>9 DEF StartThrows, CreateSuspended, Resume, WatchSees, WatchExits, WriteStop, GraceEnds, TerminateJob, Stopped, Halt, RelayLeaves, RelayJoins, Thaw, Beat, Tick, Kill, serviceVars, budget, Dies
<1> QED BY <1>1, <1>2, <1>3, <1>4, <1>5, <1>6, <1>7, <1>8, <1>9 DEF ServiceNext, WrapperStep, Watchdog

\* A tick counts a live loop only up to Slack, and a beat or a boot starts over.
LEMMA CountedKept == ASSUME Counted, [ServiceNext]_serviceVars PROVE Counted'
<1> USE ServiceAssumption DEF Counted
<1>1. CASE Resume
  BY <1>1 DEF Resume, budget
<1>2. CASE Arm
  BY <1>2 DEF Arm, Delete, wrapper
<1>3. CASE Beat
  BY <1>3 DEF Beat, Armed, process, wrapper, budget
<1>4. CASE Tick
  BY <1>4 DEF Tick, Armed, process, wrapper, budget
<1>5. CASE Reboot
  BY <1>5 DEF Reboot
<1>6. CASE ScmStart \/ StartThrows \/ CleanStale \/ CreateSuspended \/ WatchSees \/ WatchExits \/ WriteStop \/ GraceEnds \/ TerminateJob \/ Stopped \/ Halt \/ PollStop \/ RelayLeaves \/ RelayJoins \/ Crash \/ Freeze \/ Thaw \/ Kill \/ WrapperDies \/ UNCHANGED serviceVars
  BY <1>6 DEF ScmStart, StartThrows, CleanStale, CreateSuspended, WatchSees, WatchExits, WriteStop, GraceEnds, TerminateJob, Stopped, Halt, PollStop, RelayLeaves, RelayJoins, Crash, Freeze, Thaw, Kill, WrapperDies, serviceVars, dog, R!Leave, Dies
<1> QED BY <1>1, <1>2, <1>3, <1>4, <1>5, <1>6 DEF ServiceNext, WrapperStep, Watchdog

\* The wrapper and the manager agree after every step.
LEMMA WrappedKept == ASSUME Wrapped, [ServiceNext]_serviceVars PROVE Wrapped'
<1> USE ServiceAssumption DEF Wrapped, NoOrphan, Stopping, Running
<1>1. CASE ScmStart
  BY <1>1 DEF ScmStart, dog
<1>2. CASE StartThrows
  BY <1>2 DEF StartThrows, WrapperEnds, dog, budget
<1>3. CASE CleanStale
  BY <1>3 DEF CleanStale, Delete, process, dog
<1>4. CASE CreateSuspended
  BY <1>4 DEF CreateSuspended, dog, budget
<1>5. CASE Resume
  BY <1>5 DEF Resume, budget
<1>6. CASE WatchSees
  BY <1>6 DEF WatchSees, process, dog, budget
<1>7. CASE WatchExits
  BY <1>7 DEF WatchExits, WrapperEnds, dog, budget
<1>8. CASE WriteStop
  BY <1>8 DEF WriteStop, process, dog, budget
<1>9. CASE GraceEnds
  BY <1>9 DEF GraceEnds, process, dog, budget
<1>10. CASE TerminateJob
  BY <1>10 DEF TerminateJob, dog, budget
<1>11. CASE Stopped
  BY <1>11 DEF Stopped, WrapperEnds, dog, budget
<1>12. CASE Halt
  BY <1>12 DEF Halt, process, dog, budget
<1>13. CASE Arm
  BY <1>13 DEF Arm, Delete, wrapper
<1>14. CASE PollStop
  BY <1>14 DEF PollStop, Delete, dog, wrapper, R!Stop
<1>15. CASE RelayLeaves
  BY <1>15 DEF RelayLeaves, dog, wrapper, budget, R!Leave
<1>16. CASE RelayJoins
  BY <1>16 DEF RelayJoins, dog, wrapper, budget, R!Join, R!Drop
<1>17. CASE Crash
  BY <1>17 DEF Crash, Dies, dog, wrapper
<1>18. CASE Freeze
  BY <1>18 DEF Freeze, Armed, dog, wrapper
<1>19. CASE Thaw
  BY <1>19 DEF Thaw, dog, wrapper, budget
<1>20. CASE Beat
  BY <1>20 DEF Beat, Armed, process, wrapper, budget
<1>21. CASE Tick
  BY <1>21 DEF Tick, Armed, process, wrapper, budget
<1>22. CASE Kill
  BY <1>22 DEF Kill, Dies, Armed, dog, wrapper
<1>23. CASE Reboot
  BY <1>23 DEF Reboot
<1>24. CASE WrapperDies
  BY <1>24 DEF WrapperDies, WrapperEnds, dog
<1>25. CASE UNCHANGED serviceVars
  BY <1>25 DEF serviceVars, process, dog, wrapper, budget
<1> QED BY <1>1, <1>2, <1>3, <1>4, <1>5, <1>6, <1>7, <1>8, <1>9, <1>10, <1>11, <1>12, <1>13, <1>14, <1>15, <1>16, <1>17, <1>18, <1>19, <1>20, <1>21, <1>22, <1>23, <1>24, <1>25 DEF ServiceNext, WrapperStep, Watchdog

\* The manager hears of a death only when there was one.
LEMMA ToldKept == ASSUME Modes, Wrapped, Told, [ServiceNext]_serviceVars PROVE Told'
<1> USE ServiceAssumption DEF Wrapped, NoOrphan, Stopping, Running, Told, RestartIsACrash
<1>1. CASE ScmStart
  BY <1>1 DEF ScmStart, dog
<1>2. CASE StartThrows
  BY <1>2 DEF StartThrows, WrapperEnds, dog, budget
<1>3. CASE CleanStale
  BY <1>3 DEF CleanStale, Delete, process, dog
<1>4. CASE CreateSuspended
  BY <1>4 DEF CreateSuspended, dog, budget
<1>5. CASE Resume
  BY <1>5 DEF Resume, budget
<1>6. CASE WatchSees
  BY <1>6 DEF WatchSees, process, dog, budget
<1>7. CASE WatchExits
  BY <1>7 DEF WatchExits, WrapperEnds, dog, budget
<1>8. CASE WriteStop
  BY <1>8 DEF WriteStop, process, dog, budget
<1>9. CASE GraceEnds
  BY <1>9 DEF GraceEnds, process, dog, budget
<1>10. CASE TerminateJob
  BY <1>10 DEF TerminateJob, dog, budget
<1>11. CASE Stopped
  BY <1>11 DEF Stopped, WrapperEnds, dog, budget
<1>12. CASE Halt
  BY <1>12 DEF Halt, process, dog, budget
<1>13. CASE Arm
  BY <1>13 DEF Arm, Delete, wrapper
<1>14. CASE PollStop
  BY <1>14 DEF PollStop, Delete, dog, wrapper, R!Stop
<1>15. CASE RelayLeaves
  BY <1>15 DEF RelayLeaves, dog, wrapper, budget, R!Leave
<1>16. CASE RelayJoins
  BY <1>16 DEF RelayJoins, dog, wrapper, budget, R!Join, R!Drop
<1>17. CASE Crash
  BY <1>17 DEF Crash, Dies, dog, wrapper
<1>18. CASE Freeze
  BY <1>18 DEF Freeze, Armed, dog, wrapper
<1>19. CASE Thaw
  BY <1>19 DEF Thaw, dog, wrapper, budget
<1>20. CASE Beat
  BY <1>20 DEF Beat, Armed, process, wrapper, budget
<1>21. CASE Tick
  BY <1>21 DEF Tick, Armed, process, wrapper, budget
<1>22. CASE Kill
  BY <1>22 DEF Kill, Dies, Armed, dog, wrapper
<1>23. CASE Reboot
  BY <1>23 DEF Reboot
<1>24. CASE WrapperDies
  BY <1>24 DEF WrapperDies, WrapperEnds, dog
<1>25. CASE UNCHANGED serviceVars
  BY <1>25 DEF serviceVars, process, dog, wrapper, budget
<1> QED BY <1>1, <1>2, <1>3, <1>4, <1>5, <1>6, <1>7, <1>8, <1>9, <1>10, <1>11, <1>12, <1>13, <1>14, <1>15, <1>16, <1>17, <1>18, <1>19, <1>20, <1>21, <1>22, <1>23, <1>24, <1>25 DEF ServiceNext, WrapperStep, Watchdog

\* Nothing takes the request away before the relay has seen it.
LEMMA HeardKept == ASSUME Wrapped, StopIsHeard, [ServiceNext]_serviceVars PROVE StopIsHeard'
<1> USE ServiceAssumption DEF Wrapped, NoOrphan, Stopping, Running, StopIsHeard
<1>1. CASE ScmStart
  BY <1>1 DEF ScmStart, dog
<1>2. CASE StartThrows
  BY <1>2 DEF StartThrows, WrapperEnds, dog, budget
<1>3. CASE CleanStale
  BY <1>3 DEF CleanStale, Delete, process, dog
<1>4. CASE CreateSuspended
  BY <1>4 DEF CreateSuspended, dog, budget
<1>5. CASE Resume
  BY <1>5 DEF Resume, budget
<1>6. CASE WatchSees
  BY <1>6 DEF WatchSees, process, dog, budget
<1>7. CASE WatchExits
  BY <1>7 DEF WatchExits, WrapperEnds, dog, budget
<1>8. CASE WriteStop
  BY <1>8 DEF WriteStop, process, dog, budget
<1>9. CASE GraceEnds
  BY <1>9 DEF GraceEnds, process, dog, budget
<1>10. CASE TerminateJob
  BY <1>10 DEF TerminateJob, dog, budget
<1>11. CASE Stopped
  BY <1>11 DEF Stopped, WrapperEnds, dog, budget
<1>12. CASE Halt
  BY <1>12 DEF Halt, process, dog, budget
<1>13. CASE Arm
  BY <1>13 DEF Arm, Delete, wrapper
<1>14. CASE PollStop
  BY <1>14 DEF PollStop, Delete, dog, wrapper, R!Stop
<1>15. CASE RelayLeaves
  BY <1>15 DEF RelayLeaves, dog, wrapper, budget, R!Leave
<1>16. CASE RelayJoins
  BY <1>16 DEF RelayJoins, dog, wrapper, budget, R!Join, R!Drop
<1>17. CASE Crash
  BY <1>17 DEF Crash, Dies, dog, wrapper
<1>18. CASE Freeze
  BY <1>18 DEF Freeze, Armed, dog, wrapper
<1>19. CASE Thaw
  BY <1>19 DEF Thaw, dog, wrapper, budget
<1>20. CASE Beat
  BY <1>20 DEF Beat, Armed, process, wrapper, budget
<1>21. CASE Tick
  BY <1>21 DEF Tick, Armed, process, wrapper, budget
<1>22. CASE Kill
  BY <1>22 DEF Kill, Dies, Armed, dog, wrapper
<1>23. CASE Reboot
  BY <1>23 DEF Reboot
<1>24. CASE WrapperDies
  BY <1>24 DEF WrapperDies, WrapperEnds, dog
<1>25. CASE UNCHANGED serviceVars
  BY <1>25 DEF serviceVars, process, dog, wrapper, budget
<1> QED BY <1>1, <1>2, <1>3, <1>4, <1>5, <1>6, <1>7, <1>8, <1>9, <1>10, <1>11, <1>12, <1>13, <1>14, <1>15, <1>16, <1>17, <1>18, <1>19, <1>20, <1>21, <1>22, <1>23, <1>24, <1>25 DEF ServiceNext, WrapperStep, Watchdog

\* With one failing deletion at most, no file of an earlier life is left to find.
LEMMA UnaskedKept == ASSUME MaxStuck <= 1, Modes, Budgets, Wrapped, Unasked, [ServiceNext]_serviceVars PROVE Unasked'
<1> USE ServiceAssumption DEF Modes, Budgets, Wrapped, NoOrphan, Stopping, Running, Unasked, NoStaleStop
<1>1. CASE ScmStart
  BY <1>1 DEF ScmStart, dog
<1>2. CASE StartThrows
  BY <1>2 DEF StartThrows, WrapperEnds, dog, budget
<1>3. CASE CleanStale
  <2>1. wrap' = "create" /\ (fresh' <=> ~file') /\ life' = life /\ halt' = halt
    BY <1>3 DEF CleanStale, process
  <2>2. ~file' \/ stuck' = MaxStuck
    BY <1>3, Deleted DEF CleanStale
  <2>3. life \notin {"up", "leaving"}
    BY <1>3 DEF CleanStale
  <2> QED BY <2>1, <2>2, <2>3
<1>4. CASE CreateSuspended
  BY <1>4 DEF CreateSuspended, dog, budget
<1>5. CASE Resume
  BY <1>5 DEF Resume, budget
<1>6. CASE WatchSees
  BY <1>6 DEF WatchSees, process, dog, budget
<1>7. CASE WatchExits
  BY <1>7 DEF WatchExits, WrapperEnds, dog, budget
<1>8. CASE WriteStop
  BY <1>8 DEF WriteStop, process, dog, budget
<1>9. CASE GraceEnds
  BY <1>9 DEF GraceEnds, process, dog, budget
<1>10. CASE TerminateJob
  BY <1>10 DEF TerminateJob, dog, budget
<1>11. CASE Stopped
  BY <1>11 DEF Stopped, WrapperEnds, dog, budget
<1>12. CASE Halt
  BY <1>12 DEF Halt, process, dog, budget
<1>13. CASE Arm
  <2>1. wrap' = wrap /\ fresh' = fresh /\ halt' = halt /\ life' = "up" /\ wrap = "run"
    BY <1>13 DEF Arm, wrapper
  <2>2. CASE fresh
    BY <1>13, <2>1, <2>2 DEF Arm
  <2>3. CASE ~fresh
    <3>1. ~file' /\ stuck' = stuck
      BY <1>13, <2>1, <2>3, Deleted DEF Arm
    <3> QED BY <2>1, <2>3, <3>1
  <2> QED BY <2>2, <2>3
<1>14. CASE PollStop
  <2>1. wrap' = wrap /\ fresh' = fresh /\ halt' = halt /\ life' = "leaving" /\ Stopping
    BY <1>14 DEF PollStop, wrapper, R!Stop
  <2>2. ~fresh /\ wrap \in {"create", "assign", "run"} => stuck' = MaxStuck
    <3>1. (stuck' = stuck \/ stuck < MaxStuck) /\ UNCHANGED <<fresh, wrap>>
      BY <1>14, Deleted DEF PollStop, wrapper
    <3> QED BY <3>1
  <2> QED BY <2>1, <2>2
<1>15. CASE RelayLeaves
  BY <1>15 DEF RelayLeaves, dog, wrapper, budget, R!Leave
<1>16. CASE RelayJoins
  BY <1>16 DEF RelayJoins, dog, wrapper, budget, R!Join, R!Drop
<1>17. CASE Crash
  BY <1>17 DEF Crash, Dies, dog, wrapper
<1>18. CASE Freeze
  BY <1>18 DEF Freeze, Armed, dog, wrapper
<1>19. CASE Thaw
  BY <1>19 DEF Thaw, dog, wrapper, budget
<1>20. CASE Beat
  BY <1>20 DEF Beat, Armed, process, wrapper, budget
<1>21. CASE Tick
  BY <1>21 DEF Tick, Armed, process, wrapper, budget
<1>22. CASE Kill
  BY <1>22 DEF Kill, Dies, Armed, dog, wrapper
<1>23. CASE Reboot
  BY <1>23 DEF Reboot
<1>24. CASE WrapperDies
  BY <1>24 DEF WrapperDies, WrapperEnds, dog
<1>25. CASE UNCHANGED serviceVars
  BY <1>25 DEF serviceVars, process, dog, wrapper, budget
<1> QED BY <1>1, <1>2, <1>3, <1>4, <1>5, <1>6, <1>7, <1>8, <1>9, <1>10, <1>11, <1>12, <1>13, <1>14, <1>15, <1>16, <1>17, <1>18, <1>19, <1>20, <1>21, <1>22, <1>23, <1>24, <1>25 DEF ServiceNext, WrapperStep, Watchdog

\* The installation of the service satisfies the invariant.
LEMMA ServiceBegins == ServiceInit => ServiceIInv /\ Unasked
<1> SUFFICES ASSUME ServiceInit PROVE ServiceIInv /\ Unasked
  OBVIOUS
<1>1. Modes
  BY DEF ServiceInit, Modes
<1>2. Counted /\ Budgets
  BY ServiceAssumption DEF ServiceInit, Counted, Budgets
<1>3. Wrapped /\ Told /\ StopIsHeard /\ Unasked
  BY DEF ServiceInit, Wrapped, NoOrphan, Stopping, Running, Told, RestartIsACrash, StopIsHeard, Unasked, NoStaleStop
<1> QED BY <1>1, <1>2, <1>3 DEF ServiceIInv

\* The invariant holds in every reachable state.
LEMMA ServiceKept == ServiceSpec => []ServiceIInv
<1>1. ServiceIInv /\ [ServiceNext]_serviceVars => ServiceIInv'
  BY ModesKept, BudgetsKept, CountedKept, WrappedKept, ToldKept, HeardKept DEF ServiceIInv
<1> QED BY ServiceBegins, <1>1, PTL DEF ServiceSpec

\* Every reachable state of the slot is well typed.
THEOREM ServiceTypeCorrect == ServiceSpec => []ServiceTypeOK
<1>1. ServiceIInv => ServiceTypeOK
  BY DEF ServiceIInv, Modes, Counted, Budgets, ServiceTypeOK
<1> QED BY <1>1, ServiceKept, PTL

\* No instruction of the relay runs outside a wrapper that can end it.
THEOREM NeverAnOrphan == ServiceSpec => []NoOrphan
<1>1. ServiceIInv => NoOrphan
  BY DEF ServiceIInv, Wrapped
<1> QED BY <1>1, ServiceKept, PTL

\* The watchdog kills no loop that was late by less than a freeze.
THEOREM NeverKillsALiveLoop == ServiceSpec => []KillsOnlyFrozen
<1>1. ServiceIInv => KillsOnlyFrozen
  BY ServiceAssumption DEF ServiceIInv, Counted, KillsOnlyFrozen
<1> QED BY <1>1, ServiceKept, PTL

\* A stop reaches the run it was written for, and no stop looks like a crash,
\* however many deletions fail.
THEOREM StopIsHeardAndNoCrash == ServiceSpec => [](StopIsHeard /\ RestartIsACrash)
<1>1. ServiceIInv => StopIsHeard /\ RestartIsACrash
  BY DEF ServiceIInv, Told
<1> QED BY <1>1, ServiceKept, PTL

\* With at most one deletion that fails, it reaches no other run either.
THEOREM StopMeetsItsRunOnly == ASSUME MaxStuck <= 1 PROVE ServiceSpec => []StopMeetsItsRun
<1>1. ServiceIInv /\ Unasked /\ [ServiceNext]_serviceVars => Unasked'
  BY UnaskedKept DEF ServiceIInv
<1>2. ServiceIInv /\ Unasked => StopMeetsItsRun
  BY DEF ServiceIInv, Told, Unasked, StopMeetsItsRun
<1> QED BY ServiceBegins, ServiceKept, <1>1, <1>2, PTL DEF ServiceSpec

===========================================================================
