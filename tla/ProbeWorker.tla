---------------------------- MODULE ProbeWorker ----------------------------
(***************************************************************************)
(* The probe worker of a relay, src/probe.js: a directory of request       *)
(* files, polled; one matrix of probes at a time, its rows appended to an  *)
(* output file and closed by a done file.  Both are named after the run    *)
(* and the node id, which the relay mints at every start.  Runs are named  *)
(* 1, 2, ... in the order their file names sort.                           *)
(***************************************************************************)
EXTENDS Naturals

CONSTANTS
  RequestBound,  \* bound: requests dropped in the directory
  StartBound,    \* bound: starts of the relay
  Probes         \* rows of a matrix: targets x samples, one row each

Run == 1 .. RequestBound

VARIABLES
  request,  \* request file of a run: "none", "half" written, "whole"
  self,     \* the node id: the number of the start, 0 before the first
  awake,    \* the relay is running and its worker not stopped
  noticed,  \* seen: runs this process will not look at again
  busy,     \* runs under way (the code's flag allows one), with probes left
  rows,     \* rows in the output file of a run and a node, 0 .. Probes
  done,     \* done files: {"ok", "failed"} or "none", per run and node
  lost   \* history: runs read half-written, or failed without a done file

probeFiles == <<request, rows, done>>
probeVars  == <<probeFiles, self, awake, noticed, busy, lost>>

ProbeTypeOK ==
  /\ request \in [Run -> {"none", "half", "whole"}]
  /\ self \in 0 .. StartBound /\ awake \in BOOLEAN
  /\ noticed \subseteq Run /\ lost \subseteq Run
  /\ busy \in [Run -> 0 .. Probes + 1]
  /\ rows \in [Run -> [1 .. StartBound -> 0 .. Probes]]
  /\ done \in [Run -> [1 .. StartBound -> {"none", "ok", "failed"}]]

ProbeInit ==
  /\ request = [r \in Run |-> "none"] /\ self = 0 /\ awake = FALSE
  /\ noticed = {} /\ busy = [r \in Run |-> 0] /\ lost = {}
  /\ rows = [r \in Run |-> [n \in 1 .. StartBound |-> 0]]
  /\ done = [r \in Run |-> [n \in 1 .. StartBound |-> "none"]]

-----------------------------------------------------------------------------
(* Whoever asks for a run writes its file, in two steps. *)
DropRequest(r) ==
  /\ request[r] = "none" /\ request' = [request EXCEPT ![r] = "half"]
  /\ UNCHANGED <<rows, done, self, awake, noticed, busy, lost>>

CloseRequest(r) ==
  /\ request[r] = "half" /\ request' = [request EXCEPT ![r] = "whole"]
  /\ UNCHANGED <<rows, done, self, awake, noticed, busy, lost>>

(* A start mints an id; the process before it may have died anywhere. *)
StartRelay ==
  /\ self < StartBound /\ self' = self + 1 /\ awake' = TRUE
  /\ noticed' = {} /\ busy' = [r \in Run |-> 0]
  /\ UNCHANGED <<probeFiles, lost>>

(* stop(): no poll any more; a run under way goes on to its end. *)
StopWorker ==
  /\ awake /\ awake' = FALSE
  /\ UNCHANGED <<probeFiles, self, noticed, busy, lost>>

-----------------------------------------------------------------------------
Idle == \A r \in Run : busy[r] = 0

Passed(r)  == r \in noticed \/ done[r][self] # "none"
Useless(r) == ~Passed(r) /\ request[r] = "half"   \* parseRequest: null
Fit(r)     == ~Passed(r) /\ request[r] = "whole"

Files == {r \in Run : request[r] # "none"}

(* The files a poll looks at: up to the first it can run, which it starts. *)
Looked == {r \in Files : \A q \in Run : q < r => ~Fit(q)}

Look ==
  /\ noticed' = noticed \cup {r \in Looked : ~Fit(r)}
  /\ lost' = lost \cup {r \in Looked : Useless(r)}
  /\ busy' = [r \in Run |-> IF r \in Looked /\ Fit(r) THEN busy[r] + Probes + 1 ELSE busy[r]]
  /\ rows' = [r \in Run |-> IF r \in Looked /\ Fit(r)
                            THEN [rows[r] EXCEPT ![self] = 0] ELSE rows[r]]
  /\ UNCHANGED <<request, done, self, awake>>

\* Mutant: no look at the busy flag.
PollRequestsBusy == awake /\ Look                           

\* Mutant: a poll that found nothing to run was the last.
PollRequestsOnce == awake /\ Idle /\ noticed = {} /\ Look

(* poll(): one run per poll, none while one is under way. *)
PollRequests == awake /\ Idle /\ Look

(* runProbeMatrix: one probe, routed and perhaps direct, and its row. *)
ProbeOne(r) ==
  /\ busy[r] > 1 /\ busy' = [busy EXCEPT ![r] = @ - 1]
  /\ rows' = [rows EXCEPT ![r][self] = @ + 1]
  /\ UNCHANGED <<request, done, self, awake, noticed, lost>>

(* The last row and the done file; the run is not looked at again. *)
FinishRun(r) ==
  /\ busy[r] = 1 /\ busy' = [busy EXCEPT ![r] = 0]
  /\ done' = [done EXCEPT ![r][self] = "ok"]
  /\ noticed' = noticed \cup {r}
  /\ UNCHANGED <<request, rows, self, awake, lost>>

(* A file operation throws: the done file says so, if it can be written. *)
FailRun(r) ==
  /\ busy[r] > 0 /\ busy' = [busy EXCEPT ![r] = 0]
  /\ \/ done' = [done EXCEPT ![r][self] = "failed"] /\ UNCHANGED lost
     \/ lost' = lost \cup {r} /\ UNCHANGED done
  /\ noticed' = noticed \cup {r}
  /\ UNCHANGED <<request, rows, self, awake>>

ProbeStep ==
  \/ \E r \in Run : \/ DropRequest(r) \/ CloseRequest(r)
                    \/ ProbeOne(r) \/ FinishRun(r) \/ FailRun(r)
  \/ StartRelay \/ StopWorker \/ PollRequests

(* The poll timer fires, and a probe answers or times out. *)
ProbeFairness ==
  /\ WF_probeVars(PollRequests)
  /\ \A r \in Run : WF_probeVars(ProbeOne(r) \/ FinishRun(r))

-----------------------------------------------------------------------------
(* A done file that reports success stands beside an output file with every *)
(* row of its matrix: no second execution truncates or doubles it, whatever *)
(* polls and restarts do while it is written (probe.js 106-136).            *)
ReportIsWhole ==
  \A r \in Run, n \in 1 .. StartBound : done[r][n] = "ok" => rows[r][n] = Probes

(* A complete request is run by the relay that is up, unless the relay goes *)
(* down or is stopped, a poll read the file half-written, or the failure    *)
(* could not be recorded (probe.js 113-138).                                *)
RequestIsServed ==
  \A r \in Run : (request[r] = "whole" /\ awake /\ r \notin lost)
                   ~> (~awake \/ r \in lost \/ done[r][self] # "none")
=============================================================================
