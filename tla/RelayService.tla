---------------------------- MODULE RelayService ----------------------------
(***************************************************************************)
(* One relay slot on Windows: the service wrapper (windows/relaysvc.cs)    *)
(* with its service-control and Watch threads, the relay it runs in a job, *)
(* the stop file between the two (src/stopfile.js), the relay's watchdog   *)
(* thread (src/watchdog.js), and the service manager around them.          *)
(*                                                                         *)
(* The relay itself is the abstract one of RelayLife.  The service manager *)
(* and Windows are external: a wrapper that dies without reporting         *)
(* SERVICE_STOPPED is restarted; closing its handle kills the job.         *)
(***************************************************************************)
EXTENDS Integers, FiniteSets

CONSTANTS
  Need,        \* missed beats the watchdog waits for: max(2, ceil(stall / beat))
  Slack,       \* beats a live event loop may be late
  MaxFaults,   \* bound: crashes and freezes of the relay
  MaxStuck,    \* bound: deletions of the stop file that fail (it is open elsewhere)
  MaxStarts    \* bound: starts and reboots asked for from outside

ASSUME ServiceAssumption ==
  /\ Need \in Nat /\ Need >= 2 /\ Slack \in 1 .. Need - 1
  /\ MaxFaults \in Nat /\ MaxStuck \in Nat /\ MaxStarts \in Nat

VARIABLES
  svc,      \* the service as the manager sees it
  wrap,     \* the wrapper: off, the step of OnStart, or run
  watch,    \* its Watch thread
  halt,     \* its Halt call; stopping is halt # "no"
  file,     \* the stop file exists
  fresh,    \* RELAY_STOP_FRESH of this run
  life,     \* the relay process (RelayLife, and the states before it)
  holds,    \* it may hold roots and backups
  frozen,   \* its event loop has stopped inside a native call
  missed,   \* the watchdog's count, Need once it has fired
  iced,     \* history: ticks of the count that found the loop frozen
  early,    \* history: the relay was gone before the service was asked to stop
  faults, stuck, starts   \* the bounded faults and requests

process == <<life, holds, frozen>>
dog     == <<missed, iced>>
wrapper == <<wrap, watch, halt, fresh>>
budget  == <<faults, stuck, starts>>
serviceVars == <<svc, file, process, dog, wrapper, early, budget>>

R == INSTANCE RelayLife

Stopping == halt # "no"
Armed    == life \in {"up", "leaving"}     \* the relay's timers are set
Running  == life \in {"boot", "up", "leaving"}

ServiceTypeOK ==
  /\ svc \in {"stopped", "starting", "running", "stopping", "failed"}
  /\ wrap \in {"off", "clean", "create", "assign", "run"}
  /\ watch \in {"none", "wait", "exit", "over"}
  /\ halt \in {"no", "write", "grace", "kill", "reap"}
  /\ life \in {"none", "suspended", "boot", "up", "leaving", "gone"}
  /\ {file, fresh, holds, frozen, early} \subseteq BOOLEAN
  /\ missed \in 0 .. Need /\ iced \in 0 .. Need
  /\ faults \in 0 .. MaxFaults /\ stuck \in 0 .. MaxStuck /\ starts \in 0 .. MaxStarts

ServiceInit ==
  /\ svc = "stopped" /\ wrap = "off" /\ watch = "none" /\ halt = "no"
  /\ file \in BOOLEAN /\ fresh = FALSE     \* a file of an earlier life may be there
  /\ life = "none" /\ holds = FALSE /\ frozen = FALSE
  /\ missed = 0 /\ iced = 0 /\ early = FALSE
  /\ faults = 0 /\ stuck = 0 /\ starts = 0

\* A best-effort deletion, whose failure is swallowed.
Delete ==
  \/ file' = FALSE /\ UNCHANGED stuck
  \/ file /\ stuck < MaxStuck /\ stuck' = stuck + 1 /\ UNCHANGED file

\* Everything the wrapper process holds goes with it: its threads, and the job
\* with the relay in it.  A process that was never resumed or assigned stays.
WrapperEnds ==
  /\ wrap' = "off" /\ watch' = "none" /\ halt' = "no" /\ fresh' = FALSE
  /\ life' = IF Running THEN "gone" ELSE life
  /\ frozen' = FALSE
  /\ UNCHANGED holds

-----------------------------------------------------------------------------
(* OnStart *)

\* The manager starts the wrapper, when it is asked to and after a crash.
ScmStart ==
  /\ \/ svc = "stopped" /\ starts < MaxStarts /\ starts' = starts + 1
     \/ svc = "failed" /\ UNCHANGED starts
  /\ svc' = "starting" /\ wrap' = "clean"
  /\ life' = "none" /\ holds' = FALSE /\ early' = FALSE
  /\ UNCHANGED <<file, frozen, dog, watch, halt, fresh, faults, stuck>>

\* The mutant: RELAY_STOP_FRESH=1 whatever the deletion did.
CleanBlindly ==
  /\ wrap = "clean"
  /\ Delete
  /\ fresh' = TRUE
  /\ wrap' = "create"
  /\ UNCHANGED <<svc, process, dog, watch, halt, early, faults, starts>>

\* The stale request goes first; what is left of it decides RELAY_STOP_FRESH.
CleanStale ==
  /\ wrap = "clean"
  /\ Delete
  /\ fresh' = ~file'
  /\ wrap' = "create"
  /\ UNCHANGED <<svc, process, dog, watch, halt, early, faults, starts>>

\* The mutant: the launcher runs before it is in the job.
CreateRunning ==
  /\ wrap = "create"
  /\ life' = "boot" /\ wrap' = "assign"
  /\ UNCHANGED <<svc, file, holds, frozen, dog, watch, halt, fresh, early, budget>>

\* CreateProcess(CREATE_SUSPENDED).
CreateSuspended ==
  /\ wrap = "create"
  /\ life' = "suspended" /\ wrap' = "assign"
  /\ UNCHANGED <<svc, file, holds, frozen, dog, watch, halt, fresh, early, budget>>

\* AssignProcessToJobObject, ResumeThread, and the Watch thread.
Resume ==
  /\ wrap = "assign"
  /\ life' = "boot" /\ wrap' = "run" /\ watch' = "wait" /\ svc' = "running"
  /\ missed' = 0 /\ iced' = 0
  /\ UNCHANGED <<file, holds, frozen, halt, fresh, early, budget>>

\* OnStart throws: the service reports itself stopped and the wrapper ends.
StartThrows ==
  /\ wrap \in {"create", "assign"}
  /\ WrapperEnds /\ svc' = "stopped"
  /\ life' \in {"none", "suspended", "gone"}
  /\ UNCHANGED <<file, dog, early, budget>>

-----------------------------------------------------------------------------
(* The Watch thread *)

\* The launcher has exited: by itself, or because it was asked to.
WatchSees ==
  /\ watch = "wait" /\ life = "gone"
  /\ watch' = IF Stopping THEN "over" ELSE "exit"
  /\ UNCHANGED <<svc, file, process, dog, wrap, halt, fresh, early, budget>>

\* TerminateJobObject and Environment.Exit(1), without SERVICE_STOPPED.
WatchExits ==
  /\ watch = "exit"
  /\ WrapperEnds /\ svc' = "failed"
  /\ UNCHANGED <<file, dog, early, budget>>

-----------------------------------------------------------------------------
(* Halt: OnStop with 30 s, OnShutdown with 4 s *)

\* The mutant: the file is written before stopping is set.
HaltAsksFirst ==
  /\ wrap = "run" /\ svc = "running" /\ ~Stopping
  /\ file' = TRUE /\ svc' = "stopping"
  /\ early' = (life = "gone")
  /\ UNCHANGED <<process, dog, wrapper, budget>>

Halt ==
  /\ wrap = "run" /\ svc = "running" /\ ~Stopping
  /\ halt' = "write" /\ svc' = "stopping"
  /\ early' = (life = "gone")
  /\ UNCHANGED <<file, process, dog, wrap, watch, fresh, budget>>

\* File.WriteAllText, or its exception: then nothing is waited for.
WriteStop ==
  /\ halt = "write"
  /\ \/ file' = TRUE /\ halt' = "grace"
     \/ halt' = "kill" /\ UNCHANGED file
  /\ UNCHANGED <<svc, process, dog, wrap, watch, fresh, early, budget>>

\* The relay left, or the grace is over.
GraceEnds ==
  /\ halt = "grace"
  /\ halt' = "kill"
  /\ UNCHANGED <<svc, file, process, dog, wrap, watch, fresh, early, budget>>

\* The mutant: the job is left to the grace alone.
TerminateNothing ==
  /\ halt = "kill" /\ life = "gone"
  /\ halt' = "reap"
  /\ UNCHANGED <<svc, file, process, dog, wrap, watch, fresh, early, budget>>

\* TerminateJobObject.
TerminateJob ==
  /\ halt = "kill"
  /\ halt' = "reap"
  /\ life' = IF Running THEN "gone" ELSE life
  /\ frozen' = FALSE
  /\ UNCHANGED <<svc, file, holds, dog, wrap, watch, fresh, early, budget>>

\* OnStop returns: SERVICE_STOPPED, and the wrapper process ends.
Stopped ==
  /\ halt = "reap"
  /\ WrapperEnds /\ svc' = "stopped"
  /\ UNCHANGED <<file, dog, early, budget>>

-----------------------------------------------------------------------------
(* The relay: boot, stop file, leave *)

\* The mutant: whatever is there when the watcher arms counts as stale.
ArmDeletes ==
  /\ life = "boot" /\ ~frozen
  /\ life' = "up"
  /\ Delete
  /\ missed' = 0 /\ iced' = 0
  /\ UNCHANGED <<svc, holds, frozen, wrapper, early, faults, starts>>

\* startWatchdog() and watchStopFile(), in one turn of main().  A file that is
\* not fresh is a request of an earlier life.
Arm ==
  /\ life = "boot" /\ ~frozen
  /\ life' = "up"
  /\ IF fresh THEN UNCHANGED <<file, stuck>> ELSE Delete
  /\ missed' = 0 /\ iced' = 0
  /\ UNCHANGED <<svc, holds, frozen, wrapper, early, faults, starts>>

\* The 500 ms poll finds the file: once, then shutdown().
PollStop ==
  /\ life = "up" /\ ~frozen /\ file
  /\ Delete
  /\ R!Stop
  /\ UNCHANGED <<svc, frozen, dog, wrapper, early, faults, starts>>

RelayLeaves ==
  /\ ~frozen /\ R!Leave
  /\ early' = (early \/ svc # "stopping")
  /\ UNCHANGED <<svc, file, frozen, dog, wrapper, budget>>

RelayJoins ==
  /\ ~frozen /\ (R!Join \/ R!Drop)
  /\ UNCHANGED <<svc, file, frozen, dog, wrapper, early, budget>>

\* The process dies on its own.
Dies ==
  /\ life' = "gone" /\ frozen' = FALSE
  /\ early' = (early \/ svc # "stopping")
  /\ UNCHANGED <<svc, file, holds, dog, wrapper, stuck, starts>>

Crash ==
  /\ Running /\ wrap = "run" /\ faults < MaxFaults
  /\ faults' = faults + 1
  /\ Dies

Freeze ==
  /\ Armed /\ ~frozen /\ faults < MaxFaults
  /\ faults' = faults + 1 /\ frozen' = TRUE
  /\ UNCHANGED <<svc, file, life, holds, dog, wrapper, early, stuck, starts>>

\* The native call returns after all.
Thaw ==
  /\ frozen /\ frozen' = FALSE
  /\ UNCHANGED <<svc, file, life, holds, dog, wrapper, early, budget>>

-----------------------------------------------------------------------------
(* The watchdog *)

\* The mutant: a late beat does not reset the count.
BeatUncounted ==
  /\ Armed /\ ~frozen /\ missed \in 1 .. Need - 1
  /\ iced' = 0 /\ UNCHANGED missed
  /\ UNCHANGED <<svc, file, process, wrapper, early, budget>>

\* A beat of the main thread reaches the worker.
Beat ==
  /\ Armed /\ ~frozen /\ missed \in 1 .. Need - 1
  /\ missed' = 0 /\ iced' = 0
  /\ UNCHANGED <<svc, file, process, wrapper, early, budget>>

\* The mutant: the count starts over before it is full.
TickWraps ==
  /\ Armed /\ missed < Need
  /\ frozen \/ missed < Slack
  /\ missed' = (missed + 1) % Need
  /\ iced' = IF frozen /\ iced < Need THEN iced + 1 ELSE iced
  /\ UNCHANGED <<svc, file, process, wrapper, early, budget>>

\* The worker's own timer.  A loop that lives is at most Slack beats late.
Tick ==
  /\ Armed /\ missed < Need
  /\ frozen \/ missed < Slack
  /\ missed' = missed + 1
  /\ iced' = IF frozen THEN iced + 1 ELSE iced
  /\ UNCHANGED <<svc, file, process, wrapper, early, budget>>

\* The dump is written, and SIGKILL follows whether or not the loop runs again.
Kill ==
  /\ Armed /\ missed = Need
  /\ Dies /\ UNCHANGED faults

-----------------------------------------------------------------------------

\* Power is lost, or Windows does not wait any longer.
Reboot ==
  /\ starts < MaxStarts /\ starts' = starts + 1
  /\ svc' = "stopped" /\ wrap' = "off" /\ watch' = "none" /\ halt' = "no"
  /\ fresh' = FALSE /\ life' = "none" /\ holds' = FALSE /\ frozen' = FALSE
  /\ missed' = 0 /\ iced' = 0 /\ early' = FALSE
  /\ UNCHANGED <<file, faults, stuck>>

\* The wrapper process is killed; the manager restarts the service.
WrapperDies ==
  /\ wrap # "off" /\ faults < MaxFaults /\ faults' = faults + 1
  /\ WrapperEnds /\ svc' = "failed"
  /\ early' = TRUE
  /\ UNCHANGED <<file, dog, stuck, starts>>

WrapperStep ==
  \/ CleanStale \/ CreateSuspended \/ Resume
  \/ WatchSees \/ WatchExits
  \/ WriteStop \/ GraceEnds \/ TerminateJob \/ Stopped

Watchdog == Tick \/ Kill

ServiceNext ==
  \/ ScmStart \/ StartThrows \/ WrapperStep \/ Halt
  \/ Arm \/ PollStop \/ RelayLeaves \/ RelayJoins \/ Crash \/ Freeze \/ Thaw
  \/ Beat \/ Watchdog \/ Reboot \/ WrapperDies

ServiceSpec == ServiceInit /\ [][ServiceNext]_serviceVars

\* Threads of the wrapper and of the watchdog run on their own; the manager
\* applies the failure action; a loop that is not frozen polls and leaves.
ServiceFairness ==
  /\ WF_serviceVars(WrapperStep) /\ WF_serviceVars(Watchdog) /\ WF_serviceVars(svc = "failed" /\ ScmStart)
  /\ WF_serviceVars(Arm) /\ WF_serviceVars(PollStop) /\ WF_serviceVars(RelayLeaves)

ServiceLiveSpec == ServiceSpec /\ ServiceFairness

-----------------------------------------------------------------------------
(* Properties *)

(***************************************************************************)
(* No code of the relay runs outside a wrapper that can end it: the        *)
(* launcher is in the job before its first instruction, and the job goes   *)
(* with the wrapper.                                                       *)
(***************************************************************************)
NoOrphan == Running => wrap = "run"

(***************************************************************************)
(* A stop that is written while the relay boots, or serves, reaches it:    *)
(* until the relay starts to leave, the request is still on disk, provided *)
(* the wrapper could remove the stale one (RELAY_STOP_FRESH).              *)
(***************************************************************************)
StopIsHeard == halt = "grace" /\ fresh /\ life \in {"boot", "up"} => file

(***************************************************************************)
(* A request of an earlier life stops nobody: a relay leaves only when its *)
(* own wrapper has been asked to stop, one failed deletion granted.        *)
(***************************************************************************)
NoStaleStop == life = "leaving" => Stopping

(***************************************************************************)
(* The manager restarts a service exactly because something died under it: *)
(* a relay that left because it was asked to is never read as a crash.     *)
(***************************************************************************)
RestartIsACrash == svc = "failed" => early

(***************************************************************************)
(* The watchdog kills no live loop: when it has fired, the event loop was  *)
(* frozen at all but Slack of the ticks it counted.                        *)
(***************************************************************************)
KillsOnlyFrozen == missed = Need => iced >= Need - Slack

(***************************************************************************)
(* A stop ends: whatever state the relay is in, frozen or still booting,   *)
(* it is gone once the grace is over.                                      *)
(***************************************************************************)
StopEnds == Stopping ~> ~Running

(***************************************************************************)
(* A freeze is bounded: the loop resumes, or the relay dies and the        *)
(* manager brings the next one up, unless the service is stopped.          *)
(***************************************************************************)
FreezeIsBounded == frozen ~> (~frozen /\ life \in {"up", "leaving"}) \/ svc \in {"stopped", "stopping"}

(***************************************************************************)
(* A stop meets the run it was meant for, and no other, and no stop looks  *)
(* like a crash (relaysvc.cs 97-178, stopfile.js 21-38).                   *)
(***************************************************************************)
StopMeetsItsRun == StopIsHeard /\ NoStaleStop /\ RestartIsACrash

=============================================================================
