---------------------------- MODULE RelayDaemon ----------------------------
(***************************************************************************)
(* The relay process: src/index.js main() with its connect loop, its       *)
(* shutdown and its host loop, over startRelay() and stopRelay() of        *)
(* src/relay.js.                                                           *)
(*                                                                         *)
(* A stack (peer and transport) is named after the attempt that built it.  *)
(* The kernel is external: a started stack joins the mesh, or not, and     *)
(* stopRelay(), whose leave() is bounded to 5 s, takes it out for good.    *)
(* Ticks, probes and the health dump only read; they are left out.         *)
(***************************************************************************)
EXTENDS Integers, FiniteSets

CONSTANTS
  MaxAttempts,  \* bound: the bridge fails fewer connects in a row than this
  Topics        \* how many topics RELAY_TOPICS names

ASSUME DaemonAssumption == MaxAttempts \in Nat \ {0} /\ Topics \in Nat

Stack == 1 .. MaxAttempts

VARIABLES
  pc,      \* where main() is
  cur,     \* peer and transport: the stack of which attempt, 0 for none
  start,   \* startRelay() of each stack
  mesh,    \* stacks that are in the mesh and may hold roots
  left,    \* stacks that stopRelay() took out
  down,    \* shuttingDown, and whether shutdown() is through
  target,  \* the stack shutdown() stops
  host,    \* the host loop
  todo     \* peer.host() calls it still has to make

vars == <<pc, cur, start, mesh, left, down, target, host, todo>>

stacks   == <<cur, start, mesh, left>>
shutdown == <<down, target>>
hosting  == <<host, todo>>

TypeOK ==
  /\ pc \in {"top", "teardown", "connect", "backoff", "up", "returned"}
  /\ cur \in 0 .. MaxAttempts
  /\ start \in [Stack -> {"none", "running", "done", "failed"}]
  /\ mesh \in SUBSET Stack /\ left \in SUBSET Stack
  /\ down \in {"no", "leaving", "gone"}
  /\ target \in 0 .. MaxAttempts
  /\ host \in {"none", "wait", "call", "over"}
  /\ todo \in 0 .. Topics + 1

Init ==
  /\ pc = "top" /\ cur = 0
  /\ start = [k \in Stack |-> "none"] /\ mesh = {} /\ left = {}
  /\ down = "no" /\ target = 0
  /\ host = "none" /\ todo = Topics + 1

Alive        == down # "gone"
ShuttingDown == down # "no"

-----------------------------------------------------------------------------
(* startRelay() and stopRelay() *)

\* The bridge welcomes the stack; from here on it may be recruited as a root.
Join(k) ==
  /\ Alive /\ start[k] = "running" /\ k \notin left
  /\ mesh' = mesh \cup {k}
  /\ UNCHANGED <<pc, cur, start, left, shutdown, hosting>>

\* leave() hands the roots off, then peer and transport stop.
StopRelay(k) ==
  /\ mesh' = mesh \ {k}
  /\ left' = left \cup ({k} \cap Stack)

-----------------------------------------------------------------------------
(* The connect loop *)

\* createRelay(), and the startRelay() that is raced with the timeout.
Build(k) ==
  /\ cur' = k
  /\ start' = [start EXCEPT ![k] = "running"]
  /\ pc' = "connect"

\* The top of the loop: the first stack is built at once, a later one after
\* the failed one is torn down.
LoopTop ==
  /\ Alive /\ pc = "top" /\ ~ShuttingDown
  /\ \/ cur = 0 /\ Build(1)
     \/ cur # 0 /\ pc' = "teardown" /\ UNCHANGED <<cur, start>>
  /\ UNCHANGED <<mesh, left, shutdown, hosting>>

LoopEnds ==
  /\ Alive /\ pc = "top" /\ ShuttingDown
  /\ pc' = "returned"
  /\ UNCHANGED <<stacks, shutdown, hosting>>

\* The mutant: the failed attempt is left alone.
TornDownNot ==
  /\ Alive /\ pc = "teardown" /\ cur < MaxAttempts
  /\ Build(cur + 1)
  /\ UNCHANGED <<mesh, left, shutdown, hosting>>

\* stopRelay() has returned.  shuttingDown is not looked at again before the
\* next stack is built and started.
TornDown ==
  /\ Alive /\ pc = "teardown" /\ cur < MaxAttempts
  /\ StopRelay(cur)
  /\ Build(cur + 1)
  /\ UNCHANGED <<shutdown, hosting>>

\* The mutant: a failed connect ends main().
CaughtOnce ==
  pc' = "returned"

\* The catch of the loop.
Caught ==
  pc' = IF ShuttingDown THEN "returned" ELSE "backoff"

\* startRelay() resolves.  For a stack that main() has given up, nobody looks.
Started(k) ==
  /\ Alive /\ start[k] = "running" /\ k \in mesh
  /\ start' = [start EXCEPT ![k] = "done"]
  /\ IF k = cur /\ pc = "connect"
       THEN IF ShuttingDown
              THEN pc' = "returned" /\ UNCHANGED host
              ELSE pc' = "up" /\ host' = "wait"
       ELSE UNCHANGED <<pc, host>>
  /\ UNCHANGED <<cur, mesh, left, shutdown, todo>>

\* startRelay() throws: ECONNREFUSED, 502, or the transport was stopped.
StartFails(k) ==
  /\ Alive /\ start[k] = "running" /\ k \notin mesh
  /\ k < MaxAttempts \/ k \in left
  /\ start' = [start EXCEPT ![k] = "failed"]
  /\ IF k = cur /\ pc = "connect" THEN Caught ELSE UNCHANGED pc
  /\ UNCHANGED <<cur, mesh, left, shutdown, hosting>>

\* CONNECT_TIMEOUT_MS: main() goes on and startRelay() keeps running.
TimesOut ==
  /\ Alive /\ pc = "connect" /\ cur < MaxAttempts
  /\ Caught
  /\ UNCHANGED <<stacks, shutdown, hosting>>

BackoffOver ==
  /\ Alive /\ pc = "backoff"
  /\ pc' = "top"
  /\ UNCHANGED <<stacks, shutdown, hosting>>

-----------------------------------------------------------------------------
(* The host loop *)

\* Three peers or 25 s.
HostReady ==
  /\ Alive /\ host = "wait"
  /\ host' = IF ShuttingDown THEN "over" ELSE "call"
  /\ UNCHANGED <<pc, stacks, shutdown, todo>>

\* The mutant: one call too many.
HostedAll ==
  /\ Alive /\ host = "call"
  /\ todo' = todo - 1
  /\ host' = IF todo = 0 \/ ShuttingDown THEN "over" ELSE "call"
  /\ UNCHANGED <<pc, stacks, shutdown>>

\* peer.host() resolved or threw, first for the keyspace, then per topic.
Hosted ==
  /\ Alive /\ host = "call"
  /\ todo' = todo - 1
  /\ host' = IF todo = 1 \/ ShuttingDown THEN "over" ELSE "call"
  /\ UNCHANGED <<pc, stacks, shutdown>>

-----------------------------------------------------------------------------
(* shutdown() *)

\* A signal, the quit key or the stop file.  Later ones change nothing.
Shutdown ==
  /\ down = "no"
  /\ down' = "leaving" /\ target' = cur
  /\ UNCHANGED <<pc, stacks, hosting>>

\* The mutant: the process exits without stopRelay().
ShutdownAtOnce ==
  /\ down = "leaving"
  /\ down' = "gone"
  /\ UNCHANGED <<pc, stacks, target, hosting>>

\* The mutant: shutdown() waits for main() to return.
ShutdownJoins ==
  /\ down = "leaving" /\ pc = "returned"
  /\ StopRelay(target)
  /\ down' = "gone"
  /\ UNCHANGED <<pc, cur, start, target, hosting>>

\* stopRelay() has returned; cleanupWebRTC() and process.exit(0) follow.
ShutdownDone ==
  /\ down = "leaving"
  /\ StopRelay(target)
  /\ down' = "gone"
  /\ UNCHANGED <<pc, cur, start, target, hosting>>

-----------------------------------------------------------------------------

LoopStep ==
  \/ LoopTop \/ LoopEnds \/ TornDown \/ TimesOut \/ BackoffOver
  \/ \E k \in Stack : Started(k) \/ StartFails(k)

HostStep == HostReady \/ Hosted

Next == LoopStep \/ HostStep \/ Shutdown \/ ShutdownDone \/ \E k \in Stack : Join(k)

Spec == Init /\ [][Next]_vars

\* Timers fire and promises settle; leave(), stop() and host() are bounded in
\* the kernel; the bridge answers the attempt that the bound does not fail.
Fairness ==
  /\ WF_vars(LoopStep) /\ WF_vars(HostStep) /\ WF_vars(ShutdownDone)
  /\ WF_vars(Join(MaxAttempts))

LiveSpec == Spec /\ Fairness

-----------------------------------------------------------------------------
(* Properties *)

(***************************************************************************)
(* A stack is built only after the one before it has left: the process is  *)
(* one node of the mesh at a time, though a connect that timed out may     *)
(* still come up while main() backs off.                                   *)
(***************************************************************************)
OneNode == \A j, k \in mesh : j = k

(***************************************************************************)
(* The process that has shut down left the mesh first, with its roots      *)
(* handed off, unless main() built another stack after shutdown() had      *)
(* taken hold of the old one.                                              *)
(***************************************************************************)
LeavesFirst == down = "gone" /\ target = cur => mesh = {}

(***************************************************************************)
(* However its connects fail or hang before, the relay comes up once the   *)
(* bridge answers, and then makes every peer.host() call it has to make.   *)
(***************************************************************************)
ComesUp == <>((host = "over" /\ todo = 0) \/ ShuttingDown)

(***************************************************************************)
(* shutdown() ends the process at whatever point main() is.                *)
(***************************************************************************)
ShutdownEnds == ShuttingDown ~> down = "gone"

(***************************************************************************)
(* Seen from outside, the process is the relay of RelayLife: its stacks,   *)
(* time-outs and retries never show it gone with roots that the shutdown   *)
(* took hold of and did not hand off, and a shutdown always gets through.  *)
(***************************************************************************)
LifeSeen == IF ShuttingDown THEN down ELSE "up"
Holds    == IF ShuttingDown THEN target \in mesh ELSE mesh # {}
Promise  == INSTANCE RelayLife WITH life <- LifeSeen, holds <- Holds

KeepsPromise == Promise!Spec

=============================================================================
