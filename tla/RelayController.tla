-------------------------- MODULE RelayController --------------------------
(***************************************************************************)
(* The desktop app's relay controller: RelayController.start() and stop()  *)
(* of desktop/src/main/relay-controller.js, as the renderer (ipc.js), the  *)
(* tray and the launch call them.                                          *)
(*                                                                         *)
(* Calls overlap at their awaits; what runs between two awaits is one      *)
(* step.  A stack (peer and transport) is named after the call and the     *)
(* attempt that built it.  The kernel is external: a started stack joins   *)
(* the mesh, or not, and stopRelay() takes it out for good.                *)
(***************************************************************************)
EXTENDS Integers

CONSTANTS
  Calls,       \* how many calls are made
  MaxAttempts  \* bound: the bridge fails fewer connects of one call than this

ASSUME ControllerAssumption == Calls \in Nat /\ MaxAttempts \in Nat \ {0}

Call    == 1 .. Calls
Stack   == Call \X (1 .. MaxAttempts)
NoStack == <<0, 0>>

VARIABLES
  pc,        \* where each call is
  att,       \* the attempt of a start
  victim,    \* the stack its stopRelay(), or its peer.host(), was called on
  peer,      \* this.peer, this.transport and this.node
  running,   \* this.running
  token,     \* whose token _startToken still is, 0 if nobody's: it is only
             \* ever compared for equality, so the count itself is left out
  timer,     \* this._healthTimer is set
  hosted,    \* this._hosted
  status,    \* the status last emitted: stopped, or any of the others
  starting,  \* stacks whose startRelay() may still bring them up
  mesh,      \* stacks in the mesh
  host,      \* the host loop of each start
  served,    \* the stack whose peer.host() resolved last
  clash      \* history: calls that met another at an await, see Meets

calls  == <<pc, att, victim>>
flags  == <<running, token, timer, hosted, status>>
stacks == <<starting, mesh>>
hosts  == <<host, served>>
vars   == <<calls, peer, flags, stacks, hosts, clash>>

PC == {"idle", "stopping", "restarting", "modules", "identity", "connect",
       "cleaning", "backoff", "returned"}

TypeOK ==
  /\ pc \in [Call -> PC] /\ att \in [Call -> 0 .. MaxAttempts]
  /\ victim \in [Call -> Stack \cup {NoStack}]
  /\ peer \in Stack \cup {NoStack}
  /\ running \in BOOLEAN /\ token \in 0 .. Calls
  /\ timer \in BOOLEAN /\ hosted \in BOOLEAN
  /\ status \in {"stopped", "working"}
  /\ starting \in SUBSET Stack /\ mesh \in SUBSET Stack
  /\ host \in [Call -> {"none", "wait", "call", "over"}]
  /\ served \in Stack \cup {NoStack}
  /\ clash \in SUBSET {"stack", "host"}

Init ==
  /\ pc = [c \in Call |-> "idle"] /\ att = [c \in Call |-> 0]
  /\ victim = [c \in Call |-> NoStack] /\ peer = NoStack
  /\ running = FALSE /\ token = 0 /\ timer = FALSE /\ hosted = FALSE
  /\ status = "stopped"
  /\ starting = {} /\ mesh = {}
  /\ host = [c \in Call |-> "none"] /\ served = NoStack
  /\ clash = {}

Current(c) == running /\ token = c

Built(c) == <<c, att[c]>>

At(c, p) == pc' = [pc EXCEPT ![c] = p]

-----------------------------------------------------------------------------
(* stop(), and the stop() a start() begins with *)

\* A call issued now meets one whose await will write the stack afterwards, or
\* a peer.host() whose answer will write _hosted.
Meets(k) ==
  (IF \E d \in Call :
        \/ pc[d] \in {"stopping", "restarting", "modules", "identity", "cleaning"}
        \/ k = "restarting" /\ pc[d] = "connect"
     THEN {"stack"} ELSE {})
  \cup (IF \E d \in Call : host[d] = "call" THEN {"host"} ELSE {})

\* The mutant: _hosted survives the stop.
StopKeepsHosted ==
  /\ token' = 0 /\ running' = FALSE /\ timer' = FALSE
  /\ UNCHANGED <<hosted, status>>

\* What stop() clears before it awaits the teardown.
StopFlags ==
  /\ token' = 0 /\ running' = FALSE /\ hosted' = FALSE /\ timer' = FALSE
  /\ UNCHANGED status

\* A button, the tray, the launch or the quit: up to the first await, where
\* stopRelay() has been called on the stack there is now.
Issue(c) ==
  /\ pc[c] = "idle" /\ \A d \in Call : d < c => pc[d] # "idle"
  /\ \E k \in {"stopping", "restarting"} : At(c, k) /\ clash' = clash \cup Meets(k)
  /\ victim' = [victim EXCEPT ![c] = peer]
  /\ StopFlags
  /\ UNCHANGED <<att, peer, stacks, hosts>>

\* The mutant: this.peer is dropped without stopRelay().
TornDownNot(c) ==
  /\ peer' = IF victim[c] = NoStack THEN peer ELSE NoStack
  /\ victim' = [victim EXCEPT ![c] = NoStack]
  /\ UNCHANGED stacks

\* _teardownStack() comes back.  It forgets whatever this.peer is by now.
TornDown(c) ==
  /\ peer' = IF victim[c] = NoStack THEN peer ELSE NoStack
  /\ mesh' = mesh \ {victim[c]} /\ starting' = starting \ {victim[c]}
  /\ victim' = [victim EXCEPT ![c] = NoStack]

\* stop() is through: a stop returns, a start awaits _modules().
Stopped(c) ==
  /\ pc[c] \in {"stopping", "restarting"} /\ TornDown(c)
  /\ status' = "stopped"
  /\ At(c, IF pc[c] = "restarting" THEN "modules" ELSE "returned")
  /\ UNCHANGED <<att, running, token, timer, hosted, hosts, clash>>

-----------------------------------------------------------------------------
(* start() *)

\* The mutant: the attempts are counted from 0.
TakeTokenFromZero(c) ==
  /\ pc[c] = "modules"
  /\ token' = c
  /\ running' = TRUE /\ status' = "working"
  /\ At(c, "identity")
  /\ UNCHANGED <<att, victim, peer, timer, hosted, stacks, hosts, clash>>

\* The start takes its token.  It does not look at what came in meanwhile.
TakeToken(c) ==
  /\ pc[c] = "modules"
  /\ token' = c
  /\ att' = [att EXCEPT ![c] = 1]
  /\ running' = TRUE /\ status' = "working"
  /\ At(c, "identity")
  /\ UNCHANGED <<victim, peer, timer, hosted, stacks, hosts, clash>>

\* The identity is minted; the stack is built and becomes this.peer.
Build(c) ==
  /\ pc[c] = "identity"
  /\ peer' = Built(c) /\ starting' = starting \cup {Built(c)}
  /\ At(c, "connect")
  /\ UNCHANGED <<att, victim, flags, mesh, hosts, clash>>

\* The bridge welcomes a stack, also one whose call has given it up.
Join(s) ==
  /\ s \in starting
  /\ mesh' = mesh \cup {s}
  /\ UNCHANGED <<calls, peer, flags, starting, hosts, clash>>

\* The mutant: the loop does not look whether it is still wanted.
ConnectedBlindly(c) ==
  /\ pc[c] = "connect" /\ (Built(c) \in mesh \/ Built(c) \notin starting)
  /\ starting' = starting \ {Built(c)}
  /\ At(c, "returned")
  /\ timer' = TRUE /\ host' = [host EXCEPT ![c] = "wait"]
  /\ UNCHANGED <<att, victim, peer, running, token, hosted, status,
                 mesh, served, clash>>

\* startRelay() resolves, which a ready() that only times out also lets it do
\* on a stack that was stopped: the health loop and the host loop begin, unless
\* the start is no longer wanted.
Connected(c) ==
  /\ pc[c] = "connect" /\ (Built(c) \in mesh \/ Built(c) \notin starting)
  /\ starting' = starting \ {Built(c)}
  /\ At(c, "returned")
  /\ IF Current(c)
       THEN timer' = TRUE /\ host' = [host EXCEPT ![c] = "wait"]
       ELSE UNCHANGED <<timer, host>>
  /\ UNCHANGED <<att, victim, peer, running, token, hosted, status,
                 mesh, served, clash>>

\* The mutant: the catch backs off and leaves the stack alone.
CaughtAsIs(c) ==
  /\ pc[c] \in {"identity", "connect"}
  /\ att[c] < MaxAttempts
  /\ At(c, "backoff")
  /\ UNCHANGED <<att, victim, peer, flags, stacks, hosts, clash>>

\* The mint or startRelay() throws, or the race times out and startRelay()
\* goes on: the catch tears down this.peer, whosever it is.
Caught(c) ==
  /\ pc[c] \in {"identity", "connect"}
  /\ att[c] < MaxAttempts \/ (pc[c] = "connect" /\ Built(c) \notin starting)
  /\ \/ Built(c) \notin mesh /\ starting' = starting \ {Built(c)}
     \/ pc[c] = "connect" /\ UNCHANGED starting
  /\ victim' = [victim EXCEPT ![c] = peer]
  /\ At(c, "cleaning")
  /\ UNCHANGED <<att, peer, flags, mesh, hosts, clash>>

\* The teardown is back: the loop backs off, unless it is no longer wanted.
Cleaned(c) ==
  /\ pc[c] = "cleaning" /\ TornDown(c)
  /\ IF Current(c)
       THEN At(c, "backoff") /\ status' = "working"
       ELSE At(c, "returned") /\ UNCHANGED status
  /\ UNCHANGED <<att, running, token, timer, hosted, hosts, clash>>

\* The mutant: a loop that is no longer wanted waits for its next turn.
BackoffOverWaits(c) ==
  /\ pc[c] = "backoff" /\ Current(c) /\ att[c] < MaxAttempts
  /\ At(c, "identity") /\ att' = [att EXCEPT ![c] = @ + 1]
  /\ UNCHANGED <<victim, peer, flags, stacks, hosts, clash>>

BackoffOver(c) ==
  /\ pc[c] = "backoff"
  /\ \/ Current(c) /\ att[c] < MaxAttempts
        /\ At(c, "identity") /\ att' = [att EXCEPT ![c] = @ + 1]
     \/ ~Current(c) /\ At(c, "returned") /\ UNCHANGED att
  /\ UNCHANGED <<victim, peer, flags, stacks, hosts, clash>>

-----------------------------------------------------------------------------
(* The health loop and the host loop *)

\* A tick with a health to show.
Tick ==
  /\ timer /\ peer # NoStack
  /\ status' = IF running THEN "working" ELSE "stopped"
  /\ UNCHANGED <<calls, peer, running, token, timer, hosted, stacks, hosts, clash>>

\* Three peers or 25 s: peer.host() is called, unless it has been.
HostReady(c) ==
  /\ host[c] = "wait"
  /\ IF Current(c) /\ ~hosted /\ peer # NoStack
       THEN host' = [host EXCEPT ![c] = "call"] /\ victim' = [victim EXCEPT ![c] = peer]
       ELSE host' = [host EXCEPT ![c] = "over"] /\ UNCHANGED victim
  /\ UNCHANGED <<pc, att, peer, flags, stacks, served, clash>>

\* peer.host() resolves, on the stack it was called on, or throws.
Hosted(c) ==
  /\ host[c] = "call"
  /\ host' = [host EXCEPT ![c] = "over"]
  /\ victim' = [victim EXCEPT ![c] = NoStack]
  /\ \/ hosted' = TRUE /\ served' = victim[c]
     \/ UNCHANGED <<hosted, served>>
  /\ UNCHANGED <<pc, att, peer, running, token, timer, status, stacks, clash>>

-----------------------------------------------------------------------------

Step(c) ==
  \/ Stopped(c) \/ TakeToken(c) \/ Build(c) \/ Connected(c)
  \/ Caught(c) \/ Cleaned(c) \/ BackoffOver(c)

Next ==
  \/ \E c \in Call : Issue(c) \/ Step(c) \/ HostReady(c) \/ Hosted(c)
  \/ \E s \in Stack : Join(s)
  \/ Tick

Spec == Init /\ [][Next]_vars

\* Timers fire, imports, mints and teardowns come back, and the bridge answers
\* the attempt that the bound does not fail.
Fairness ==
  /\ \A c \in Call : WF_vars(Step(c)) /\ WF_vars(Join(<<c, MaxAttempts>>))

LiveSpec == Spec /\ Fairness

-----------------------------------------------------------------------------
(* Properties *)

Quiet == \A c \in Call : pc[c] \in {"idle", "returned"}

(***************************************************************************)
(* start() "Tears down any existing relay first": the app is one node of   *)
(* the mesh.  Two starts that overlap while one mints its identity break   *)
(* it: the later stack overwrites this.peer and nothing stops the earlier. *)
(***************************************************************************)
TearsDownFirst == \A s, t \in mesh : s = t

(***************************************************************************)
(* It holds as long as no call comes in while another is in a teardown, an *)
(* import or a mint, nor a start during a connect: retries, late joins,    *)
(* stops during a connect and calls during a backoff never make two nodes. *)
(***************************************************************************)
OneRelay == "stack" \notin clash => TearsDownFirst

(***************************************************************************)
(* Under the same condition, when every call has returned the controller   *)
(* is either stopped, with nothing in the mesh and no stack kept, or       *)
(* running the stack it knows, in the mesh and with its health loop.       *)
(***************************************************************************)
SettlesRight ==
  Quiet /\ "stack" \notin clash =>
    IF running THEN peer \in mesh /\ timer ELSE mesh = {} /\ peer = NoStack

(***************************************************************************)
(* However calls overlap, the health loop runs only while the controller   *)
(* is running, and a controller that came to rest stopped says so.         *)
(***************************************************************************)
StatusIsTrue ==
  /\ timer => running
  /\ Quiet /\ ~running => status = "stopped"

(***************************************************************************)
(* _hosted is true only of the stack that is running, unless a call met a  *)
(* peer.host() in flight, whose answer sets it after the stop cleared it.  *)
(***************************************************************************)
HostedIsCurrent == clash = {} /\ hosted => running /\ served = peer

(***************************************************************************)
(* Every call comes back to its caller, whatever it met on the way, unless *)
(* its stack was stopped under it at the last attempt the bound allows.    *)
(***************************************************************************)
Returns ==
  \A c \in Call : pc[c] # "idle" ~>
    pc[c] = "returned" \/ (pc[c] = "backoff" /\ att[c] = MaxAttempts)

(***************************************************************************)
(* The app is one node of the mesh, or none, as its last call left it, and *)
(* hosts only what that node hosts, unless calls met in a teardown, an     *)
(* import or a mint (relay-controller.js 105-226).                         *)
(***************************************************************************)
NodeFollowsCalls == OneRelay /\ SettlesRight /\ HostedIsCurrent

=============================================================================
