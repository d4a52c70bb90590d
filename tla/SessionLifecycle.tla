-------------------------- MODULE SessionLifecycle --------------------------
(***************************************************************************)
(* The one persistent session of the MCP server: src/mcp-session.js.       *)
(*                                                                         *)
(* ensureSession(), the connect it starts, publish(), reconnect(),         *)
(* shutdown() and terminate().  Every action is the code between two       *)
(* awaits; what the promise machinery runs in the same turn (a resolved    *)
(* connect and the calls that waited for it) is one action.                *)
(*                                                                         *)
(* A connect is named after the call that started it, and its peer after   *)
(* the connect.  Standing watches and re-seated watches belong to          *)
(* WatchReseat; the lock file behind the seat belongs to AuthorSeat.       *)
(***************************************************************************)
EXTENDS Integers, Sequences, FiniteSets
LOCAL INSTANCE TLC

CONSTANTS
  Publish,      \* calls of publish()
  Reconnect,    \* calls of reconnect()
  None,         \* no peer, no connect
  InflightMax,  \* INFLIGHT_MAX
  Declares      \* DECLARE_CLASS: a connect declares the author class

ASSUME LifecycleAssumption ==
  /\ Publish \cap Reconnect = {}
  /\ None \notin Publish \cup Reconnect
  /\ InflightMax \in Nat \ {0}
  /\ Declares \in BOOLEAN

Call == Publish \cup Reconnect

VARIABLES
  session,     \* _session: the peer of which connect
  connecting,  \* _connecting: the connect in flight
  task,        \* the stage of each connect
  open,        \* peers whose transport is up
  seat,        \* _releaseIdentity and the lock it guards
  call,        \* the stage of each call
  on,          \* the connect a call waits for, or the peer it works with
  down,        \* _shuttingDown and _terminating
  shut,        \* the stage of shutdown()
  inflight,    \* _inflight, oldest first
  drain,       \* the entries drainInflight() still has to read back
  owed,        \* history: the entries of _inflight when shutdown() began
  landed,      \* publishes that reached their holder
  reported     \* publishes answered or logged as not read back

vars == <<session, connecting, task, open, seat, call, on, down, shut,
          inflight, drain, owed, landed, reported>>

connects == <<session, connecting, task, open, seat>>
calls    == <<call, on>>
ending   == <<down, shut, drain, owed>>
messages == <<inflight, landed, reported>>

TaskStages == {"none", "link", "abort", "declare", "over", "failed"}
CallStages == {"idle", "wait", "sign", "warm", "confirm", "closing", "done", "failed"}
ShutStages == {"no", "drain", "close", "done", "exited"}

TypeOK ==
  /\ session \in Call \cup {None}
  /\ connecting \in Call \cup {None}
  /\ task \in [Call -> TaskStages]
  /\ open \in SUBSET Call
  /\ seat \in {"unclaimed", "held", "released"}
  /\ call \in [Call -> CallStages]
  /\ on \in [Call -> Call \cup {None}]
  /\ down \in BOOLEAN
  /\ shut \in ShutStages
  /\ inflight \in Seq(Publish) /\ Len(inflight) <= InflightMax
  /\ drain \in Seq(Publish)
  /\ owed \in SUBSET Publish /\ landed \in SUBSET Publish /\ reported \in SUBSET Publish

Init ==
  /\ session = None /\ connecting = None
  /\ task = [t \in Call |-> "none"]
  /\ open = {} /\ seat = "unclaimed"
  /\ call = [c \in Call |-> "idle"]
  /\ on = [c \in Call |-> None]
  /\ down = FALSE /\ shut = "no"
  /\ inflight = <<>> /\ drain = <<>>
  /\ owed = {} /\ landed = {} /\ reported = {}

Exited    == shut = "exited"
Entries(s) == {s[i] : i \in DOMAIN s}

\* _inflight.delete(): the entry of c goes, the others keep their order.
Without(s, c) ==
  IF c \in Entries(s)
    THEN LET k == CHOOSE i \in DOMAIN s : s[i] = c
         IN  SubSeq(s, 1, k - 1) \o SubSeq(s, k + 1, Len(s))
    ELSE s

-----------------------------------------------------------------------------
(* ensureSession(), as the first thing a call does *)

\* What a call does once it has its session.
Served(c) == IF c \in Publish THEN "sign" ELSE "done"

UseSession(c) ==
  /\ session # None
  /\ call' = [call EXCEPT ![c] = Served(c)]
  /\ on'   = [on EXCEPT ![c] = session]
  /\ UNCHANGED connects

Join(c) ==
  /\ session = None /\ connecting # None
  /\ call' = [call EXCEPT ![c] = "wait"]
  /\ on'   = [on EXCEPT ![c] = connecting]
  /\ UNCHANGED connects

\* The first connect claims the author key; the seat is kept for later ones.
Connect(c) ==
  /\ session = None /\ connecting = None
  /\ seat' = "held"
  /\ connecting' = c
  /\ task' = [task EXCEPT ![c] = "link"]
  /\ call' = [call EXCEPT ![c] = "wait"]
  /\ on'   = [on EXCEPT ![c] = c]
  /\ UNCHANGED <<session, open>>

\* Another live process holds the key: the claim throws.
ClaimRefused(c) ==
  /\ session = None /\ connecting = None /\ seat # "held"
  /\ call' = [call EXCEPT ![c] = "failed"]
  /\ UNCHANGED <<connects, on>>

\* The mutant: a call that finds a connect in flight starts one of its own.
EnsureTwice(c) ==
  /\ ~down
  /\ UseSession(c) \/ ClaimRefused(c)
     \/ /\ session = None
        /\ seat' = "held"
        /\ connecting' = c
        /\ task' = [task EXCEPT ![c] = "link"]
        /\ call' = [call EXCEPT ![c] = "wait"]
        /\ on'   = [on EXCEPT ![c] = c]
        /\ UNCHANGED <<session, open>>

EnsureSession(c) ==
  /\ ~down
  /\ UseSession(c) \/ Join(c) \/ Connect(c) \/ ClaimRefused(c)

-----------------------------------------------------------------------------
(* The connect *)

\* Every call that waits for connect t goes on in the turn that settles it.
Wake(t, Stage(_)) ==
  call' = [c \in Call |-> IF call[c] = "wait" /\ on[c] = t THEN Stage(c) ELSE call[c]]

Fail(c) == "failed"

\* The peer is up and becomes the session; the class declaration comes next.
Install(t) ==
  /\ ~down
  /\ session' = t /\ connecting' = None
  /\ open' = open \cup {t}
  /\ IF Declares
       THEN task' = [task EXCEPT ![t] = "declare"] /\ UNCHANGED call
       ELSE task' = [task EXCEPT ![t] = "over"] /\ Wake(t, Served)

\* shutdown() ran while this connect was in flight: close and refuse.
Abort(t) ==
  /\ down
  /\ open' = open \cup {t}
  /\ task' = [task EXCEPT ![t] = "abort"]
  /\ UNCHANGED <<session, connecting, call>>

\* The mutant: the connect that ends after shutdown() began is not looked at.
LinkedBlindly(t) ==
  /\ ~Exited /\ task[t] = "link"
  /\ session' = t /\ connecting' = None
  /\ open' = open \cup {t}
  /\ task' = [task EXCEPT ![t] = "over"] /\ Wake(t, Served)
  /\ UNCHANGED <<seat, on, ending, messages>>

Linked(t) ==
  /\ ~Exited /\ task[t] = "link"
  /\ Install(t) \/ Abort(t)
  /\ UNCHANGED <<seat, on, ending, messages>>

\* The class declaration resolved or failed; the first call and those that
\* joined it get the session only now.
Declared(t) ==
  /\ ~Exited /\ task[t] = "declare"
  /\ task' = [task EXCEPT ![t] = "over"]
  /\ Wake(t, Served)
  /\ UNCHANGED <<session, connecting, open, seat, on, ending, messages>>

\* What connectPeer() leaves when it throws: nothing, after the wait for the
\* mesh that it ends by stopping the relay; but a startRelay() that rejected
\* with the transport up is stopped by nobody, and nobody refers to it.
LeavesPeer(t) == open' \in {open, open \cup {t}}

\* The mutant: a failed connect stays the connect in flight.
LinkFailedStuck(t) ==
  /\ ~Exited /\ task[t] = "link"
  /\ task' = [task EXCEPT ![t] = "failed"]
  /\ LeavesPeer(t) /\ Wake(t, Fail)
  /\ UNCHANGED <<session, connecting, seat, on, ending, messages>>

\* The mutant: the calls that joined the failed connect are not told.
LinkFailedQuietly(t) ==
  /\ ~Exited /\ task[t] = "link"
  /\ task' = [task EXCEPT ![t] = "failed"]
  /\ connecting' = None /\ LeavesPeer(t)
  /\ call' = [call EXCEPT ![t] = "failed"]
  /\ UNCHANGED <<session, seat, on, ending, messages>>

\* connectPeer() threw.  The first caller's catch clears _connecting,
\* whichever connect it holds by then.
LinkFailed(t) ==
  /\ ~Exited /\ task[t] = "link"
  /\ task' = [task EXCEPT ![t] = "failed"]
  /\ connecting' = None /\ LeavesPeer(t)
  /\ Wake(t, Fail)
  /\ UNCHANGED <<session, seat, on, ending, messages>>

Aborted(t) ==
  /\ ~Exited /\ task[t] = "abort"
  /\ task' = [task EXCEPT ![t] = "failed"]
  /\ open' = open \ {t}
  /\ connecting' = None
  /\ Wake(t, Fail)
  /\ UNCHANGED <<session, seat, on, ending, messages>>

-----------------------------------------------------------------------------
(* publish() *)

StartPublish(c) ==
  /\ ~Exited /\ call[c] = "idle"
  /\ EnsureSession(c)
  /\ UNCHANGED <<ending, messages>>

\* The envelope is signed with the author key inside peer.pub().
Sign(c) ==
  /\ ~Exited /\ call[c] = "sign"
  /\ call' = [call EXCEPT ![c] = "warm"]
  /\ UNCHANGED <<connects, on, ending, messages>>

\* The mutant: nothing leaves _inflight when it is full.
RecordUncapped(c) == inflight' = Append(inflight, c)

\* The entry that joins _inflight evicts the oldest one when it is full.
Record(c) ==
  inflight' = Append(IF Len(inflight) >= InflightMax THEN Tail(inflight) ELSE inflight, c)

\* peer.pub() resolves: accepted on this node, recorded, and answered "ok"
\* unless the caller asked for a read-back.
Accepted(c) ==
  /\ ~Exited /\ call[c] = "warm" /\ on[c] \in open
  /\ Record(c)
  /\ \E stage \in {"done", "confirm"} : call' = [call EXCEPT ![c] = stage]
  /\ UNCHANGED <<connects, on, ending, landed, reported>>

\* peer.pub() throws: no signer, no root, or the peer is gone.
PublishFails(c) ==
  /\ ~Exited /\ call[c] \in {"sign", "warm"}
  /\ call' = [call EXCEPT ![c] = "failed"]
  /\ UNCHANGED <<connects, on, ending, messages>>

\* confirmPublished() read the message back, or spent its budget.
Confirmed(c) ==
  /\ ~Exited /\ call[c] = "confirm"
  /\ call' = [call EXCEPT ![c] = "done"]
  /\ inflight' = Without(inflight, c)
  /\ (c \in landed /\ UNCHANGED reported) \/ reported' = reported \cup {c}
  /\ UNCHANGED <<connects, on, ending, landed>>

\* The routed PUB reaches the holder, if its peer lives long enough.
Land(c) ==
  /\ ~Exited
  /\ c \notin landed /\ call[c] \in {"confirm", "done"} /\ on[c] \in open
  /\ landed' = landed \cup {c}
  /\ UNCHANGED <<connects, calls, ending, inflight, reported>>

-----------------------------------------------------------------------------
(* reconnect() *)

StartReconnect(r) ==
  /\ ~Exited /\ call[r] = "idle" /\ ~down
  /\ call' = [call EXCEPT ![r] = "closing"]
  /\ on'   = [on EXCEPT ![r] = session]
  /\ UNCHANGED <<connects, ending, messages>>

\* The old peer has closed: forget it, forget the connect in flight, start
\* over.  The reset comes before ensureSession() may refuse.
Closed(r) ==
  /\ ~Exited /\ call[r] = "closing"
  /\ session' = None
  /\ \/ /\ down \/ seat # "held"
        /\ connecting' = None
        /\ open' = open \ {on[r]}
        /\ call' = [call EXCEPT ![r] = "failed"]
        /\ UNCHANGED <<task, seat, on>>
     \/ /\ ~down
        /\ connecting' = r
        /\ open' = open \ {on[r]}
        /\ seat' = "held"
        /\ task' = [task EXCEPT ![r] = "link"]
        /\ call' = [call EXCEPT ![r] = "wait"]
        /\ on'   = [on EXCEPT ![r] = r]
  /\ UNCHANGED <<ending, messages>>

-----------------------------------------------------------------------------
(* terminate() and shutdown() *)

\* The mutant: the seat is freed at the end only.
TerminateHolding ==
  /\ ~down /\ shut = "no"
  /\ down' = TRUE /\ UNCHANGED seat
  /\ IF session # None /\ inflight # <<>>
       THEN shut' = "drain" /\ drain' = inflight
       ELSE shut' = "close" /\ UNCHANGED drain
  /\ owed' = Entries(inflight)
  /\ UNCHANGED <<session, connecting, task, open, calls, messages>>

\* The mutant: the peer is closed without reading anything back.
TerminateUndrained ==
  /\ ~down /\ shut = "no"
  /\ down' = TRUE /\ seat' = "released" /\ shut' = "close"
  /\ owed' = Entries(inflight)
  /\ UNCHANGED <<session, connecting, task, open, drain, calls, messages>>

\* stdin closed or a signal: free the seat, then read back what is in flight.
Terminate ==
  /\ ~down /\ shut = "no"
  /\ down' = TRUE /\ seat' = "released"
  /\ IF session # None /\ inflight # <<>>
       THEN shut' = "drain" /\ drain' = inflight
       ELSE shut' = "close" /\ UNCHANGED drain
  /\ owed' = Entries(inflight)
  /\ UNCHANGED <<session, connecting, task, open, calls, messages>>

\* One entry: read back, or given up; it stays in _inflight when the budget
\* was gone before its turn.
DrainOne ==
  /\ shut = "drain" /\ drain # <<>>
  /\ LET c == Head(drain) IN
       \/ c \in landed /\ inflight' = Without(inflight, c) /\ UNCHANGED reported
       \/ inflight' \in {inflight, Without(inflight, c)} /\ reported' = reported \cup {c}
  /\ drain' = Tail(drain)
  /\ UNCHANGED <<connects, calls, down, shut, owed, landed>>

DrainEnds ==
  /\ shut = "drain" /\ drain = <<>>
  /\ shut' = "close"
  /\ UNCHANGED <<connects, calls, down, drain, owed, messages>>

\* The mutant: the session is forgotten and its peer stays up.
CloseForgets ==
  /\ shut = "close"
  /\ session' = None /\ shut' = "done"
  /\ UNCHANGED <<connecting, task, open, seat, calls, down, drain, owed, messages>>

\* Unsub, unhost, close the peer if there is one; then forget the session.
Close ==
  /\ shut = "close"
  /\ open' = open \ {session}
  /\ session' = None /\ shut' = "done"
  /\ UNCHANGED <<connecting, task, seat, calls, down, drain, owed, messages>>

Exit ==
  /\ shut = "done"
  /\ shut' = "exited"
  /\ UNCHANGED <<connects, calls, down, drain, owed, messages>>

\* HARD_EXIT_MS ran out in a read-back or a close that does not return.
HardExit ==
  /\ down /\ ~Exited
  /\ shut' = "exited"
  /\ UNCHANGED <<connects, calls, down, drain, owed, messages>>

-----------------------------------------------------------------------------

ConnectStep(t) == Linked(t) \/ Declared(t) \/ LinkFailed(t) \/ Aborted(t)

PublishStep(c) ==
  StartPublish(c) \/ Sign(c) \/ Accepted(c) \/ PublishFails(c) \/ Confirmed(c) \/ Land(c)

ReconnectStep(r) == StartReconnect(r) \/ Closed(r)

ShutdownStep == Terminate \/ DrainOne \/ DrainEnds \/ Close \/ Exit \/ HardExit

Next ==
  \/ \E t \in Call : ConnectStep(t)
  \/ \E c \in Publish : PublishStep(c)
  \/ \E r \in Reconnect : ReconnectStep(r)
  \/ ShutdownStep

Spec == Init /\ [][Next]_vars

\* connectPeer() gives up after readyTimeoutSec, the class declaration is
\* answered within the kernel's own limits, and the hard exit is a timer.
\* Nothing makes a read-back, an unsub or the close of shutdown() return.
Fairness ==
  /\ \A t \in Call : WF_vars(ConnectStep(t))
  /\ WF_vars(HardExit)

LiveSpec == Spec /\ Fairness

-----------------------------------------------------------------------------
(* Properties *)

(***************************************************************************)
(* Once shutdown() has begun the session is only ever taken away: a        *)
(* connect that was in flight does not come back as the session.           *)
(***************************************************************************)
NoSessionAfterShutdown == [][down => session' \in {session, None}]_vars

(***************************************************************************)
(* The seat is held whenever there is a peer or a connect, and no longer   *)
(* from the first moment of the shutdown: the replacement is not refused,  *)
(* and no peer of this key runs without it before that.                    *)
(***************************************************************************)
SeatFollowsLife ==
  /\ down <=> seat = "released"
  /\ (session # None \/ connecting # None \/ open # {}) => seat # "unclaimed"

(***************************************************************************)
(* _connecting names a connect that is still under way: a failed or        *)
(* finished one never answers a later call.                                *)
(***************************************************************************)
ConnectingIsLive == connecting # None => task[connecting] \in {"link", "abort"}

\* Peers that are up or on their way up; of these, the ones that a failed
\* startRelay() left up: no variable of the program refers to them.
Peers    == open \cup {t \in Call : task[t] = "link"}
Stranded == {t \in open : task[t] = "failed"}

NoReconnectYet == \A r \in Reconnect : call[r] = "idle"

(***************************************************************************)
(* However many calls arrive, and however many connects fail before one    *)
(* comes through, there is one peer that was not given up by a startRelay()*)
(* that rejected (ops.js:56 lets it up), until the first reconnect.        *)
(***************************************************************************)
OnePeer == NoReconnectYet => Cardinality(Peers \ Stranded) <= 1

(***************************************************************************)
(* Without a reconnect, a complete shutdown leaves no peer open but one    *)
(* whose connect is closing it, and those that a rejected startRelay() had *)
(* left up before: nothing closes these but the exit.                      *)
(***************************************************************************)
ShutdownLeavesNoPeer ==
  NoReconnectYet /\ shut = "done" => \A t \in open \ Stranded : task[t] = "abort"

(***************************************************************************)
(* Without a reconnect, a publish that was on the books when the shutdown  *)
(* began is, once the session is closed, at its holder or reported as not  *)
(* read back.                                                              *)
(***************************************************************************)
RecordedAreAccountedFor ==
  NoReconnectYet /\ shut \in {"close", "done"} => owed \subseteq landed \cup reported

(***************************************************************************)
(* src/mcp-session.js:26-27: this module owns the only peer.               *)
(***************************************************************************)
OwnsTheOnlyPeer == Cardinality(Peers) <= 1

(***************************************************************************)
(* A call that waits for a connect is answered, or the process ends.       *)
(***************************************************************************)
WaitersAreAnswered == \A c \in Call : call[c] = "wait" ~> (call[c] # "wait" \/ Exited)

(***************************************************************************)
(* src/mcp-session.js:731-733: from the release on, this process can never *)
(* sign as the author again.                                               *)
(***************************************************************************)
SignsWithSeat ==
  [][\A c \in Publish : call[c] = "sign" /\ call'[c] = "warm" => seat = "held"]_vars

-----------------------------------------------------------------------------
(* For model checking: calls of a kind are interchangeable. *)
Calls == Permutations(Publish) \cup Permutations(Reconnect)
=============================================================================
