------------------------------ MODULE Hosting ------------------------------
(***************************************************************************)
(* The topics a session hosts: host, unhost, the hosted half of reconnect  *)
(* and of shutdown in src/mcp-session.js.  The list survives a reconnect   *)
(* because reconnect copies it, clears it and hosts each topic anew on the *)
(* new peer.  Sessions are numbered; calls overlap.                        *)
(***************************************************************************)
EXTENDS Naturals

CONSTANTS
  Caller, Topic,
  SessionBound  \* bound: sessions made

VARIABLES
  session,  \* number of the current session, 0 for none
  made,     \* sessions made so far
  onPeer,   \* the topics the newest session's peer hosts
  kept,     \* of these, the ones an unhost() that failed left hosted
  HOSTED,   \* the list
  call,     \* each caller, reconnect too: [verb, topic, step, peer, found]
  rebuild,  \* reconnect: "idle", "close", "connect", "rehost"
  before,   \* topics it copied and did not host yet
  down,     \* shutdown() has begun
  mixed     \* history: topics whose calls overlapped each other or a rebuild

hostVars == <<session, made, onPeer, kept, HOSTED, call, rebuild, before, down, mixed>>

Callers == Caller \cup {"reconnect"}
NoCall == [verb |-> "none", topic |-> "none", step |-> "idle", peer |-> 0, found |-> FALSE]
HostInit ==
  /\ session = 0 /\ made = 0 /\ onPeer = {} /\ kept = {} /\ HOSTED = {}
  /\ call = [c \in Callers |-> NoCall]
  /\ rebuild = "idle" /\ before = {} /\ down = FALSE /\ mixed = {}

Busy(t)  == \E c \in Callers : call[c].topic = t
Answers(c) == call' = [call EXCEPT ![c] = NoCall]
InFlight == {t \in Topic : Busy(t)}

(* ensureSession(): the session there is, or a new one with a peer that     *)
(* hosts nothing.                                                           *)
Ensured ==
  IF session # 0 THEN UNCHANGED <<session, made, onPeer>>
  ELSE made < SessionBound /\ made' = made + 1 /\ session' = made' /\ onPeer' = {}

(* A call on a topic; a rebuild under way overlaps it.                      *)
Calls(c, v, t) ==
  /\ call[c].step = "idle" /\ ~down
  /\ call' = [call EXCEPT ![c] = [NoCall EXCEPT !.verb = v, !.topic = t, !.step = "ensure"]]
  /\ mixed' = IF Busy(t) \/ rebuild # "idle" THEN mixed \cup {t} ELSE mixed
  /\ UNCHANGED <<session, made, onPeer, kept, HOSTED, rebuild, before, down>>

(* host(): nothing to do when it is listed; unhost(): refused when it is    *)
(* not.                                                                     *)
Checks(c) ==
  /\ call[c].step = "ensure"
  /\ \/ /\ down \/ session = 0   \* refused, or the connect fails
        /\ Answers(c) /\ UNCHANGED <<session, made, onPeer>>
     \/ /\ ~down /\ Ensured
          /\ IF (call[c].verb = "host") = (call[c].topic \in HOSTED) THEN Answers(c)
             ELSE call' = [call EXCEPT ![c].step = "peer", ![c].peer = session']
  /\ UNCHANGED <<kept, HOSTED, rebuild, before, down, mixed>>

\* Mutant: the list is kept whatever the peer said.
ListedFirst(c) == TRUE

Listed(c) == call[c].found

(* peer.host() or peer.unhost() of the session the call began on.  One that *)
(* fails changes nothing there; a failed host() throws, a failed unhost()   *)
(* is ignored, and the topic leaves the list although it is still hosted.   *)
PeerActs(c) ==
  /\ call[c].step = "peer"
  /\ \E ok \in BOOLEAN :
       /\ call' = [call EXCEPT ![c].step = "list", ![c].found = ok]
       /\ IF call[c].peer # made \/ session = 0 THEN UNCHANGED <<onPeer, kept>>
          ELSE LET t == call[c].topic IN
            IF ok
            THEN /\ kept' = kept \ {t}
                 /\ onPeer' = IF call[c].verb = "host" THEN onPeer \cup {t} ELSE onPeer \ {t}
            ELSE /\ kept' = IF call[c].verb = "unhost" THEN kept \cup {t} ELSE kept
                 /\ UNCHANGED onPeer
  /\ UNCHANGED <<session, made, HOSTED, rebuild, before, down, mixed>>

Lists(c) ==
  /\ call[c].step = "list" /\ Answers(c)
  /\ HOSTED' = IF call[c].verb = "unhost" THEN HOSTED \ {call[c].topic}
               ELSE IF Listed(c) THEN HOSTED \cup {call[c].topic} ELSE HOSTED
  /\ UNCHANGED <<session, made, onPeer, kept, rebuild, before, down, mixed>>

-----------------------------------------------------------------------------
(* reconnect(): copy, close, forget, connect, host again one by one, with   *)
(* the failures in its answer.  A failed connect throws, and the copy goes  *)
(* with it.                                                                 *)
Reconnect ==
  /\ rebuild = "idle" /\ ~down /\ rebuild' = "close" /\ before' = HOSTED /\ mixed' = mixed \cup InFlight
  /\ UNCHANGED <<session, made, onPeer, kept, HOSTED, call, down>>

Closed ==
  /\ rebuild = "close" /\ rebuild' = "connect" /\ session' = 0 /\ HOSTED' = {}
  /\ onPeer' = {} /\ kept' = {}
  /\ UNCHANGED <<made, call, before, down, mixed>>

Reconnected ==
  /\ rebuild = "connect"
  /\ \/ ~down /\ Ensured /\ rebuild' = "rehost" /\ UNCHANGED before
     \/ rebuild' = "idle" /\ before' = {} /\ UNCHANGED <<session, made, onPeer>>
  /\ UNCHANGED <<kept, HOSTED, call, down, mixed>>

Rehost(t) ==
  /\ rebuild = "rehost" /\ call["reconnect"].step = "idle" /\ t \in before /\ before' = before \ {t}
  /\ call' = [call EXCEPT !["reconnect"] = [NoCall EXCEPT !.verb = "host", !.topic = t, !.step = "ensure"]]
  /\ UNCHANGED <<session, made, onPeer, kept, HOSTED, rebuild, down, mixed>>

Rebuilt ==
  /\ rebuild = "rehost" /\ before = {} /\ call["reconnect"].step = "idle" /\ rebuild' = "idle"
  /\ UNCHANGED <<session, made, onPeer, kept, HOSTED, call, before, down, mixed>>

(* shutdown(): refuse from now on; unhost, close, forget.                   *)
ShutsDown ==
  /\ ~down /\ down' = TRUE /\ mixed' = mixed \cup InFlight
  /\ UNCHANGED <<session, made, onPeer, kept, HOSTED, call, rebuild, before>>

Forgets ==
  /\ down /\ (session # 0 \/ HOSTED # {}) /\ session' = 0 /\ HOSTED' = {}
  /\ onPeer' = {} /\ kept' = {}
  /\ UNCHANGED <<made, call, rebuild, before, down, mixed>>

HostStep ==
  \/ \E c \in Callers : Checks(c) \/ PeerActs(c) \/ Lists(c)
  \/ \E c \in Caller : \E v \in {"host", "unhost"}, t \in Topic : Calls(c, v, t)
  \/ Reconnect \/ Closed \/ Reconnected \/ Rebuilt \/ ShutsDown \/ Forgets \/ \E t \in Topic : Rehost(t)

-----------------------------------------------------------------------------
(* The list says what the peer hosts: a topic nobody is calling about is    *)
(* listed exactly when the current peer hosts it and no unhost() of it has  *)
(* failed since it did, unless calls about it overlapped one another or a   *)
(* rebuild (mcp-session.js 540-557, 649-665, 700-702, 756-767).             *)
ListSaysWhatIsHosted ==
  \A t \in Topic : Busy(t) \/ t \in mixed \/ (t \in HOSTED) = (t \in onPeer \ kept)
=============================================================================
