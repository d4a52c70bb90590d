----------------------------- MODULE Collector -----------------------------
(***************************************************************************)
(* The proof-of-work result collector, pow-collector.js: it subscribes to  *)
(* a topic with since: 'all', appends every result it has not seen to a    *)
(* file, publishes a leaderboard, and reconnects when its health check or  *)
(* a publish tells it the connection is gone.  Every attempt to connect    *)
(* builds a peer; a peer is named by a slot, free again when it is closed. *)
(* A line of the file is written whole or not at all.                      *)
(***************************************************************************)
EXTENDS Naturals, FiniteSets

CONSTANTS
  Result,      \* results devices publish (the topic keeps them)
  PeerSlot,    \* bound: names for peers in being at a time, numbered from 1
  OutageBound, \* bound: links lost
  LateBound,   \* bound: attempts that outlive their timeout
  DeathBound   \* bound: kills of the collector

BadChecks == 3   \* bad health checks before a reconnect

VARIABLES
  logged,    \* OUT: how often each result is on file
  known,     \* seen: results this process has logged or read from the file
  peer,      \* each peer: "free", "dialing", "joining" (h set, sub under way),
             \*   "live", "deaf" (linked, its sub() rejected), "lost" (its
             \*   link down)
  h,         \* the current peer, 0 for null
  stage,     \* "off", "boot", "steady", or inside reconnect(): "closing",
             \*   "trying", "clearing", "sleeping"; "leaving"
  agg,       \* this process has logged a result: there is a leaderboard
  tried,     \* the attempt awaited, or the peer whose close() is
  badHealth, \* consecutive bad checks
  publisher, \* the peer a leaderboard publish is under way on, 0 if none
  outages, lates, deaths  \* faults so far

collectorVars == <<logged, known, peer, h, stage, agg, tried, badHealth,
                   publisher, outages, lates, deaths>>

reconnecting == stage \in {"closing", "trying", "clearing", "sleeping"}
Open == {p \in PeerSlot : peer[p] \in {"joining", "live"}}

CollectorTypeOK ==
  /\ logged \in [Result -> 0 .. 2] /\ known \subseteq Result
  /\ peer \in [PeerSlot -> {"free", "dialing", "joining", "live", "deaf", "lost"}]
  /\ {h, tried, publisher} \subseteq PeerSlot \cup {0}
  /\ stage \in {"off", "boot", "steady", "closing", "trying", "clearing",
                "sleeping", "leaving"}
  /\ badHealth \in 0 .. BadChecks /\ agg \in BOOLEAN
  /\ outages \in 0 .. OutageBound /\ lates \in 0 .. LateBound
  /\ deaths \in 0 .. DeathBound

CollectorInit ==
  /\ logged = [r \in Result |-> 0] /\ known = {}
  /\ peer = [p \in PeerSlot |-> "free"] /\ h = 0 /\ stage = "off" /\ tried = 0
  /\ agg = FALSE
  /\ badHealth = 0 /\ publisher = 0 /\ outages = 0 /\ lates = 0 /\ deaths = 0

files   == <<logged, known, agg>>
faults  == <<outages, lates, deaths>>

-----------------------------------------------------------------------------
(* connect(), up to its first await: connectPeer starts to dial. *)
Dial(p) ==
  /\ peer[p] = "free" /\ peer' = [peer EXCEPT ![p] = "dialing"] /\ tried' = p

(* The boot: what is on file is known; the first connect() has no timeout. *)
\* Mutant: what is on file is forgotten.
BootBlind ==
  /\ stage = "off" /\ stage' = "boot" /\ known' = {} /\ \E p \in PeerSlot : Dial(p)
  /\ UNCHANGED <<logged, agg, h, badHealth, publisher, faults>>

BootCollector ==
  /\ stage = "off" /\ stage' = "boot"
  /\ known' = {r \in Result : logged[r] > 0}
  /\ \E p \in PeerSlot : Dial(p)
  /\ UNCHANGED <<logged, agg, h, badHealth, publisher, faults>>

(* connectPeer resolves: whoever waits for it, or no longer does, h is set. *)
Dialed(p) ==
  /\ peer[p] = "dialing" /\ peer' = [peer EXCEPT ![p] = "joining"] /\ h' = p
  /\ UNCHANGED <<files, stage, tried, badHealth, publisher, faults>>

(* sub() resolves, and with it connect(): an attempt still awaited ends the *)
(* boot or the reconnect.                                                   *)
Joined(p) ==
  /\ peer[p] = "joining" /\ peer' = [peer EXCEPT ![p] = "live"]
  /\ IF tried = p /\ stage \in {"boot", "trying"}
     THEN stage' = "steady" /\ tried' = 0 /\ badHealth' = 0
     ELSE UNCHANGED <<stage, tried, badHealth>>
  /\ UNCHANGED <<files, h, publisher, faults>>

(* connect() rejects: connectPeer does, which sets no h (and a peer that it *)
(* leaves up holds no subscription), or sub() does, with the link or        *)
(* without.  At the boot nothing catches it: the process ends, or lives on  *)
(* with no timer armed.  Of a late attempt nobody hears.                    *)
AttemptFails(p) ==
  /\ outages < OutageBound /\ outages' = outages + 1
  /\ \/ peer[p] = "dialing" /\ peer' = [peer EXCEPT ![p] = "free"]
     \/ peer[p] = "joining" /\ \E end \in {"deaf", "lost"} : peer' = [peer EXCEPT ![p] = end]
  /\ \/ tried = p /\ stage = "trying" /\ stage' = "clearing" /\ tried' = h
     \/ tried = p /\ stage = "boot" /\ stage' \in {"boot", "leaving"} /\ tried' = 0
     \/ (tried # p \/ stage \notin {"boot", "trying"}) /\ UNCHANGED <<stage, tried>>
  /\ UNCHANGED <<files, h, badHealth, publisher, lates, deaths>>

(* withTimeout: the attempt is given up; it may still complete later, or    *)
(* (what is not counted as late) never does.                                *)
AttemptTimesOut ==
  /\ stage = "trying" /\ stage' = "clearing" /\ tried' = h
  /\ \/ peer[tried] = "dialing" /\ lates < LateBound /\ lates' = lates + 1
        /\ UNCHANGED peer
     \/ peer[tried] = "dialing" /\ peer' = [peer EXCEPT ![tried] = "free"]
        /\ UNCHANGED lates
     \/ peer[tried] # "dialing" /\ UNCHANGED <<peer, lates>>
  /\ UNCHANGED <<files, h, badHealth, publisher, outages, deaths>>

-----------------------------------------------------------------------------
(* reconnect(): one at a time; it closes the peer h names at the call. *)
Reconnect ==
  \/ reconnecting /\ UNCHANGED <<stage, tried>>
  \/ ~reconnecting /\ stage' = "closing" /\ tried' = h

(* A close() that settles; h is nulled after the await, whatever a late     *)
(* attempt has set it to meanwhile.  No timeout bounds the close.           *)
ShutPeer ==
  /\ peer' = [p \in PeerSlot |-> IF p = tried THEN "free" ELSE peer[p]]
  /\ h' = 0 /\ tried' = 0

Closed ==
  /\ stage = "closing" /\ ShutPeer /\ stage' = "sleeping"
  /\ UNCHANGED <<files, badHealth, publisher, faults>>

Cleared ==
  /\ stage = "clearing" /\ ShutPeer /\ stage' = "sleeping"
  /\ UNCHANGED <<files, badHealth, publisher, faults>>

(* The next attempt (the first follows the close at once). *)
TryAgain ==
  /\ stage = "sleeping" /\ stage' = "trying" /\ \E p \in PeerSlot : Dial(p)
  /\ UNCHANGED <<files, h, badHealth, publisher, faults>>

-----------------------------------------------------------------------------
(* isConnected(): the current peer has a link. *)
Linked == {p \in PeerSlot : peer[p] \in {"joining", "live", "deaf"}}
isConnected == h \in Linked

(* The watchdog: three bad checks in a row, none while reconnecting. *)
\* Mutant: the third bad check starts the count again.
ForgetfulWatchdog ==
  /\ stage = "steady"
  /\ badHealth' = IF isConnected THEN 0 ELSE IF badHealth < 2 THEN badHealth + 1 ELSE 0
  /\ UNCHANGED <<files, peer, h, stage, tried, publisher, faults>>

CheckHealth ==
  /\ stage = "steady"
  /\ badHealth' = IF isConnected THEN 0 ELSE badHealth + 1
  /\ IF badHealth' >= BadChecks THEN Reconnect ELSE UNCHANGED <<stage, tried>>
  /\ UNCHANGED <<files, peer, h, publisher, faults>>

(* The leaderboard goes out on the peer that is current when it starts;     *)
(* a failure, however late, asks for a reconnect.                           *)
PublishBoard ==
  /\ stage = "steady" /\ h # 0 /\ publisher = 0 /\ agg /\ publisher' = h
  /\ UNCHANGED <<files, peer, h, stage, tried, badHealth, faults>>

BoardOut ==
  /\ publisher # 0 /\ publisher' = 0
  /\ \/ publisher \in Linked /\ UNCHANGED <<stage, tried>>
     \/ publisher \notin Linked /\ Reconnect
  /\ UNCHANGED <<files, peer, h, badHealth, faults>>

(* onMessage on any subscription that lives, current or not.  What it has   *)
(* seen it marks before the append, which may throw: nothing is written, an *)
(* uncaughtException is logged, and this process looks at it no more.  A    *)
(* result that is no object throws after the append, and is in no board.    *)
\* Mutant: no look at what is known.
OnMessageAgain(r) ==
  /\ Open # {} /\ r \in Result /\ logged[r] < 2
  /\ logged' = [logged EXCEPT ![r] = @ + 1] /\ known' = known \cup {r} /\ agg' = TRUE
  /\ UNCHANGED <<peer, h, stage, tried, badHealth, publisher, faults>>

OnMessage(r) ==
  /\ Open # {} /\ r \notin known /\ known' = known \cup {r}
  /\ \/ logged' = [logged EXCEPT ![r] = @ + 1] /\ agg' \in {agg, TRUE}
     \/ UNCHANGED <<logged, agg>>
  /\ UNCHANGED <<peer, h, stage, tried, badHealth, publisher, faults>>

-----------------------------------------------------------------------------
LinkLost(p) ==
  /\ p \in Linked /\ outages < OutageBound /\ outages' = outages + 1
  /\ peer' = [peer EXCEPT ![p] = "lost"]
  /\ UNCHANGED <<files, h, stage, tried, badHealth, publisher, lates, deaths>>

(* SIGINT and SIGTERM close the peer before the exit. *)
Interrupt ==
  /\ stage \notin {"off", "boot", "leaving"} /\ deaths < DeathBound
  /\ deaths' = deaths + 1 /\ stage' = "leaving"
  /\ UNCHANGED <<files, peer, h, tried, badHealth, publisher, outages, lates>>

Vanish ==
  /\ peer' = [p \in PeerSlot |-> "free"] /\ h' = 0 /\ stage' = "off" /\ tried' = 0
  /\ badHealth' = 0 /\ publisher' = 0 /\ agg' = FALSE

Exit ==
  /\ stage = "leaving" /\ Vanish /\ UNCHANGED <<logged, known, faults>>

Killed ==
  /\ stage \notin {"off", "leaving"} /\ deaths < DeathBound
  /\ deaths' = deaths + 1 /\ Vanish /\ UNCHANGED <<logged, known, outages, lates>>

CollectorStep ==
  \/ BootCollector \/ AttemptTimesOut \/ Closed \/ Cleared \/ TryAgain
  \/ CheckHealth \/ PublishBoard \/ BoardOut \/ Interrupt \/ Exit \/ Killed
  \/ \E p \in PeerSlot : Dialed(p) \/ Joined(p) \/ AttemptFails(p) \/ LinkLost(p)
  \/ \E r \in Result : OnMessage(r)

(* The timers fire; a subscription is sent what the topic holds; and a      *)
(* network that keeps being tried lets an attempt dial and join some time.  *)
(* Nothing makes a close(), the first connect() or a publish settle, and    *)
(* a subscription that is not confirmed is owed nothing.                    *)
subscribed == \E p \in PeerSlot : peer[p] = "live"

CollectorFairness ==
  /\ WF_collectorVars(TryAgain) /\ WF_collectorVars(AttemptTimesOut)
  /\ WF_collectorVars(CheckHealth)
  /\ SF_collectorVars(stage = "trying" /\ Dialed(tried))
  /\ SF_collectorVars(stage = "trying" /\ Joined(tried))
  /\ \A r \in Result : WF_collectorVars(subscribed /\ OnMessage(r))

-----------------------------------------------------------------------------
(* A result is on file at most once: over restarts, reconnects that replay  *)
(* the topic, and a late attempt whose subscription lives beside the        *)
(* current one (pow-collector.js 52-58, 83-88, 139-141).                    *)
LoggedOnce == \A r \in Result : logged[r] <= 1

(* Every result reaches the file, unless the collector stays down; waits    *)
(* for ever on one of the awaits without a timeout (its first connect() and *)
(* the close() of a reconnect or an exit); the append of the result threw   *)
(* and the process that marked it as seen lives on; or the current peer is  *)
(* a late attempt whose sub() was rejected, or settles never, which its     *)
(* health does not show (pow-collector.js 78-172).                          *)
EveryResultLogged ==
  \A r \in Result :
    \/ <>(logged[r] = 1)
    \/ <>[](stage \in {"off", "boot", "closing", "clearing", "leaving"})
    \/ <>[](r \in known /\ logged[r] = 0)
    \/ <>[](h # 0 /\ peer[h] \in {"joining", "deaf"})
=============================================================================
