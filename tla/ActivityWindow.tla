--------------------------- MODULE ActivityWindow ---------------------------
(***************************************************************************)
(* Was a reader subscribed when a message was published?  The lifecycle    *)
(* part of harness/reconcile-delivery.mjs: walls of two hosts, corrected   *)
(* by measured offsets and compared within a band.  The reader subscribes, *)
(* may unsubscribe, may reconnect under another node id, and ends; what it *)
(* logs is the true time plus the error left in its host's clock.          *)
(***************************************************************************)
EXTENDS Integers, FiniteSets

CONSTANTS
  Horizon,      \* bound: the last moment
  Uncertainty   \* what a probe leaves open, in moments

Moment == 0 .. Horizon
Error == -Uncertainty .. Uncertainty
Never == 3 * Horizon + 10   \* Infinity

VARIABLES
  time,          \* the true time
  selfNow,       \* the reader's node id: how often it has reconnected
  subbed,        \* true subscription now
  trueAt,        \* history: the moments it was subscribed
  selfTL,        \* logged <<wall, id>>
  activate, subEnd, ended,  \* logged walls; Never when there is none
  boundTo,       \* activations so far
  skew,          \* error left in the reader's corrected walls
  probe,         \* the clock probes: [pre, post: error seen by each, failed]
  publishedAt,   \* true time of the publish, Never before
  publishSkew    \* error left in the publisher's

windowVars == <<time, selfNow, subbed, trueAt, selfTL, activate, subEnd, ended,
                boundTo, skew, probe, publishedAt, publishSkew>>
clocks == <<skew, probe, publishSkew>>
walls  == <<selfTL, activate, subEnd, ended, boundTo>>

Lo(a, b) == IF a < b THEN a ELSE b
Abs(x) == IF x < 0 THEN -x ELSE x

WindowInit ==
  /\ time = -1 /\ selfNow = 0 /\ subbed = FALSE /\ trueAt = {} /\ selfTL = {}
  /\ activate = Never /\ subEnd = Never /\ ended = Never /\ boundTo = 0
  /\ skew = 0 /\ probe = [drift |-> 0, failed |-> FALSE]
  /\ publishedAt = Never /\ publishSkew = 0

-----------------------------------------------------------------------------
(* The run: clocks, and the first row with the reader's id, before all else. *)
Measure ==
  /\ time = -1 /\ time' = 0
  /\ skew' \in Error /\ publishSkew' \in Error
  /\ \E d \in 0 .. 1, f \in BOOLEAN : probe' = [drift |-> d, failed |-> f]
  /\ selfTL' = {<<skew' - 1, 0>>}
  /\ UNCHANGED <<selfNow, subbed, trueAt, activate, subEnd, ended, boundTo, publishedAt>>

Publishes ==
  /\ time \in Moment /\ publishedAt = Never /\ publishedAt' = time
  /\ UNCHANGED <<time, selfNow, subbed, trueAt, walls, clocks>>

(* A moment, with at most one of these: the reader activates its            *)
(* subscription, gives it up, reconnects under a new id, which takes the    *)
(* subscription with it, or ends.                                           *)
Activates ==
  /\ ~subbed /\ boundTo < 2 /\ subbed' = TRUE /\ boundTo' = boundTo + 1
  /\ activate' = time + skew /\ UNCHANGED <<selfNow, selfTL, subEnd, ended>>

Unsubscribes ==
  /\ subbed /\ subbed' = FALSE /\ subEnd' = time + skew
  /\ UNCHANGED <<selfNow, selfTL, activate, ended, boundTo>>

Reconnects ==
  /\ selfNow < 1 /\ selfNow' = selfNow + 1 /\ subbed' = FALSE
  /\ selfTL' = selfTL \cup {<<time + skew, selfNow'>>}
  /\ UNCHANGED <<activate, subEnd, ended, boundTo>>

Ends ==
  /\ ended' = time + skew /\ subbed' = FALSE
  /\ UNCHANGED <<selfNow, selfTL, activate, subEnd, boundTo>>

Passes ==
  /\ time \in 0 .. Horizon - 1 /\ time' = time + 1
  /\ \/ ended = Never /\ (Activates \/ Unsubscribes \/ Reconnects \/ Ends)
     \/ UNCHANGED <<selfNow, subbed, walls>>
  /\ trueAt' = IF subbed' THEN trueAt \cup {time} ELSE trueAt
  /\ UNCHANGED <<clocks, publishedAt>>

WindowStep == Measure \/ Publishes \/ Passes

-----------------------------------------------------------------------------
(* loadClock(): the band is the worst uncertainty and the drift; timing is  *)
(* void when a probe failed.                                                *)
band == Uncertainty + probe.drift
timingVoid == probe.failed

(* buildSets(): the id of a moment; the interval from the last activation   *)
(* on file to the next change of id, the end of the subscription or of the  *)
(* reader.                                                                  *)
selfAt(t) ==
  IF \E s \in selfTL : s[1] <= t
  THEN (CHOOSE s \in selfTL : s[1] <= t /\ \A q \in selfTL : q[1] <= t => q[2] <= s[2])[2]
  ELSE -1
nextSelfChangeAfter(id, t) ==
  IF \E s \in selfTL : s[1] > t /\ s[2] # id
  THEN (CHOOSE s \in selfTL : s[1] > t /\ s[2] # id)[1] ELSE Never
IntervalEndOpen == Lo(nextSelfChangeAfter(selfAt(activate), activate), ended)  \* (a mutant)
IntervalEnd ==
  LET close == Lo(nextSelfChangeAfter(selfAt(activate), activate), subEnd)
  IN IF close = Never THEN ended ELSE close

(* activePeer(), at the corrected time of the publish. *)
pt == publishedAt + publishSkew
boundary == Abs(pt - activate) < band \/ (IntervalEnd # Never /\ Abs(pt - IntervalEnd) < band)
reportedActive ==
  /\ activate # Never /\ pt >= activate /\ pt < IntervalEnd
  /\ selfAt(pt) = selfAt(activate)

-----------------------------------------------------------------------------
(* Outside the boundary the class is right, for a reader that activated     *)
(* once, provided the errors of the two hosts differ by less than the band: *)
(* reported as active it was subscribed when the message was published,     *)
(* reported as inactive it was not.  The code's band allows for the error   *)
(* of one host (reconcile-delivery.mjs 113-136, 198-270).                   *)
ActiveMeansSubscribed ==
  (/\ time = Horizon /\ publishedAt < Horizon /\ boundTo = 1 /\ ~timingVoid
   /\ ~boundary /\ Abs(skew - publishSkew) < band) =>
     (reportedActive <=> publishedAt \in trueAt)
=============================================================================
