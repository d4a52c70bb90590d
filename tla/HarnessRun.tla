----------------------------- MODULE HarnessRun -----------------------------
(***************************************************************************)
(* One measured publish of the experiment harness: a publisher and a       *)
(* required reader, each a sidecar (harness/sidecar.mjs) that the churn    *)
(* driver (harness/churn.mjs) may kill and start again, the rows they append     *)
(* to the ledger (harness/lib/ledger.mjs), and the two programs            *)
(* that judge the rows: harness/analyze.mjs and harness/soak-account.mjs.  *)
(* The plan is the same in every life of a sidecar: a restarted publisher  *)
(* publishes again, under a new author, so with a new message id.          *)
(***************************************************************************)
EXTENDS Naturals, FiniteSets

CONSTANTS
  Slo,        \* SLO_MS, in moments
  LiveWindow, \* LIVE_WINDOW_MS
  Deadline,   \* MISSING_DEADLINE_MS
  LastMoment, \* bound: moments of the run
  LifeBound   \* bound: starts of each sidecar

Life == 1 .. LifeBound
NoMoment == LastMoment + 100   \* no time

VARIABLES
  moment,      \* corrected wall time
  pub, rd,     \* each sidecar: [life, stage]: "down", "up", "pubbing" or "ready"
  inTopic,     \* messages the topic holds, by the publisher's life
  op,          \* the join: [msg, intentAt, confirmed, apiAt, obs], msg 0 for none
  seenBy,      \* history: <<message, life of the reader, moment>> observed
  lifeRows,    \* lifecycle rows of the reader: <<moment, life, "start" or "kill">>
  missedKill   \* the churn driver logged a kill that hit nothing

runVars == <<moment, pub, rd, inTopic, op, seenBy, lifeRows, missedKill>>
NoOp == [msg |-> 0, intentAt |-> 0, confirmed |-> "none", apiAt |-> 0, obs |-> {}]

RunInit ==
  /\ moment = 0 /\ pub = [life |-> 0, stage |-> "down"] /\ rd = pub
  /\ inTopic = {} /\ op = NoOp /\ seenBy = {} /\ lifeRows = {} /\ missedKill = FALSE

-----------------------------------------------------------------------------
TimePasses ==
  /\ moment < LastMoment /\ moment' = moment + 1
  /\ UNCHANGED <<pub, rd, inTopic, op, seenBy, lifeRows, missedKill>>

StartPublisher ==
  /\ pub.stage = "down" /\ pub.life < LifeBound
  /\ pub' = [life |-> pub.life + 1, stage |-> "up"]
  /\ UNCHANGED <<moment, rd, inTopic, op, seenBy, lifeRows, missedKill>>

(* The publisher's slice of the plan: the intent is a row before the call.  *)
(* A second intent of the same sequence number starts the join again.       *)
Publish ==
  /\ pub.stage = "up" /\ pub' = [pub EXCEPT !.stage = "pubbing"]
  /\ op' = [NoOp EXCEPT !.msg = pub.life, !.intentAt = moment]
  /\ UNCHANGED <<moment, rd, inTopic, seenBy, lifeRows, missedKill>>

(* The message reaches the topic, sooner or later or never; and the call    *)
(* answers, or throws, whether it did or not.                               *)
ReachesTopic(m) ==
  /\ m \in 1 .. op.msg /\ m \notin inTopic
  /\ inTopic' = inTopic \cup {m}
  /\ UNCHANGED <<moment, pub, rd, op, seenBy, lifeRows, missedKill>>

ApiRow ==
  /\ pub.stage = "pubbing" /\ pub' = [pub EXCEPT !.stage = "done"]
  /\ \E c \in {"true", "false"} : op' = [op EXCEPT !.confirmed = c, !.apiAt = moment]
  /\ UNCHANGED <<moment, rd, inTopic, seenBy, lifeRows, missedKill>>

KillPublisher ==
  /\ pub.stage # "down" /\ pub' = [pub EXCEPT !.stage = "down"]
  /\ UNCHANGED <<moment, rd, inTopic, op, seenBy, lifeRows, missedKill>>

-----------------------------------------------------------------------------
(* The reader starts, subscribes with since: 'all' (or fails to), ...  A    *)
(* start and a kill take time: no two rows of the reader's life, and no     *)
(* observation after them, carry the same stamp.                            *)
StartReader ==
  /\ rd.stage = "down" /\ rd.life < LifeBound /\ moment < LastMoment
  /\ rd' = [life |-> rd.life + 1, stage |-> "up"]
  /\ lifeRows' = lifeRows \cup {<<moment, rd.life + 1, "start">>}
  /\ moment' = moment + 1
  /\ UNCHANGED <<pub, inTopic, op, seenBy, missedKill>>

Subscribes ==
  /\ rd.stage = "up" /\ rd' = [rd EXCEPT !.stage = "ready"]
  /\ UNCHANGED <<moment, pub, inTopic, op, seenBy, lifeRows, missedKill>>

(* ... is handed each message of the topic, and logs it: the row joins the  *)
(* operation of its sequence number, if there is one yet.                   *)
Observe(m) ==
  /\ rd.stage = "ready" /\ m \in inTopic
  /\ \A s \in seenBy : s[1] # m \/ s[2] # rd.life
  /\ seenBy' = seenBy \cup {<<m, rd.life, moment>>}
  /\ op' = [op EXCEPT !.obs = @ \cup {<<m, rd.life, moment>>}]
  /\ UNCHANGED <<moment, pub, rd, inTopic, lifeRows, missedKill>>

(* The churn driver logs the kill before it kills; it may hit nothing.      *)
KillReader ==
  /\ rd.stage # "down" /\ moment < LastMoment
  /\ lifeRows' = lifeRows \cup {<<moment, rd.life, "kill">>} /\ moment' = moment + 1
  /\ \/ rd' = [rd EXCEPT !.stage = "down"] /\ UNCHANGED missedKill
     \/ missedKill' = TRUE /\ UNCHANGED rd
  /\ UNCHANGED <<pub, inTopic, op, seenBy>>

RunStep ==
  \/ TimePasses \/ StartPublisher \/ Publish \/ ApiRow \/ KillPublisher
  \/ StartReader \/ Subscribes \/ KillReader
  \/ \E m \in Life : ReachesTopic(m) \/ Observe(m)

-----------------------------------------------------------------------------
(* analyze.mjs: the availability intervals of the reader, one for each      *)
(* life, closed by its kill; the class by the first observation joined.     *)
From(l) == CHOOSE t \in {r[1] : r \in {q \in lifeRows : q[2] = l /\ q[3] = "start"}} : TRUE
Till(l) ==
  LET kills == {r[1] : r \in {q \in lifeRows : q[2] = l /\ q[3] = "kill"}}
  IN IF kills = {} THEN NoMoment ELSE CHOOSE t \in kills : \A k \in kills : t <= k
intervalOf(t) ==
  LET in == {l \in 1 .. rd.life : From(l) <= t /\ t <= Till(l)}
  IN IF in = {} THEN 0 ELSE CHOOSE l \in in : \A k \in in : l <= k

First(obs) == CHOOSE o \in obs : \A q \in obs : o[3] <= q[3]

Judged ==
  LET at == intervalOf(op.intentAt) IN
  IF op.obs = {}
  THEN IF at = 0 THEN "replay gap"
       ELSE IF op.confirmed = "true" THEN "stranded"
       ELSE IF op.confirmed = "false" THEN "refused" ELSE "indeterminate"
  ELSE IF at = 0 \/ intervalOf(First(op.obs)[3]) # at THEN "eventual"
  ELSE IF First(op.obs)[3] - op.intentAt > Slo THEN "late" ELSE "live"

(* soak-account.mjs: only the arrivals of the very message, against the     *)
(* time of the api row; within the window live, within the deadline repair. *)
AnyArrival == op.obs   \* (a mutant: arrivals of any message)
Arrivals   == {o \in op.obs : o[1] = op.msg}

Accounted ==
  LET inTime == {o \in Arrivals : o[3] <= op.apiAt + Deadline} IN
  IF op.confirmed # "true" THEN "not counted"
  ELSE IF inTime = {} THEN "missing"
  ELSE IF First(inTime)[3] <= op.apiAt + LiveWindow THEN "live" ELSE "repair"

-----------------------------------------------------------------------------
(* The judgements follow from what happened.  The account says delivered    *)
(* exactly of a confirmed message the reader had in time, over restarts of  *)
(* both sidecars.  The analyzer calls a write stranded only when no life of *)
(* the reader observed it, and puts it into one life's latency only when    *)
(* that life observed it, provided the publisher did not publish twice (its *)
(* rows are joined by sequence number only) and no kill was logged that hit *)
(* nothing (analyze.mjs 66-215, soak-account.mjs 80-255).                   *)
JudgementsFollow ==
  op.msg # 0 =>
    /\ Accounted \in {"live", "repair"} <=>
         /\ op.confirmed = "true"
         /\ \E s \in seenBy : s[1] = op.msg /\ s[3] <= op.apiAt + Deadline
    /\ op.msg = 1 /\ ~missedKill =>
         /\ Judged \in {"stranded", "replay gap"} => seenBy = {}
         /\ Judged \in {"live", "late"} =>
              \E s \in seenBy : s[1] = 1 /\ s[3] >= op.intentAt
                                /\ From(s[2]) <= op.intentAt
=============================================================================
