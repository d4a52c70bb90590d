----------------------------- MODULE PointRead -----------------------------
(***************************************************************************)
(* Reading one message from the holder of a topic: axona_pull (src/        *)
(* mcp-pull.js) and the read-back that confirms publishes before a peer    *)
(* closes (src/mcp-confirm.js).  A publish reaches the holder some time    *)
(* after publish() returned, or never.  The clock is in ticks.             *)
(***************************************************************************)
EXTENDS Naturals, Sequences

CONSTANTS
  MsgId,        \* ids of messages: 64 characters, as the session keeps them
  NoMsg,        \* no id, no envelope
  ConfirmTime,  \* CONFIRM_TIMEOUT_MS
  StepTime,     \* CONFIRM_STEP_MS
  DrainBudget,  \* DRAIN_BUDGET_MS
  AttemptBound  \* bound: attempts that answer within no time at all

BadId == "prefix"   \* what a caller may pass that is no full id

VARIABLES
  held,       \* messages that reached the holder
  inflight,   \* the publishes to confirm, oldest first
  todo,       \* what is left of the copy drainInflight iterates over
  clock,      \* ticks since the drain began
  since,      \* clock at the start of the current confirmPublished, and
  budget,     \*   its timeoutMs; 0 when none is running
  attempts,   \* attempts of the current one that took no time
  confirmed, unconfirmed,  \* what drainInflight returns
  wanted,     \* the id the last axona_pull asked for
  truth,      \* what the holder did: "silent", "fails", or its answer
  found       \* what the pull reported: "yes", "no", "unknown", "none" yet

drainVars == <<inflight, todo, clock, since, budget, attempts, confirmed, unconfirmed>>
pullVars  == <<wanted, truth, found>>
readVars  == <<held, drainVars, pullVars>>

ReadInit ==
  /\ held = {} /\ inflight = <<>> /\ todo = <<>> /\ clock = 0 /\ since = 0
  /\ budget = 0 /\ attempts = 0 /\ confirmed = {} /\ unconfirmed = {}
  /\ wanted = NoMsg /\ truth = "silent" /\ found = "none"

Lesser(a, b) == IF a < b THEN a ELSE b
Listed == {inflight[i] : i \in DOMAIN inflight}

-----------------------------------------------------------------------------
(* A publish that is not confirmed yet; its PUB reaches the holder later.   *)
Publish(m) ==
  /\ m \notin Listed \cup confirmed \cup unconfirmed /\ inflight' = Append(inflight, m)
  /\ UNCHANGED <<held, todo, clock, since, budget, attempts, confirmed, unconfirmed, pullVars>>

Reaches(m) ==
  /\ m \in Listed \cup unconfirmed /\ held' = held \cup {m} /\ UNCHANGED <<drainVars, pullVars>>

-----------------------------------------------------------------------------
(* pullMessage().  An id that is not a full one is refused unread.  The     *)
(* holder answers with an envelope (some other one, or the newest, too),    *)
(* with nothing, not in time, or the read fails.  The kernel resolves what  *)
(* timed out to null, so a null after 0.9 of the time (late) counts as no   *)
(* answer.                                                                  *)
Answer == held \cup {NoMsg, "silent", "fails"}

\* Mutant: what answers is what was asked for.
ReportAnything(id, env, late) ==
  IF id = BadId \/ env \in {"silent", "fails"} \/ (env = NoMsg /\ late) THEN "unknown"
  ELSE IF env = NoMsg THEN "no" ELSE "yes"

Report(id, env, late) ==
  IF id = BadId \/ env \in {"silent", "fails"} \/ (env = NoMsg /\ late) THEN "unknown"
  ELSE IF env = NoMsg \/ (id # NoMsg /\ env # id) THEN "no" ELSE "yes"

pullMessage ==
  \E id \in MsgId \cup {NoMsg, BadId}, env \in Answer, late \in BOOLEAN :
    /\ env = "silent" => late
    /\ wanted' = id /\ truth' = env /\ found' = Report(id, env, late)
    /\ UNCHANGED <<held, drainVars>>

-----------------------------------------------------------------------------
(* drainInflight(): the entries it found, oldest first, within one budget. *)
DrainStarts ==
  /\ clock = 0 /\ budget = 0 /\ todo = <<>> /\ confirmed \cup unconfirmed = {}
  /\ inflight # <<>> /\ todo' = inflight
  /\ UNCHANGED <<held, inflight, clock, since, budget, attempts, confirmed, unconfirmed, pullVars>>

(* The next entry: reported unread once the budget is spent (it stays in    *)
(* inflight), else confirmed within what is left.                           *)
NextEntry ==
  /\ todo # <<>> /\ budget = 0
  /\ IF clock >= DrainBudget
     THEN /\ todo' = Tail(todo) /\ unconfirmed' = unconfirmed \cup {Head(todo)}
          /\ UNCHANGED <<since, budget>>
     ELSE /\ since' = clock /\ budget' = Lesser(DrainBudget - clock, ConfirmTime)
          /\ UNCHANGED <<todo, unconfirmed>>
  /\ attempts' = 0
  /\ UNCHANGED <<held, inflight, clock, confirmed, pullVars>>

(* The entry is settled: listed, and removed from inflight. *)
Without(s, i) == SubSeq(s, 1, i - 1) \o SubSeq(s, i + 1, Len(s))

delete(m) ==
  inflight' = IF m \in Listed THEN Without(inflight, CHOOSE i \in DOMAIN inflight : inflight[i] = m)
              ELSE inflight

Settled == todo' = Tail(todo) /\ budget' = 0 /\ attempts' = 0 /\ delete(Head(todo))

(* confirmPublished(): one pull of its loop, at most StepTime and at most   *)
(* what is left; it reads the message back, or something else, or nothing.  *)
Remaining == budget - (clock - since)

\* Mutant: an attempt always gets its whole step.
AttemptWholeStep ==
  /\ budget > 0 /\ clock < since + budget /\ clock' = clock + StepTime
  /\ UNCHANGED <<held, inflight, todo, since, budget, attempts, confirmed, unconfirmed, pullVars>>

Attempt ==
  /\ budget > 0 /\ clock < since + budget
  /\ \E d \in 0 .. Lesser(StepTime, Remaining), readBack \in BOOLEAN :
       /\ readBack => Head(todo) \in held
       /\ d = 0 => attempts < AttemptBound
       /\ clock' = clock + d
       /\ IF readBack
          THEN Settled /\ confirmed' = confirmed \cup {Head(todo)}
          ELSE /\ attempts' = IF d = 0 THEN attempts + 1 ELSE 0
               /\ UNCHANGED <<todo, budget, inflight, confirmed>>
       /\ UNCHANGED <<since, unconfirmed>>
  /\ UNCHANGED <<held, pullVars>>

OutOfTime ==
  /\ budget > 0 /\ clock >= since + budget /\ Settled
  /\ unconfirmed' = unconfirmed \cup {Head(todo)}
  /\ UNCHANGED <<held, clock, since, confirmed, pullVars>>

ReadStep ==
  \/ \E m \in MsgId : Publish(m) \/ Reaches(m)
  \/ pullMessage \/ DrainStarts \/ NextEntry \/ Attempt \/ OutOfTime

-----------------------------------------------------------------------------
(* A pull says yes only of the message that was asked for, and no only when *)
(* the holder answered that it has not got it or answered something else:   *)
(* a timeout, a failure and a refused id say unknown (mcp-pull.js 36-79).   *)
PullTellsTheTruth ==
  /\ found = "yes" => truth \in held /\ (wanted # NoMsg => truth = wanted)
  /\ found = "no"  => truth = NoMsg \/ (truth \in held /\ truth # wanted)

(* The drain before a close is honest and bounded: whatever the holder and  *)
(* the reads do, it takes no longer than its budget however many publishes  *)
(* wait; each is reported once, as confirmed only when it reached the       *)
(* holder; and what it never asked about is still listed, newest last       *)
(* (mcp-confirm.js 28-60).                                                  *)
DrainKeepsItsBudget ==
  /\ clock <= DrainBudget
  /\ confirmed \subseteq held /\ confirmed \cap unconfirmed = {}
  /\ Listed \cap confirmed = {}
  /\ \A m \in Listed \cap unconfirmed : clock = DrainBudget
=============================================================================
