---------------------------- MODULE CouncilGate ----------------------------
(***************************************************************************)
(* The review gate, scripts/council-gate.mjs and council-verdicts.mjs:     *)
(* reviewers post about a change on a topic, the gate reads the topic for  *)
(* a window (in any order, with repetitions, perhaps not everything) and   *)
(* lets a deploy pass or blocks it.  One change; a post is what it says of *)
(* it: a verdict bound to it by its line, or engagement without one.       *)
(***************************************************************************)
EXTENDS Naturals, FiniteSets

CONSTANTS
  Reviewer,    \* REVIEWERS, by signer
  Outsider,    \* anybody else who posts, the gate's own identity too
  PostBound    \* bound: posts about the change

Verdict == {"APPROVED", "CHANGES-REQUIRED", "WITHDRAWN", "none"}
Post == [signer : Reviewer \cup {Outsider}, verdict : Verdict, ts : 1 .. PostBound]

VARIABLES
  posts,      \* what is on the topic
  read,       \* posts the subscription has handed over so far
  record,     \* byReviewer: [engaged, verdict, ts] of each reviewer
  gate        \* "idle", "reading", "approved", "blocked", "overridden", "unread"

gateVars == <<posts, read, record, gate>>
Unheard == [engaged |-> FALSE, verdict |-> "none", ts |-> 0]

GateInit ==
  /\ posts = {} /\ read = {} /\ gate = "idle"
  /\ record = [v \in Reviewer |-> Unheard]

-----------------------------------------------------------------------------
(* A post, in order of the times signed into them; two may have one time.   *)
Say(p) ==
  /\ Cardinality(posts) < PostBound /\ p \notin posts
  /\ \A q \in posts : q.ts <= p.ts
  /\ posts' = posts \cup {p} /\ UNCHANGED <<read, record, gate>>

(* COUNCIL_OVERRIDE passes without a look at the topic, and is logged.      *)
Override ==
  /\ gate = "idle" /\ gate' = "overridden" /\ UNCHANGED <<posts, read, record>>

Connect ==
  /\ gate = "idle" /\ gate' \in {"reading", "unread"}   \* a failed read is no verdict
  /\ UNCHANGED <<posts, read, record>>

-----------------------------------------------------------------------------
(* decide(), one record at a time: the latest verdict of a reviewer stands, *)
(* of two with one time the one that arrived last; any reviewer heard of    *)
(* has engaged.  readMessage() passes over whoever is no reviewer.          *)
LastHeard(c, p) ==   \* (a mutant: what arrives last stands)
  [engaged |-> TRUE,
   verdict |-> IF p.verdict # "none" THEN p.verdict ELSE c.verdict,
   ts      |-> IF p.verdict # "none" THEN p.ts ELSE c.ts]

Heard(c, p) ==
  [engaged |-> TRUE,
   verdict |-> IF p.verdict # "none" /\ p.ts >= c.ts THEN p.verdict ELSE c.verdict,
   ts      |-> IF p.verdict # "none" /\ p.ts >= c.ts THEN p.ts ELSE c.ts]

Arrives(p) ==
  /\ gate = "reading" /\ p \in posts /\ read' = read \cup {p}
  /\ record' = IF p.signer \in Reviewer
               THEN [record EXCEPT ![p.signer] = Heard(@, p)] ELSE record
  /\ UNCHANGED <<posts, gate>>

(* The window closes.  Somebody has engaged, and whoever has approves now.  *)
AnyApproval(r) == \E v \in Reviewer : r[v].verdict = "APPROVED"   \* (a mutant)

Ok(r) ==
  /\ \E v \in Reviewer : r[v].engaged
  /\ \A v \in Reviewer : r[v].engaged => r[v].verdict = "APPROVED"

CloseWindow ==
  /\ gate = "reading" /\ gate' = IF Ok(record) THEN "approved" ELSE "blocked"
  /\ UNCHANGED <<posts, read, record>>

GateStep ==
  \/ \E p \in Post : Say(p) \/ Arrives(p)
  \/ Override \/ Connect \/ CloseWindow

-----------------------------------------------------------------------------
(* The gate approves exactly when, of all it read, some reviewer spoke and  *)
(* each reviewer who spoke has a verdict none of whose successors in time   *)
(* is another: an approval taken back, a blocking verdict and engagement    *)
(* without a verdict all block, in whatever order the posts arrive, except  *)
(* that two verdicts of one time are in no order (council-verdicts.mjs      *)
(* 77-110, council-gate.mjs 100-150).                                       *)
Stated(v) == {p \in read : p.signer = v /\ p.verdict # "none"}
Latest(v) == {p \in Stated(v) : \A q \in Stated(v) : q.ts <= p.ts}

ApprovesWhatStands ==
  LET spoke == {v \in Reviewer : \E p \in read : p.signer = v} IN
  /\ gate = "approved" =>
       /\ spoke # {}
       /\ \A v \in spoke : \E p \in Latest(v) : p.verdict = "APPROVED"
  /\ gate = "blocked" =>
       spoke = {} \/ \E v \in spoke : \/ Cardinality(Latest(v)) > 1
                                      \/ \A p \in Latest(v) : p.verdict # "APPROVED"
=============================================================================
