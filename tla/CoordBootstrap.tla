--------------------------- MODULE CoordBootstrap ---------------------------
(***************************************************************************)
(* How the sidecars of a run meet on an owned topic: the plan every one    *)
(* derives from the seed (harness/lib/workload.mjs) names a publisher by   *)
(* its index, and its author is only known once it has announced itself on *)
(* the coordination topic (harness/sidecar.mjs); a reader that did not     *)
(* hear of it says so in its ledger and the analyzer keeps its losses out  *)
(* of the count (harness/analyze.mjs).  One owned topic; an author is its  *)
(* sidecar and the life it was minted in.                                  *)
(***************************************************************************)
EXTENDS Naturals, FiniteSets

CONSTANTS
  Sidecar,   \* indices 0 .. nodes - 1 of the plan
  SidecarLives  \* bound: lives of a sidecar

VARIABLES
  plan,     \* [publisher, group], NoPlan before it is drawn
  life,     \* each sidecar: lives so far; 0 before its first start
  mode,     \* each: "off", "coord", "ready"
  announced,     \* the publisher's announcements on the coordination topic
  authors,  \* each: the author it knows of the publisher, NoAuthor for none
  again,    \* each: it has announced itself again
  owner,    \* each: the owner in its subscription, NoAuthor for none
  missing,  \* each: its ledger says the publisher was not resolved
  sent      \* authors under which the owned topic was published to

coordVars == <<plan, life, mode, announced, authors, again, owner, missing, sent>>

NoAuthor == <<"none", 0>>
NoPlan   == [publisher |-> "none", group |-> {}]
Me(s)    == <<s, life[s]>>

LesserOf(a, b) == IF a < b THEN a ELSE b
nodes    == Cardinality(Sidecar)
maxGroup == LesserOf(IF nodes \div 2 > 3 THEN nodes \div 2 ELSE 3, nodes - 1)
minGroup == LesserOf(3, nodes - 1)

CoordInit ==
  /\ plan = NoPlan /\ life = [s \in Sidecar |-> 0] /\ mode = [s \in Sidecar |-> "off"] /\ announced = {}
  /\ authors = [s \in Sidecar |-> NoAuthor] /\ again = [s \in Sidecar |-> FALSE]
  /\ owner = [s \in Sidecar |-> NoAuthor] /\ missing = [s \in Sidecar |-> FALSE] /\ sent = {}

-----------------------------------------------------------------------------
(* The same for all: a publisher and a group of other indices.              *)
generatePlan ==
  /\ plan = NoPlan
  /\ \E p \in Sidecar : \E g \in SUBSET (Sidecar \ {p}) :
       /\ Cardinality(g) \in minGroup .. maxGroup
       /\ plan' = [publisher |-> p, group |-> g]
  /\ UNCHANGED <<life, mode, announced, authors, again, owner, missing, sent>>

(* A sidecar starts: a new author, announced once.  The announcement may    *)
(* be lost, and is kept by the topic otherwise.                             *)
Start(s) ==
  /\ plan # NoPlan /\ mode[s] = "off" /\ life[s] < SidecarLives
  /\ life' = [life EXCEPT ![s] = @ + 1] /\ mode' = [mode EXCEPT ![s] = "coord"]
  /\ authors' = [authors EXCEPT ![s] = IF s = plan.publisher THEN <<s, life[s] + 1>> ELSE NoAuthor]
  /\ again' = [again EXCEPT ![s] = FALSE]
  /\ announced' \in {announced} \cup (IF s = plan.publisher THEN {announced \cup {<<s, life[s] + 1>>}} ELSE {})
  /\ UNCHANGED <<plan, owner, missing, sent>>

Reannounce(s) ==
  /\ mode[s] = "coord" /\ ~again[s] /\ again' = [again EXCEPT ![s] = TRUE]
  /\ announced' = IF s = plan.publisher THEN announced \cup {Me(s)} ELSE announced
  /\ UNCHANGED <<plan, life, mode, authors, owner, missing, sent>>

(* Replayed or live, in any order, again and again.                         *)
HearsOf(s) ==
  /\ mode[s] # "off" /\ \E a \in announced : authors' = [authors EXCEPT ![s] = a]
  /\ UNCHANGED <<plan, life, mode, announced, again, owner, missing, sent>>

\* Mutant: the ledger says nothing of an owner it did not resolve.
NeverMissing(s) == FALSE

Unresolved(s) == authors[s] = NoAuthor

(* The wait ends, with the owner or without; a reader without it names      *)
(* itself.                                                                  *)
Settle(s) ==
  /\ mode[s] = "coord" /\ mode' = [mode EXCEPT ![s] = "ready"]
  /\ missing' = [missing EXCEPT ![s] = Unresolved(s)]
  /\ owner' = [owner EXCEPT ![s] = IF s \in plan.group \/ s = plan.publisher
                                   THEN (IF authors[s] = NoAuthor THEN Me(s) ELSE authors[s])
                                   ELSE NoAuthor]
  /\ UNCHANGED <<plan, life, announced, authors, again, sent>>

PublishOwned(s) ==
  /\ mode[s] = "ready" /\ s = plan.publisher /\ sent' = sent \cup {Me(s)}
  /\ UNCHANGED <<plan, life, mode, announced, authors, again, owner, missing>>

Killed(s) ==
  /\ mode[s] # "off" /\ mode' = [mode EXCEPT ![s] = "off"]
  /\ UNCHANGED <<plan, life, announced, authors, again, owner, missing, sent>>

CoordStep ==
  \/ generatePlan
  \/ \E s \in Sidecar : Start(s) \/ Reannounce(s) \/ HearsOf(s) \/ Settle(s) \/ PublishOwned(s) \/ Killed(s)

-----------------------------------------------------------------------------
(* A loss on an owned topic is charged to the mesh only when the reader     *)
(* listened where the publisher wrote: a reader of the group that ever      *)
(* subscribed listens to an author of the plan's publisher, or its ledger   *)
(* says it did not resolve it; and it misses what was published under one   *)
(* author only if its publisher had another life.  (It is charged then:     *)
(* coord-settled names only the owners never heard of.  sidecar.mjs         *)
(* 108-156, workload.mjs 63-83, analyze.mjs 108-110 and 175-183.)           *)
ListensWhereItIsWritten ==
  \A s \in plan.group : owner[s] # NoAuthor /\ ~missing[s] =>
    /\ owner[s][1] = plan.publisher
    /\ life[plan.publisher] = 1 => \A a \in sent : a = owner[s]
=============================================================================
