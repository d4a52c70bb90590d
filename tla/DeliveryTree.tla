---------------------------- MODULE DeliveryTree ----------------------------
(***************************************************************************)
(* Where a message got lost, harness/reconcile-delivery.mjs: from the rows *)
(* that the relays of a fan-out tree, its receivers and its readers log,   *)
(* the reconciler rebuilds the tree of one publish and puts every required *)
(* reader in one class.  The logs are whatever part of what happened was   *)
(* collected.  What happened is modelled beside it, to judge the verdict.  *)
(***************************************************************************)
EXTENDS Naturals, FiniteSets

CONSTANTS
  Node,      \* nodes of the tree
  Root,      \* the one that takes the publish in
  NoNode     \* no parent known

Edge == Node \X Node

VARIABLES
  treeStage, \* "grow", "spread", "collected"
  parent,    \* the true tree
  reader,    \* a required reader
  active,    \* it has an activation interval around the publish
  believed,  \* subscriptions the relays know of
  roots,     \* nodes that took the publish in as root
  forwarded, \* <<node, child>> pairs fanned out, by whoever held it
  holders,   \* nodes the message reached
  delivered, \* whether the reader's application got it
  ledger, recv, app   \* what is collected: rows of nodes, receipts, deliveries

truth    == <<treeStage, parent, reader, active, believed, roots>>
logs     == <<ledger, recv, app>>
treeVars == <<truth, forwarded, holders, delivered, logs>>

TreeInit ==
  /\ treeStage = "grow" /\ parent = [n \in Node |-> NoNode] /\ reader = NoNode /\ active = FALSE
  /\ believed = {} /\ roots = {Root} /\ forwarded = {} /\ holders = {} /\ delivered = {}
  /\ ledger = {} /\ recv = {} /\ app = {}

(* n, its parent by f, the parent's parent, ... up to one of rs or the end. *)
Climb(f, rs, n) ==
  LET up[k \in 0 .. Cardinality(Node)] ==
        IF k = 0 THEN n
        ELSE IF up[k - 1] \in rs \cup {NoNode} THEN up[k - 1] ELSE f[up[k - 1]]
  IN up

Reaches(f, rs, n) == Climb(f, rs, n)[Cardinality(Node)] \in rs
Path(f, rs, n) ==
  LET up == Climb(f, rs, n) IN
  {<<up[k], up[k - 1]>> : k \in {j \in 1 .. Cardinality(Node) : up[j] # up[j - 1]}}

-----------------------------------------------------------------------------
(* A tree; nodes outside it have no parent.  What a relay fans out to and   *)
(* does not fan out itself is a subscriber; others may subscribe too.  A    *)
(* second node may have taken the publish in as root.                       *)
Grow ==
  /\ treeStage = "grow" /\ treeStage' = "spread"
  /\ \E f \in [Node -> Node \cup {NoNode}], n \in Node :
       /\ parent' = f /\ f[Root] = NoNode /\ f[n] = NoNode /\ roots' = {Root, n}
       /\ \A m \in Node : f[m] # NoNode => Reaches(f, roots', m)
       /\ LET inTree == roots' \cup {m \in Node : f[m] # NoNode} IN
          /\ believed' \in SUBSET inTree
          /\ \A m \in inTree \ roots' : (\A c \in Node : f[c] # m) => m \in believed'
  /\ reader' \in Node /\ active' \in BOOLEAN
  /\ holders' = roots'
  /\ UNCHANGED <<forwarded, delivered, logs>>

Child(n) == {c \in Node : parent[c] = n}

(* A holder fans out to all its children at once; each edge may fail.       *)
Fanout(n) ==
  /\ treeStage = "spread" /\ n \in holders /\ Child(n) # {} /\ {n} \X Child(n) \cap forwarded = {}
  /\ forwarded' = forwarded \cup ({n} \X Child(n))
  /\ \E got \in SUBSET Child(n) : holders' = holders \cup got
  /\ UNCHANGED <<truth, delivered, logs>>

(* The reader's application may get the message, if it arrived.  Then the  *)
(* logs are collected; a row of each kind may be missing.                   *)
Rows == roots \cup {n \in Node : \E c \in Node : <<n, c>> \in forwarded}

Collect ==
  /\ treeStage = "spread" /\ treeStage' = "collected"
  /\ ledger' \in {Rows} \cup {Rows \ {n} : n \in Rows}
  /\ recv' \in {holders \ roots} \cup {holders \ {n} : n \in holders}
  /\ delivered' \in SUBSET ({reader} \cap holders \cap believed)
  /\ app' \in SUBSET delivered'
  /\ UNCHANGED <<parent, reader, active, believed, roots, forwarded, holders>>

TreeStep == Grow \/ Collect \/ \E n \in Node : Fanout(n)

-----------------------------------------------------------------------------
(* buildTree(): from the ledger rows.  A row names the recipients of its    *)
(* node, which of them forward in turn (child: they have children), the     *)
(* node's parent, whether it is a root and whether it delivers locally.     *)
Recips(n) == {c \in Node : <<n, c>> \in forwarded}
Claims(c) == {n \in ledger : c \in Recips(n)}
               \cup IF c \in ledger /\ parent[c] # NoNode THEN {parent[c]} ELSE {}
rootSet == ledger \cap roots
belief == {n \in ledger : n \in believed}
            \cup {c \in Node : Child(c) = {} /\ \E n \in ledger : c \in Recips(n)}
parentOf == [c \in Node |-> IF Claims(c) = {} THEN NoNode ELSE CHOOSE n \in Claims(c) : TRUE]

voided == rootSet = {} \/ \E c \in Node : Cardinality(Claims(c)) > 1
TheRoot == IF Cardinality(rootSet) = 1 THEN rootSet ELSE {}

(* reconcile(): the class of a required reader, A to E in the order the     *)
(* code asks, and of C the part.                                            *)
received == recv \cup app
HasMsgByReceipt(n) == n \in received   \* (a mutant: the root logs no receipt)
HasMsg(n) == n \in received \/ n \in TheRoot \/ n \in roots

Class(v) ==
  IF v \in app THEN "E" ELSE IF ~active THEN "A"
  ELSE IF v \notin belief THEN "B" ELSE IF v \in received THEN "D"
  ELSE IF Cardinality(roots) > 1 THEN "C root"
  ELSE IF /\ TheRoot # {} /\ Reaches(parentOf, TheRoot, v)
          /\ \E e \in Path(parentOf, TheRoot, v) : HasMsg(e[1]) /\ ~HasMsg(e[2])
       THEN "C edge" ELSE "C tree"

-----------------------------------------------------------------------------
(* Whatever is missing from the logs, a reader reported as served or as     *)
(* reached was, and a blamed edge lies on its way from the root, used by    *)
(* its upper end.  With nothing missing, every reader that was served is    *)
(* reported served, and a loss in a tree with one root is put on an edge    *)
(* that did lose the message, never on the tree (reconcile-delivery.mjs     *)
(* 205-312, 415-505).                                                       *)
complete == ledger = Rows /\ recv \cup roots = holders /\ app = delivered

VerdictsAreGrounded ==
  (treeStage = "collected" /\ ~voided) =>
    LET v == reader IN
      /\ Class(v) = "E" => v \in delivered
      /\ Class(v) = "D" => v \in holders
      /\ Class(v) = "C edge" =>
           \E e \in Path(parent, roots, v) : e[1] \in holders /\ e \in forwarded
      /\ complete =>
           /\ v \in delivered => Class(v) = "E"
           /\ (roots = {Root} /\ v \notin holders) => Class(v) \notin {"C tree", "D"}
           /\ Class(v) = "C edge" =>
                \E e \in Path(parent, roots, v) : e[1] \in holders /\ e[2] \notin holders
=============================================================================
