----------------------------- MODULE EdgeLedger -----------------------------
(***************************************************************************)
(* The transition ledger of the harness: a host that sends a message over  *)
(* an edge writes a row, the host that gets it another, and harness/       *)
(* reconstruct-transitions.mjs joins the two into the paths of the         *)
(* messages.  In a routed run one message, 0, travels the fleet.  In a     *)
(* level run harness/level-probe.mjs, a host of its own, probes each peer  *)
(* it is connected to; in a warm run harness/warm-probe.mjs waits for      *)
(* every peer it knows to prove live and probes it then.  A peer gets one  *)
(* probe; percentages and the report are left out.                         *)
(***************************************************************************)
EXTENDS Naturals, Sequences, FiniteSets

CONSTANTS
  LedgerHost, \* hosts of the fleet
  Driver,     \* the one a message starts at
  Uncovered,  \* hosts that may turn out to write no rows
  EdgeBound,  \* bound: attempts to send
  PollCount   \* polls before the deadline

VARIABLES
  runKind,   \* "none" before the run, then "routed", "level" or "warm"
  withIds,   \* the kernels of this run name their attempts
  dark,      \* hosts that write no rows, of an attempt or of their start
  sends,     \* the attempts to send, numbered: [msg, from, to, exact, disposition]
  wire,      \* those under way
  landedAt,  \* those that arrived, in order
  ringing,   \* peers of the driver: "absent", "silent", "live"
  watched,   \* status: peers some poll saw
  proved,    \* those with liveAt; in a level run, those that had their turn
  round,     \* peers this poll has still to look at
  waiting,   \* pending of this poll
  poll,      \* polls begun
  exitCode   \* "none" while the probe runs

ledgerVars == <<runKind, withIds, dark, sends, wire, landedAt,
                ringing, watched, proved, round, waiting, poll, exitCode>>
warmVars == <<ringing, watched, proved, round, waiting, poll, exitCode>>
kindVars == <<runKind, withIds, dark>>

Target == LedgerHost \ {Driver}

LedgerInit ==
  /\ runKind = "none" /\ withIds = TRUE /\ dark = {}
  /\ sends = <<>> /\ wire = {} /\ landedAt = <<>>
  /\ ringing = [p \in Target |-> "absent"] /\ watched = {} /\ proved = {}
  /\ round = {} /\ waiting = 0 /\ poll = 0 /\ exitCode = "none"

(* What the run is, and who takes part in the ledger.                       *)
RunStarts ==
  /\ runKind = "none" /\ runKind' \in {"routed", "level", "warm"} /\ dark' \in SUBSET Uncovered
  /\ withIds' \in IF runKind' = "routed" THEN BOOLEAN ELSE {TRUE}
  /\ UNCHANGED <<sends, wire, landedAt, warmVars>>

-----------------------------------------------------------------------------
(* An attempt: a frame that was not attempted is not on the wire; one whose *)
(* write failed may be.                                                     *)
Attempted(a) ==
  LET i == Len(sends) + 1 IN
  /\ i <= EdgeBound /\ sends' = Append(sends, a)
  /\ \/ a.disposition # "not-attempted" /\ wire' = wire \cup {i}
     \/ a.disposition # "accepted" /\ UNCHANGED wire

(* Hosts the routed message reached. *)
Has == {Driver} \cup {sends[i].to : i \in {j \in DOMAIN sends : 
                                   \E k \in DOMAIN landedAt : landedAt[k] = j}}

Forward(from, to) ==
  /\ runKind = "routed" /\ from \in Has /\ to \in Target \ {from}
  /\ \E d \in {"accepted", "attempted-failed", "not-attempted"} :
       Attempted([msg |-> 0, from |-> from, to |-> to, exact |-> withIds, disposition |-> d])
  /\ UNCHANGED <<kindVars, landedAt, warmVars>>

Arrives(i) ==
  /\ i \in wire /\ wire' = wire \ {i} /\ landedAt' = Append(landedAt, i)
  /\ UNCHANGED <<kindVars, sends, warmVars>>

GetsLost(i) ==
  /\ i \in wire /\ wire' = wire \ {i}
  /\ UNCHANGED <<kindVars, sends, landedAt, warmVars>>

-----------------------------------------------------------------------------
(* sendProbe(): a message of its own to this one peer, under its own id.    *)
Probe(p, d) ==
  [msg |-> Len(sends) + 1, from |-> Driver, to |-> p, exact |-> TRUE, disposition |-> d]

(* The level run: a peer without an open channel is skipped.                *)
LevelSends(p) ==
  /\ runKind = "level" /\ p \notin proved /\ proved' = proved \cup {p}
  /\ \/ UNCHANGED <<sends, wire>>
     \/ \E d \in {"accepted", "attempted-failed"} : Attempted(Probe(p, d))
  /\ UNCHANGED <<kindVars, landedAt, ringing, watched, round, waiting, poll, exitCode>>

-----------------------------------------------------------------------------
(* The warm run.  A peer shows up, answers pings or stops to.               *)
MeshMoves(p) ==
  /\ runKind = "warm" /\ exitCode = "none"
  /\ \E r \in {"silent", "live"} \ {ringing[p]} : ringing' = [ringing EXCEPT ![p] = r]
  /\ UNCHANGED <<kindVars, sends, wire, landedAt, watched, proved, round, waiting, poll, exitCode>>

AllLive == poll > 0 /\ watched # {} /\ waiting = 0

(* A poll takes in the peers it sees, and looks at each that has not proved *)
(* live; there is another one unless all did or the deadline is over.       *)
PollStarts ==
  /\ runKind = "warm" /\ exitCode = "none" /\ round = {} /\ poll < PollCount /\ ~AllLive
  /\ poll' = poll + 1 /\ waiting' = 0
  /\ watched' = watched \cup {p \in Target : ringing[p] # "absent"}
  /\ round' = watched' \ proved
  /\ UNCHANGED <<kindVars, sends, wire, landedAt, ringing, proved, exitCode>>

PollLooks(p) ==
  /\ p \in round /\ round' = round \ {p}
  /\ IF ringing[p] = "live"
     THEN /\ proved' = proved \cup {p} /\ UNCHANGED waiting
          /\ \E d \in {"accepted", "attempted-failed"} : Attempted(Probe(p, d))
     ELSE waiting' = waiting + 1 /\ UNCHANGED <<proved, sends, wire>>
  /\ UNCHANGED <<kindVars, landedAt, ringing, watched, poll, exitCode>>

ProbeEnds ==
  /\ runKind = "warm" /\ exitCode = "none" /\ round = {} /\ (AllLive \/ poll = PollCount)
  /\ exitCode' = IF watched \subseteq proved THEN "0" ELSE "1"
  /\ UNCHANGED <<kindVars, sends, wire, landedAt, ringing, watched, proved, round, waiting, poll>>

LedgerStep ==
  \/ \E from, to \in LedgerHost : Forward(from, to)
  \/ \E i \in wire : Arrives(i) \/ GetsLost(i)
  \/ \E p \in Target : LevelSends(p) \/ MeshMoves(p) \/ PollLooks(p)
  \/ RunStarts \/ PollStarts \/ ProbeEnds

-----------------------------------------------------------------------------
(* The rows on file, in the order they were written: who sent what, and who *)
(* got what.                                                                *)
OnFile(s, written) ==
  LET upTo[n \in 0 .. Len(s)] ==
        IF n = 0 THEN <<>>
        ELSE IF s[n] \in written THEN Append(upTo[n - 1], s[n]) ELSE upTo[n - 1]
  IN  upTo[Len(s)]

txRows == OnFile([i \in DOMAIN sends |-> i], {i \in DOMAIN sends : sends[i].from \notin dark})
rxRows == OnFile(landedAt, {i \in DOMAIN sends : sends[i].to \notin dark})

\* Mutant: every sender row is joined by its message.
JoinsByMessage(i, k, taken) == sends[rxRows[k]].msg = sends[i].msg /\ k \notin taken

(* The receipts a sender row may be joined with: its own attempt's, or, for *)
(* a row without an id, any of the message that no row has taken yet.       *)
Joins(i, k, taken) ==
  IF sends[i].exact THEN rxRows[k] = i
  ELSE sends[rxRows[k]].msg = sends[i].msg /\ k \notin taken

(* A sender row takes the first receipt it may be joined with, if any.      *)
JoinRow(acc, i) ==
  LET at == {k \in DOMAIN rxRows : Joins(i, k, acc.taken)} IN
  IF at = {} THEN acc
  ELSE [taken |-> acc.taken \cup {CHOOSE k \in at : \A j \in at : k <= j},
        crossed |-> acc.crossed \cup {i}]

Joined ==
  LET upTo[n \in 0 .. Len(txRows)] ==
        IF n = 0 THEN [taken |-> {}, crossed |-> {}] ELSE JoinRow(upTo[n - 1], txRows[n])
  IN  upTo[Len(txRows)]

Classified == {txRows[k] : k \in DOMAIN txRows}
ClassOf(i) == IF i \in Joined.crossed THEN "CROSSED"
              ELSE IF sends[i].disposition = "accepted" THEN "ACCEPTED_NO_RX"
              ELSE sends[i].disposition

Orphans == DOMAIN rxRows \ Joined.taken

(* The census is whoever wrote a row of its start; an id on an edge that is *)
(* not in it is foreign.                                                    *)
Foreign ==
  (UNION {{sends[i].from, sends[i].to} : i \in Classified \cup {rxRows[k] : k \in Orphans}}) \cap dark

(* The path of the message: from the origin, breadth first, over the edges  *)
(* that were crossed.                                                       *)
Reached ==
  LET edges == {<<sends[i].from, sends[i].to>> : i \in {j \in Joined.crossed : sends[j].msg = 0}}
      level[n \in 0 .. Cardinality(LedgerHost)] ==
        IF n = 0 THEN {Driver}
        ELSE level[n - 1] \cup {e[2] : e \in {x \in edges : x[1] \in level[n - 1]}}
  IN  level[Cardinality(LedgerHost)]

-----------------------------------------------------------------------------
(* The paths that are reconstructed are those the message took: with named  *)
(* attempts it reaches no host in the ledger that it did not reach, and     *)
(* every host when all write rows; as many edges are crossed as arrivals    *)
(* are on file; when no foreign id is on an edge, what was accepted and has *)
(* no receipt did not arrive.  And the warm probe succeeds exactly when     *)
(* every peer it saw was sent its probe, which it must have been before the *)
(* probe may end ahead of its deadline (reconstruct-transitions.mjs 60-135, *)
(* warm-probe.mjs 40-80).                                                   *)
PathsAreTrue ==
  /\ (withIds /\ runKind = "routed") => Reached \subseteq Has /\ (dark = {} => Reached = Has)
  /\ Cardinality(Joined.crossed) <= Len(rxRows)
  /\ dark = {} => Orphans = {}
  /\ (withIds /\ Foreign = {} /\ wire = {}) =>
       \A i \in Classified :
         ClassOf(i) = "ACCEPTED_NO_RX" => \A k \in DOMAIN landedAt : landedAt[k] # i
  /\ exitCode # "none" /\ poll < PollCount => exitCode = "0"
  /\ exitCode # "none" =>
       (exitCode = "0" <=> \A p \in watched : \E i \in DOMAIN sends : sends[i].to = p)
=============================================================================
