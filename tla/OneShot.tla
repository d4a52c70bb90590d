------------------------------ MODULE OneShot ------------------------------
(***************************************************************************)
(* One operation on a throwaway peer: src/cli.js and src/ops.js, on top of *)
(* startRelay and stopRelay of src/relay.js.  The peer is minted, wired,   *)
(* warmed up, woven into the mesh and waited for; then it publishes, reads *)
(* or listens once, and leaves.  cli.js exits its process at the end;      *)
(* ops.js returns to its caller.                                           *)
(***************************************************************************)
EXTENDS Naturals

CONSTANTS
  ReadBudget,  \* time units a point read may take: 8 s
  ReadShort,   \* answers of nothing count when they come before it: 7.2 s
  ListenBound  \* bound: messages a listening window hears

VARIABLES
  front,     \* "none", "cli" or "ops"
  verb,      \* "pub", "pull", "sub"
  phase,     \* "off", "wire", "warm", "weave", "wait", "settle", "verb",
             \* "linger", "leave", "end"
  hasPeers,    \* neighbours in the routing table: none or some
  woven,     \* integrate(): "no", "asked", "done", "failed"
  inMesh,    \* the peer was started and has not left
  elapsed,   \* of the read
  heard,     \* messages printed by a listening window
  outcome,   \* [ok, found]: "open", an answer "yes" or "no", "unreached" or
             \*   "threw"; found is "null" for unknown
  readTruth      \* what the read came back with: "none", "message", "nothing", "failure"

shotVars == <<front, verb, phase, hasPeers, woven, inMesh, elapsed, heard, outcome, readTruth>>

ShotInit ==
  /\ front = "none" /\ verb = "pub" /\ phase = "off" /\ hasPeers = FALSE /\ woven = "no" /\ inMesh = FALSE
  /\ elapsed = 0 /\ heard = 0 /\ outcome = [ok |-> "open", found |-> "null"] /\ readTruth = "none"

Ends(ok, found) == outcome' = [ok |-> ok, found |-> found]

(* A fresh identity for the connection, a fresh author for the signature.   *)
MintIdentities(f, v) ==
  /\ phase = "off" /\ phase' = "wire" /\ front' = f /\ verb' = v
  /\ UNCHANGED <<hasPeers, woven, inMesh, elapsed, heard, outcome, readTruth>>

(* An error.  In startRelay() the peer is not handed over yet, and nobody   *)
(* stops it, however far it came; a verb that throws is caught by ops.js,   *)
(* which closes the peer, and by cli.js, which exits.                       *)
Throws ==
  /\ phase \in {"wire", "warm", "weave"} \/ (phase = "verb" /\ verb # "pull")
  /\ phase' = "end" /\ Ends("threw", "null")
  /\ inMesh' \in CASE phase = "wire" -> BOOLEAN
                   [] phase = "verb" /\ front = "ops" -> {FALSE}
                   [] OTHER -> {inMesh}
  /\ UNCHANGED <<front, verb, hasPeers, woven, elapsed, heard, readTruth>>

(* transport.start() and peer.start().                                      *)
Wires ==
  /\ phase = "wire" /\ phase' = "warm" /\ inMesh' = TRUE
  /\ UNCHANGED <<front, verb, hasPeers, woven, elapsed, heard, outcome, readTruth>>

(* The kernel finds neighbours, and loses them.                             *)
Neighbours ==
  /\ inMesh /\ phase # "end" /\ hasPeers' = ~hasPeers
  /\ UNCHANGED <<front, verb, phase, woven, inMesh, elapsed, heard, outcome, readTruth>>

(* peer.ready(): it has peers, or its own timeout, which is no error.       *)
Warmed ==
  /\ phase = "warm" /\ phase' = "weave" /\ woven' = "asked"
  /\ UNCHANGED <<front, verb, hasPeers, inMesh, elapsed, heard, outcome, readTruth>>

\* Mutant: integrate() is not awaited.
NotAwaited ==
  /\ phase = "weave" /\ phase' = "wait"
  /\ UNCHANGED <<front, verb, hasPeers, woven, inMesh, elapsed, heard, outcome, readTruth>>

(* peer.integrate() is awaited; its failure is recorded and not fatal.      *)
Weaves ==
  /\ phase = "weave" /\ phase' = "wait" /\ woven' \in {"done", "failed"}
  /\ UNCHANGED <<front, verb, hasPeers, inMesh, elapsed, heard, outcome, readTruth>>

(* The wait for a first neighbour and the settle after it.                  *)
MeshReady ==
  /\ phase = "wait" /\ hasPeers /\ phase' = "settle"
  /\ UNCHANGED <<front, verb, hasPeers, woven, inMesh, elapsed, heard, outcome, readTruth>>

NeverReady ==
  /\ phase = "wait" /\ ~hasPeers /\ phase' = "leave" /\ Ends("unreached", "null")
  /\ UNCHANGED <<front, verb, hasPeers, woven, inMesh, elapsed, heard, readTruth>>

Settled ==
  /\ phase = "settle" /\ phase' = "verb"
  /\ UNCHANGED <<front, verb, hasPeers, woven, inMesh, elapsed, heard, outcome, readTruth>>

-----------------------------------------------------------------------------
Publishes ==
  /\ phase = "verb" /\ verb = "pub" /\ phase' = "linger" /\ Ends("yes", "null")
  /\ UNCHANGED <<front, verb, hasPeers, woven, inMesh, elapsed, heard, readTruth>>

TimeOfRead ==
  /\ phase = "verb" /\ verb = "pull" /\ elapsed < ReadBudget /\ elapsed' = elapsed + 1
  /\ UNCHANGED <<front, verb, phase, hasPeers, woven, inMesh, heard, outcome, readTruth>>

\* Mutant: nothing is an answer however late.
FailedOnly(t) == t = "failure"

Inconclusive(t) == t = "failure" \/ (t = "nothing" /\ elapsed >= ReadShort)

(* The read: a message, nothing, or a failure; nothing at the end of the    *)
(* budget is how an unanswered read looks.                                  *)
Reads ==
  /\ phase = "verb" /\ verb = "pull" /\ phase' = "leave"
  /\ \E t \in {"message", "nothing", "failure"} :
       /\ readTruth' = t
       /\ IF Inconclusive(t) THEN Ends("no", "null")
          ELSE Ends("yes", IF t = "message" THEN "true" ELSE "false")
  /\ UNCHANGED <<front, verb, hasPeers, woven, inMesh, elapsed, heard>>

Listens ==
  /\ phase = "verb" /\ verb = "sub" /\ phase' = "linger" /\ Ends("yes", "null")
  /\ UNCHANGED <<front, verb, hasPeers, woven, inMesh, elapsed, heard, readTruth>>

Hears ==
  /\ phase = "linger" /\ verb = "sub" /\ heard < ListenBound /\ heard' = heard + 1
  /\ UNCHANGED <<front, verb, phase, hasPeers, woven, inMesh, elapsed, outcome, readTruth>>

Lingered ==
  /\ phase = "linger" /\ phase' = "leave"
  /\ UNCHANGED <<front, verb, hasPeers, woven, inMesh, elapsed, heard, outcome, readTruth>>

(* stopRelay(): leave, stop and close, each best effort.                    *)
Leaves ==
  /\ phase = "leave" /\ phase' = "end" /\ inMesh' = FALSE
  /\ UNCHANGED <<front, verb, hasPeers, woven, elapsed, heard, outcome, readTruth>>

ShotStep ==
  \/ \E f \in {"cli", "ops"}, v \in {"pub", "pull", "sub"} : MintIdentities(f, v)
  \/ Throws \/ Wires \/ Neighbours \/ Warmed \/ Weaves \/ MeshReady \/ NeverReady \/ Settled
  \/ Publishes \/ TimeOfRead \/ Reads \/ Listens \/ Hears \/ Lingered \/ Leaves

-----------------------------------------------------------------------------
(* A one-shot tells the truth and cleans up: nothing is published, read or  *)
(* listened to before the integration came back; "found: false" is said     *)
(* only of a read that answered in time; and a run leaves the mesh, whether *)
(* it reports success, an inconclusive read or a mesh it did not reach,     *)
(* unless it threw in startRelay(), or in the verb of cli.js (ops.js        *)
(* 45-121, cli.js 68-129, relay.js 387-420).                                *)
OneShotIsHonest ==
  /\ phase \in {"verb", "linger"} => woven \in {"done", "failed"}
  /\ outcome.found = "false" => readTruth = "nothing" /\ elapsed < ReadShort
  /\ outcome.found = "true" => readTruth = "message"
  /\ phase = "end" /\ inMesh => outcome.ok = "threw" /\ (woven \in {"no", "asked"} \/ front = "cli")
=============================================================================
