----------------------------- MODULE WatchLife -----------------------------
(***************************************************************************)
(* One watch between two reconnects: the subscription delivers messages of *)
(* the topic in any order and any number of times (live traffic, and the   *)
(* replays axona_watch asks for), and the agent polls.                     *)
(***************************************************************************)
EXTENDS WatchBuffer

CONSTANT MaxAccepted   \* bound: messages that enter the buffer

ASSUME LifeAssumption == MaxAccepted \in Nat

VARIABLES
  w,         \* the watch record
  accepted,  \* history: every message that entered the buffer, in order
  ever,      \* history: the ids among them
  anon       \* history: how many of them had no id

vars == <<w, accepted, ever, anon>>

TypeOK ==
  /\ w \in Watch
  /\ Len(w.buffer) <= BufferCap
  /\ accepted \in Seq(Msg)
  /\ ever \in SUBSET Id
  /\ anon \in Nat

Init == w = MakeWatch /\ accepted = <<>> /\ ever = {} /\ anon = 0

\* arrivalHandler(): the subscription hands over a message.
Arrive(id) ==
  /\ w' = Deliver(w, id)
  /\ IF Duplicate(w, id)
       THEN UNCHANGED <<accepted, ever, anon>>
       ELSE /\ Len(accepted) < MaxAccepted
            /\ accepted' = Append(accepted, id)
            /\ ever' = IF id = NoId THEN ever ELSE ever \cup {id}
            /\ anon' = IF id = NoId THEN anon + 1 ELSE anon

\* axona_poll, with or without max.
Poll(max) ==
  /\ w' = Collect(w, Taken(w, max))
  /\ UNCHANGED <<accepted, ever, anon>>

Next == (\E id \in Msg : Arrive(id)) \/ (\E max \in 0 .. BufferCap : Poll(max))

Spec == Init /\ [][Next]_vars

-----------------------------------------------------------------------------
(* Properties *)

\* The messages that left the buffer, to a poll or to the cap.
Gone == w.drained + w.dropped

(***************************************************************************)
(* The buffer is what was accepted last, in order: a poll hands messages   *)
(* over oldest first, each acceptance once, and every message that entered *)
(* is either waiting, counted as drained or counted as dropped.            *)
(***************************************************************************)
BufferIsSuffix ==
  /\ Len(accepted) = Gone + Len(w.buffer)
  /\ \A i \in 1 .. Len(w.buffer) : w.buffer[i] = accepted[Gone + i]

(***************************************************************************)
(* The counters a poll reports account for every acceptance: `total` the   *)
(* first sights, `replayed` the refills.                                   *)
(***************************************************************************)
CountersAddUp == w.total + w.replayed = Len(accepted)

(***************************************************************************)
(* The memory of a watch is consistent: seenOrder lists the ids of `seen`  *)
(* without repetition, within the cap, and all of them did arrive.         *)
(***************************************************************************)
MemoryConsistent ==
  /\ w.seen = Elems(w.seenOrder)
  /\ \A i, j \in DOMAIN w.seenOrder : w.seenOrder[i] = w.seenOrder[j] => i = j
  /\ Len(w.seenOrder) <= SeenCap
  /\ w.seen \subseteq ever

(***************************************************************************)
(* While a watch has forgotten nothing, `total` counts distinct messages   *)
(* and no message waits twice, whatever was replayed in between.           *)
(***************************************************************************)
DistinctWhileRemembered ==
  ever \subseteq w.seen =>
     /\ w.total = Cardinality(ever) + anon
     /\ \A i, j \in DOMAIN w.buffer :
          w.buffer[i] = w.buffer[j] /\ w.buffer[i] # NoId => i = j

=============================================================================
