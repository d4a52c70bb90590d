---------------------------- MODULE WatchBuffer ----------------------------
(***************************************************************************)
(* The arrival buffer of one axona_watch: src/mcp-watch.js, the pure       *)
(* functions over a watch record, and the carry-over of one watch record   *)
(* into another that src/mcp-session.js reconnect() makes.                 *)
(*                                                                         *)
(* A message is represented by its msgId; NoId stands for every message    *)
(* that carries none (deliver() treats each as new).                       *)
(***************************************************************************)
EXTENDS Integers, Sequences, FiniteSets

CONSTANTS
  Id,         \* the message ids of the topic
  NoId,       \* a message without an id
  BufferCap,  \* bufferCap: messages a watch holds before it evicts
  SeenCap     \* SEEN_CAP: ids a watch remembers before it forgets

ASSUME WatchAssumption ==
  /\ NoId \notin Id
  /\ BufferCap \in Nat \ {0}
  /\ SeenCap \in Nat \ {0}

Msg == Id \cup {NoId}

Watch ==
  [buffer : Seq(Msg), seen : SUBSET Id, seenOrder : Seq(Id),
   total : Nat, replayed : Nat, drained : Nat, dropped : Nat]

MakeWatch ==
  [buffer |-> <<>>, seen |-> {}, seenOrder |-> <<>>,
   total |-> 0, replayed |-> 0, drained |-> 0, dropped |-> 0]

Elems(s) == {s[i] : i \in DOMAIN s}

Known(w, id)    == id # NoId /\ id \in w.seen
Buffered(w, id) == \E i \in DOMAIN w.buffer : w.buffer[i] = id

\* The mutant: over the cap the order forgets the oldest id, the set does not.
RememberForever(w, id) ==
  LET order == Append(w.seenOrder, id) IN
    IF id = NoId
      THEN [w EXCEPT !.total = @ + 1]
      ELSE [w EXCEPT !.total = @ + 1, !.seen = @ \cup {id},
                     !.seenOrder = IF Len(order) > SeenCap THEN Tail(order) ELSE order]

\* A first sight: counted, remembered, and one id forgotten over the cap.
Remember(w, id) ==
  LET order == Append(w.seenOrder, id) IN
    IF id = NoId
      THEN [w EXCEPT !.total = @ + 1]
      ELSE IF Len(order) > SeenCap
        THEN [w EXCEPT !.total = @ + 1, !.seenOrder = Tail(order),
                       !.seen = (@ \cup {id}) \ {Head(order)}]
        ELSE [w EXCEPT !.total = @ + 1, !.seenOrder = order, !.seen = @ \cup {id}]

\* The mutant: the message that does not fit is the one that is thrown away.
PushDropsNewest(w, id) ==
  IF Len(w.buffer) + 1 > BufferCap
    THEN [w EXCEPT !.dropped = @ + 1]
    ELSE [w EXCEPT !.buffer = Append(@, id)]

\* The mutant: evicting is forgotten.
PushUncapped(w, id) == [w EXCEPT !.buffer = Append(@, id)]

\* A message enters the buffer; the oldest leaves over the cap.
Push(w, id) ==
  LET b == Append(w.buffer, id) IN
    IF Len(b) > BufferCap
      THEN [w EXCEPT !.buffer = Tail(b), !.dropped = @ + 1]
      ELSE [w EXCEPT !.buffer = b]

Duplicate(w, id) == Known(w, id) /\ Buffered(w, id)

\* The mutant: a refill is not counted.
DeliverUncounted(w, id) ==
  IF Duplicate(w, id) THEN w
    ELSE Push(IF Known(w, id) THEN w ELSE Remember(w, id), id)

\* The mutant: a known message is buffered again while it still is.
DeliverAlways(w, id) ==
  Push(IF Known(w, id) THEN [w EXCEPT !.replayed = @ + 1] ELSE Remember(w, id), id)

Deliver(w, id) ==
  IF Duplicate(w, id) THEN w
    ELSE Push(IF Known(w, id) THEN [w EXCEPT !.replayed = @ + 1] ELSE Remember(w, id), id)

\* A poll takes the k oldest messages.
Collect(w, k) ==
  [w EXCEPT !.buffer = SubSeq(@, k + 1, Len(@)), !.drained = @ + k]

\* How many a poll takes: everything when max is absent (0).
Taken(w, max) == IF max = 0 \/ max > Len(w.buffer) THEN Len(w.buffer) ELSE max

=============================================================================
