---------------------------- MODULE WatchReseat ----------------------------
(***************************************************************************)
(* One watched topic across reconnects: src/mcp-session.js reconnect(),    *)
(* armStandingWatches() and the paths of watch() they take, over the       *)
(* buffers of WatchBuffer.                                                 *)
(*                                                                         *)
(* A watch record is a JavaScript object.  The snapshot a reconnect takes  *)
(* SHARES buffer and seen with the old record, so polls and arrivals of    *)
(* the closing session still show in it.  Records are named after the      *)
(* reconnect, and the step of it, that made them.  Followed here are the   *)
(* buffer, what was seen (nothing is forgotten: SEEN_CAP is not reached)   *)
(* and the total; the other counters only add up.  The connect itself is   *)
(* that of SessionLifecycle, here one step that succeeds or fails.         *)
(***************************************************************************)
EXTENDS WatchBuffer
LOCAL INSTANCE TLC

CONSTANTS
  Reconnect,    \* calls of reconnect()
  Start,        \* what was there before all of them
  None          \* no record, no peer

Peer == Reconnect \cup {Start}
Rec  == (Reconnect \X {"arm", "seat"}) \cup {<<Start, "seat">>}

ASSUME ReseatAssumption ==
  /\ Start \notin Reconnect
  /\ None \notin Peer \cup Rec \cup (Rec \X Peer)
  /\ Cardinality(Id) <= SeenCap

VARIABLES
  rec,      \* the watch records
  table,    \* WATCHES.get(key)
  session,  \* _session
  up,       \* peers that are not closed
  fed,      \* which record the subscription of which peer delivers to
  stage,    \* where each reconnect() is
  phase,    \* in the standing watch of its connect, or in the re-seat
  on,       \* the peer it closes
  ref,      \* before.watches: the record whose buffer and seen it refers to
  held,     \* the record and the peer a replay re-subscribes
  gone,     \* history: messages handed out by a poll or evicted by a cap
  clean     \* history: no reconnect failed, and no two overlapped

vars == <<rec, table, session, up, fed, stage, phase, on, ref, held,
          gone, clean>>

peers    == <<session, up>>
snapshot == <<on, ref>>

Stages == {"idle", "closing", "connect", "watch", "sub", "resub", "settle", "done", "failed"}

\* What this module follows of a record.
Followed(w) ==
  [w EXCEPT !.seenOrder = <<>>, !.drained = 0, !.replayed = 0, !.dropped = 0]

TypeOK ==
  /\ rec \in [Rec -> Watch]
  /\ table \in Rec \cup {None}
  /\ session \in Peer \cup {None}
  /\ up \in SUBSET Peer
  /\ fed \in SUBSET (Rec \X up)
  /\ stage \in [Reconnect -> Stages]
  /\ phase \in [Reconnect -> {"arm", "seat"}]
  /\ on \in [Reconnect -> Peer \cup {None}]
  /\ ref \in [Reconnect -> Rec \cup {None}]
  /\ held \in [Reconnect -> (Rec \X Peer) \cup {None}]
  /\ gone \in SUBSET Id
  /\ clean \in BOOLEAN

\* A connected session with one watch.
Init ==
  /\ rec = [o \in Rec |-> MakeWatch]
  /\ table = <<Start, "seat">> /\ session = Start /\ up = {Start}
  /\ fed = {<<table, Start>>}
  /\ stage = [r \in Reconnect |-> "idle"]
  /\ phase = [r \in Reconnect |-> "arm"]
  /\ on = [r \in Reconnect |-> None]
  /\ ref = [r \in Reconnect |-> None]
  /\ held = [r \in Reconnect |-> None]
  /\ gone = {} /\ clean = TRUE

Active == {r \in Reconnect : stage[r] \notin {"idle", "done", "failed"}}

\* The record that the watch() of a reconnect makes.
Fresh(r) == <<r, phase[r]>>

\* Records somebody can still read: an arrival in any other is forgotten.
Reachable ==
  ({table} \cup {ref[r] : r \in Active} \cup {Fresh(r) : r \in Active}) \ {None}

-----------------------------------------------------------------------------
(* Arrivals and polls *)

\* The subscription hands a message to its record, live or replayed.
Arrive(o, id) ==
  LET w == Deliver(rec[o], id) IN
    /\ o \in Reachable /\ \E p \in Peer : <<o, p>> \in fed
    /\ rec' = [rec EXCEPT ![o] = Followed(w)]
    /\ gone' = gone \cup ((Elems(rec[o].buffer) \cup {id}) \ Elems(w.buffer))
    /\ UNCHANGED <<table, peers, fed, stage, phase, snapshot, held, clean>>

\* axona_poll: nothing is handed out while WATCHES is empty.
Poll(max) ==
  /\ session # None /\ table # None
  /\ LET k == Taken(rec[table], max) IN
       /\ rec' = [rec EXCEPT ![table] = Followed(Collect(@, k))]
       /\ gone' = gone \cup Elems(SubSeq(rec[table].buffer, 1, k))
  /\ UNCHANGED <<table, peers, fed, stage, phase, snapshot, held, clean>>

-----------------------------------------------------------------------------
(* reconnect(), up to its new session *)

Begin(r) ==
  /\ stage[r] = "idle"
  /\ stage' = [stage EXCEPT ![r] = "closing"]
  /\ on' = [on EXCEPT ![r] = session]
  /\ ref' = [ref EXCEPT ![r] = table]
  /\ clean' = (clean /\ Active = {})
  /\ UNCHANGED <<rec, table, peers, fed, phase, held, gone>>

\* The old peer is closed; the session and its watches are forgotten.
Closed(r) ==
  /\ stage[r] = "closing"
  /\ stage' = [stage EXCEPT ![r] = "connect"]
  /\ session' = None /\ table' = None
  /\ up' = up \ {on[r]}
  /\ fed' = {f \in fed : f[2] # on[r]}
  /\ on' = [on EXCEPT ![r] = None]
  /\ UNCHANGED <<rec, phase, ref, held, gone, clean>>

\* The connect arms the topic when it is on the standing list.
Connected(r) ==
  /\ stage[r] = "connect"
  /\ session' = r /\ up' = up \cup {r}
  /\ stage' = [stage EXCEPT ![r] = "watch"]
  /\ \E p \in {"arm", "seat"} : phase' = [phase EXCEPT ![r] = p]
  /\ UNCHANGED <<rec, table, fed, snapshot, held, gone, clean>>

\* ensureSession() throws out of reconnect(), and the snapshot is gone.
ConnectFails(r) ==
  /\ stage[r] = "connect"
  /\ stage' = [stage EXCEPT ![r] = "failed"]
  /\ clean' = FALSE
  /\ UNCHANGED <<rec, table, peers, fed, phase, snapshot, held, gone>>

-----------------------------------------------------------------------------
(* The re-seat: the old record is carried over into the registered one *)

\* buffer.filter(): the messages of a buffer that are not among those given.
Unheld(buffer, have) ==
  LET kept[i \in 0 .. Len(buffer)] ==
        IF i = 0 THEN <<>>
        ELSE IF buffer[i] \in have THEN kept[i - 1] ELSE Append(kept[i - 1], buffer[i])
  IN kept[Len(buffer)]

\* The mutant: the carried messages are not compared with the replayed ones.
MergeBlindly(n, o) ==
  [n EXCEPT !.buffer = o.buffer \o @, !.seen = @ \cup o.seen,
            !.total = Cardinality(n.seen \cup o.seen)]

\* The mutant: the old buffer is not carried.
MergeCounts(n, o) ==
  [n EXCEPT !.seen = @ \cup o.seen, !.total = Cardinality(n.seen \cup o.seen)]

\* The mutant: the old total is added to what the replay counted again.
MergeTotals(n, o) ==
  [n EXCEPT !.buffer = Unheld(o.buffer, Elems(@)) \o @,
            !.seen = @ \cup o.seen, !.total = @ + o.total]

\* The messages the new record does not hold go in front, uncapped; the ids
\* it has not seen are remembered; the total is the larger count.
Merge(n, o) ==
  LET known == Cardinality(n.seen \cup o.seen) IN
    [n EXCEPT !.buffer = Unheld(o.buffer, Elems(@)) \o @,
              !.seen = @ \cup o.seen,
              !.total = IF @ < known THEN known ELSE @]

\* watch() has returned to reconnect() and WATCHES.get(key) is t.
Reseated(r, t) ==
  /\ stage' = [stage EXCEPT ![r] = "done"]
  /\ rec' = IF t = None THEN rec
            ELSE [rec EXCEPT ![t] = Merge(@, rec[ref[r]])]
  /\ UNCHANGED phase

\* watch() has returned, to the connect or to the re-seat.  A reconnect that
\* found no watch has nothing to re-seat.
Returned(r, t) ==
  IF phase[r] = "seat" /\ ref[r] # None
    THEN Reseated(r, t)
    ELSE /\ stage' = [stage EXCEPT ![r] = IF phase[r] = "arm" THEN "watch" ELSE "done"]
         /\ phase' = [phase EXCEPT ![r] = "seat"]
         /\ UNCHANGED rec

-----------------------------------------------------------------------------
(* watch(), for the standing list and for the re-seat *)

Watching(r) == stage[r] = "watch" /\ session # None

NothingToReseat(r) ==
  /\ Watching(r) /\ phase[r] = "seat" /\ ref[r] = None
  /\ stage' = [stage EXCEPT ![r] = "done"]
  /\ UNCHANGED <<rec, table, peers, fed, phase, snapshot, held, gone, clean>>

Needed(r) == Watching(r) /\ (phase[r] = "arm" \/ ref[r] # None)

\* No watch yet: subscribe a new record, to be registered when sub() resolves.
WatchFresh(r) ==
  /\ Needed(r) /\ table = None
  /\ fed' = fed \cup {<<Fresh(r), session>>}
  /\ stage' = [stage EXCEPT ![r] = "sub"]
  /\ UNCHANGED <<rec, table, peers, phase, snapshot, held, gone, clean>>

Subscribed(r) ==
  /\ stage[r] = "sub"
  /\ table' = Fresh(r)
  /\ Returned(r, Fresh(r))
  /\ UNCHANGED <<peers, fed, snapshot, held, gone, clean>>

\* Already watched, since:"all": the subscription is dropped ...
WatchReplay(r) ==
  /\ Needed(r) /\ table # None
  /\ held' = [held EXCEPT ![r] = <<table, session>>]
  /\ fed' = {f \in fed : f[2] # session}
  /\ stage' = [stage EXCEPT ![r] = "resub"]
  /\ UNCHANGED <<rec, table, peers, phase, snapshot, gone, clean>>

\* The mutant: the subscription is dropped after it was made again.
ResubscribedFirst(r) ==
  /\ stage[r] = "resub"
  /\ fed' = {f \in fed : f[2] # held[r][2]}
  /\ held' = [held EXCEPT ![r] = None]
  /\ stage' = [stage EXCEPT ![r] = "settle"]
  /\ UNCHANGED <<rec, table, peers, phase, snapshot, gone, clean>>

\* The mutant: a closed peer takes a subscription.
ResubscribedAnyway(r) ==
  /\ stage[r] = "resub"
  /\ fed' = fed \cup {held[r]}
  /\ held' = [held EXCEPT ![r] = None]
  /\ stage' = [stage EXCEPT ![r] = "settle"]
  /\ UNCHANGED <<rec, table, peers, phase, snapshot, gone, clean>>

\* ... and made again, to have the backlog delivered once more.
Resubscribed(r) ==
  /\ stage[r] = "resub"
  /\ fed' = IF held[r][2] \in up THEN fed \cup {held[r]} ELSE fed
  /\ held' = [held EXCEPT ![r] = None]
  /\ stage' = [stage EXCEPT ![r] = "settle"]
  /\ UNCHANGED <<rec, table, peers, phase, snapshot, gone, clean>>

\* settle() saw no growth for 400 ms, or its 2 s are over.
Settled(r) ==
  /\ stage[r] = "settle"
  /\ Returned(r, table)
  /\ UNCHANGED <<table, peers, fed, snapshot, held, gone, clean>>

\* Already watched, since:"latest" or "live": nothing is asked for.
WatchAgain(r) ==
  /\ Needed(r) /\ table # None /\ phase[r] = "seat"
  /\ Returned(r, table)
  /\ UNCHANGED <<table, peers, fed, snapshot, held, gone, clean>>

\* sub() throws: no watch from the standing list, or no re-seat.
SubRejected(r) ==
  /\ stage[r] \in {"sub", "resub"}
  /\ fed' = fed \ {<<Fresh(r), p>> : p \in Peer}
  /\ stage' = [stage EXCEPT ![r] = IF phase[r] = "arm" THEN "watch" ELSE "failed"]
  /\ phase' = [phase EXCEPT ![r] = "seat"]
  /\ clean' = FALSE
  /\ UNCHANGED <<rec, table, peers, snapshot, held, gone>>

-----------------------------------------------------------------------------

Opens(r)    == Begin(r) \/ Closed(r) \/ Connected(r) \/ ConnectFails(r)
WatchStep(r) ==
  WatchFresh(r) \/ Subscribed(r) \/ WatchReplay(r) \/ Resubscribed(r) \/ Settled(r)
    \/ WatchAgain(r) \/ SubRejected(r) \/ NothingToReseat(r)

Next ==
  \/ \E o \in Rec, id \in Id : Arrive(o, id)
  \/ \E max \in 0 .. BufferCap : Poll(max)
  \/ \E r \in Reconnect : Opens(r) \/ WatchStep(r)

Spec == Init /\ [][Next]_vars

-----------------------------------------------------------------------------
(* Properties *)

\* What any record of the topic has taken in.
Got == UNION {rec[o].seen : o \in Rec}

\* What still waits: in the registered watch, in the snapshot of a reconnect,
\* or in the record it is about to register.
Waiting == UNION {Elems(rec[o].buffer) : o \in Reachable}

(***************************************************************************)
(* A reconnect that succeeds, on its own, loses nothing: every message     *)
(* that arrived was handed to a poll, evicted by a cap, or still waits.    *)
(***************************************************************************)
NothingUnreadLost == clean => Got \subseteq gone \cup Waiting

(***************************************************************************)
(* `total` keeps meaning distinct messages seen across reconnects that     *)
(* succeed one at a time, though the fresh subscription counts the backlog *)
(* again.                                                                  *)
(***************************************************************************)
TotalSurvives ==
  clean /\ Active = {} => rec[table].total = Cardinality(Got)

(***************************************************************************)
(* No message waits twice in the registered watch, whatever reconnects     *)
(* overlap or fail.                                                        *)
(***************************************************************************)
WaitsOnce ==
  table # None =>
    \A i, j \in DOMAIN rec[table].buffer :
      rec[table].buffer[i] = rec[table].buffer[j] => i = j

(***************************************************************************)
(* After reconnects that succeed one at a time, the registered watch is    *)
(* the one the new peer delivers to: no watch is left deaf by an unsub     *)
(* that comes late or a sub made on a peer that is gone.                   *)
(***************************************************************************)
NotDeaf == clean /\ Active = {} => <<table, session>> \in fed

(***************************************************************************)
(* src/mcp-session.js:678-680: the old buffer is carried over so that      *)
(* nothing unread is duplicated: the re-seat puts back no message that the *)
(* registered watch has had, and no longer has because a poll took it      *)
(* (in a watch whose cap is above the number of messages).                 *)
(***************************************************************************)
UnreadOnce ==
  [][\A r \in Reconnect :
       stage[r] = "settle" /\ stage'[r] = "done" /\ table # None =>
         \A id \in Elems(rec'[table].buffer) \ Elems(rec[table].buffer) :
           id \notin rec[table].seen]_vars

(***************************************************************************)
(* A re-seated watch works on: it is fed by the new peer, no message waits *)
(* in it twice, and its `total' counts every message once                  *)
(* (mcp-session.js 649-692).                                               *)
(***************************************************************************)
ReseatWorksOn == NotDeaf /\ WaitsOnce /\ TotalSurvives

-----------------------------------------------------------------------------
(* For model checking: messages, and reconnects, are interchangeable; and   *)
(* what nobody can read any more of the records does not tell states apart. *)
Symmetric == Permutations(Id) \cup Permutations(Reconnect)

Readable ==
  <<[o \in Rec |-> IF o \in Reachable THEN rec[o] ELSE [MakeWatch EXCEPT !.seen = rec[o].seen]],
    table, session, up, fed, stage, phase, on, ref, held, gone, clean>>
=============================================================================
