----------------------------- MODULE WatchTable -----------------------------
(***************************************************************************)
(* The table of watches of an MCP session, src/mcp-session.js watch(),     *)
(* poll() and unwatch(), as calls that interleave at their awaits while    *)
(* the session stays up.  A call is used once; the watch record it makes,  *)
(* and the subscription it makes, are named after it.                      *)
(*                                                                         *)
(* Of a record this module keeps which messages it has seen and holds (the *)
(* caps and counters are WatchBuffer's).  The kernel is external: sub()    *)
(* owes its handler the messages it was asked for, in any order and any    *)
(* number of times; unsub() stops every subscription of the topic.         *)
(***************************************************************************)
EXTENDS Naturals, FiniteSets

CONSTANTS
  Topic, Call, Message,  \* watched topics, tool calls, messages
  None,                  \* no record; and the topic argument left out
  OnTopic                \* the topic each message is posted to

ASSUME TableAssumption ==
  /\ OnTopic \in [Message -> Topic]
  /\ None \notin Topic \cup Call
  /\ IsFiniteSet(Call)

VARIABLES
  table,    \* WATCHES: the record registered under each topic
  subs,     \* the subscriptions of the peer on each topic
  feeds,    \* the record the handler of a subscription delivers to
  owed,     \* messages the kernel may still hand to a subscription
  seen,     \* w.seen
  buffer,   \* w.buffer
  waiters,  \* w.waiters: polls to wake
  pc,       \* where each call is
  on,       \* its topic argument
  got,      \* the record it took from the table, or made
  posted,   \* messages on the network
  emitted,  \* history: arrivals emitted to the inbox, per message
  crossed   \* history: calls on one topic that changed its subscription together

records == <<seen, buffer, waiters>>
kernel  == <<subs, feeds, owed>>
calls   == <<pc, on, got>>
vars    == <<table, kernel, records, calls, posted, emitted, crossed>>

Busy == {"sub", "unsub", "resub", "drop"}

TypeOK ==
  /\ table \in [Topic -> Call \cup {None}]
  /\ subs \in [Topic -> SUBSET Call] /\ feeds \in [Call -> Call \cup {None}]
  /\ owed \in [Call -> SUBSET Message]
  /\ seen \in [Call -> SUBSET Message] /\ buffer \in [Call -> SUBSET Message]
  /\ waiters \in [Call -> SUBSET Call]
  /\ pc \in [Call -> Busy \cup {"idle", "wait", "woken", "done"}]
  /\ on \in [Call -> Topic \cup {None}] /\ got \in [Call -> Call \cup {None}]
  /\ posted \in SUBSET Message
  /\ emitted \in [Message -> 0 .. 2]
  /\ crossed \in SUBSET Topic

Init ==
  /\ table = [t \in Topic |-> None] /\ subs = [t \in Topic |-> {}]
  /\ feeds = [c \in Call |-> None] /\ owed = [c \in Call |-> {}]
  /\ seen = [c \in Call |-> {}] /\ buffer = [c \in Call |-> {}]
  /\ waiters = [c \in Call |-> {}]
  /\ pc = [c \in Call |-> "idle"] /\ on = [c \in Call |-> None]
  /\ got = [c \in Call |-> None]
  /\ posted = {} /\ emitted = [m \in Message |-> 0] /\ crossed = {}

Held(t) == IF table[t] = None THEN {} ELSE buffer[table[t]]

\* The call c begins on t and goes to await a subscription change.
Begin(c, t, where, w) ==
  /\ pc[c] = "idle"
  /\ pc' = [pc EXCEPT ![c] = where]
  /\ on' = [on EXCEPT ![c] = t] /\ got' = [got EXCEPT ![c] = w]
  /\ crossed' = IF where \in Busy /\ \E d \in Call : pc[d] \in Busy /\ on[d] = t
                  THEN crossed \cup {t} ELSE crossed

Moves(c, where) == pc' = [pc EXCEPT ![c] = where] /\ UNCHANGED <<on, got>>

\* The mutant: only one poll is woken.
WakeOne(w) ==
  \E c \in waiters[w] :
    /\ waiters' = [waiters EXCEPT ![w] = @ \ {c}]
    /\ pc' = IF pc[c] = "wait" THEN [pc EXCEPT ![c] = "woken"] ELSE pc

\* Waiters leave the list and their polls go on.
Wake(w) ==
  /\ waiters' = [waiters EXCEPT ![w] = {}]
  /\ pc' = [c \in Call |-> IF c \in waiters[w] /\ pc[c] = "wait" THEN "woken" ELSE pc[c]]

-----------------------------------------------------------------------------
(* The topic and the kernel *)

Post(m) ==
  /\ m \notin posted /\ posted' = posted \cup {m}
  /\ owed' = [c \in Call |-> IF c \in subs[OnTopic[m]] THEN owed[c] \cup {m} ELSE owed[c]]
  /\ UNCHANGED <<table, subs, feeds, records, calls, emitted, crossed>>

\* A message that entered the buffer wakes the polls that wait for one.
Arrived(w) == IF waiters[w] = {} THEN UNCHANGED <<waiters, pc>> ELSE Wake(w)

\* The mutant: a refill of a replay reaches the inbox as well.
EmitAlways(w, m) == emitted' = [emitted EXCEPT ![m] = IF @ < 2 THEN @ + 1 ELSE @]

\* A first sight is an arrival; a refill is not.
Emit(w, m) ==
  emitted' = IF m \in seen[w] \/ emitted[m] = 2 THEN emitted
             ELSE [emitted EXCEPT ![m] = @ + 1]

\* arrivalHandler(): what is still buffered changes nothing.
Deliver(c, m) ==
  /\ m \in owed[c]
  /\ LET w == feeds[c] IN
       /\ m \notin buffer[w]
       /\ seen' = [seen EXCEPT ![w] = @ \cup {m}]
       /\ buffer' = [buffer EXCEPT ![w] = @ \cup {m}]
       /\ Arrived(w)
       /\ Emit(w, m)
  /\ owed' = [owed EXCEPT ![c] = @ \ {m}]
  /\ UNCHANGED <<table, subs, feeds, on, got, posted, crossed>>

\* The backlog of a subscription is replayed to it once more.
Replayed(t) == {m \in posted : OnTopic[m] = t}

Subscribe(c, t, w, backlog) ==
  /\ subs' = [subs EXCEPT ![t] = @ \cup {c}]
  /\ feeds' = [feeds EXCEPT ![c] = w]
  /\ owed' = [owed EXCEPT ![c] = backlog]

Unsubscribe(t) ==
  /\ subs' = [subs EXCEPT ![t] = {}]
  /\ owed' = [c \in Call |-> IF c \in subs[t] THEN {} ELSE owed[c]]
  /\ UNCHANGED feeds

-----------------------------------------------------------------------------
(* watch() *)

\* Watched already, and no replay wanted: nothing to do.
WatchAgain(c, t) ==
  /\ table[t] # None
  /\ Begin(c, t, "done", None)
  /\ UNCHANGED <<table, kernel, records, posted, emitted>>

WatchNew(c, t) ==
  /\ table[t] = None
  /\ Begin(c, t, "sub", c)
  /\ UNCHANGED <<table, kernel, records, posted, emitted>>

WatchReplay(c, t) ==
  /\ table[t] # None
  /\ Begin(c, t, "unsub", table[t])
  /\ UNCHANGED <<table, kernel, records, posted, emitted>>

\* The mutant: the watch is registered before its sub() has resolved.
RegisterFirst(c) ==
  /\ pc[c] = "sub"
  /\ table' = [table EXCEPT ![on[c]] = c] /\ Moves(c, "done")
  /\ UNCHANGED <<kernel, records, posted, emitted, crossed>>

\* sub() resolves, with the backlog or (since:"live") without it; only now is
\* the watch registered.
Subscribed(c) ==
  /\ pc[c] = "sub"
  /\ \E backlog \in {{}, Replayed(on[c])} : Subscribe(c, on[c], c, backlog)
  /\ table' = [table EXCEPT ![on[c]] = c]
  /\ Moves(c, "done")
  /\ UNCHANGED <<records, posted, emitted, crossed>>

\* The replay has dropped the subscription; the next await makes it again.
Unsubscribed(c) ==
  /\ pc[c] = "unsub"
  /\ Unsubscribe(on[c]) /\ Moves(c, "resub")
  /\ UNCHANGED <<table, records, posted, emitted, crossed>>

Resubscribed(c) ==
  /\ pc[c] = "resub"
  /\ Subscribe(c, on[c], got[c], Replayed(on[c])) /\ Moves(c, "done")
  /\ UNCHANGED <<table, records, posted, emitted, crossed>>

\* sub() throws; a replay that is rejected leaves its watch without a feed.
Rejected(c) ==
  /\ pc[c] \in {"sub", "resub"}
  /\ crossed' = IF pc[c] = "resub" THEN crossed \cup {on[c]} ELSE crossed
  /\ Moves(c, "done")
  /\ UNCHANGED <<table, kernel, records, posted, emitted>>

-----------------------------------------------------------------------------
(* unwatch() *)

Unwatch(c, t) ==
  /\ IF table[t] = None THEN Begin(c, t, "done", None) ELSE Begin(c, t, "drop", table[t])
  /\ UNCHANGED <<table, kernel, records, posted, emitted>>

\* The mutant: the waiters are forgotten with the record.
UnwatchedQuietly(c) ==
  /\ pc[c] = "drop"
  /\ Unsubscribe(on[c])
  /\ table' = [table EXCEPT ![on[c]] = None]
  /\ Moves(c, "done")
  /\ UNCHANGED <<records, posted, emitted, crossed>>

\* unsub() has returned: waiters are released, the entry of the topic goes.
Unwatched(c) ==
  /\ pc[c] = "drop"
  /\ Unsubscribe(on[c])
  /\ waiters' = [waiters EXCEPT ![got[c]] = {}]
  /\ pc' = [d \in Call |-> IF d = c THEN "done"
                           ELSE IF d \in waiters[got[c]] /\ pc[d] = "wait" THEN "woken"
                           ELSE pc[d]]
  /\ table' = [table EXCEPT ![on[c]] = None]
  /\ UNCHANGED <<seen, buffer, on, got, posted, emitted, crossed>>

-----------------------------------------------------------------------------
(* poll() *)

Targets(t) == IF t = None THEN Topic ELSE {t}

Drain(t) ==
  buffer' = [w \in Call |-> IF \E u \in Targets(t) : table[u] = w THEN {} ELSE buffer[w]]

\* Something is there, nothing is watched under the topic, or wait was not
\* asked for: the answer is given at once.
PollNow(c, t) ==
  /\ Begin(c, t, "done", None)
  /\ Drain(t)
  /\ UNCHANGED <<table, kernel, seen, waiters, posted, emitted>>

\* wait:true and nothing there: wait on the watches there are.
PollWaits(c, t) ==
  /\ \A u \in Targets(t) : Held(u) = {}
  /\ t # None => table[t] # None
  /\ Begin(c, t, "wait", None)
  /\ waiters' = [w \in Call |-> IF \E u \in Targets(t) : table[u] = w
                                  THEN waiters[w] \cup {c} ELSE waiters[w]]
  /\ UNCHANGED <<table, kernel, seen, buffer, posted, emitted>>

\* timeoutSec.  The waiter stays on the lists it is on.
TimesOut(c) ==
  /\ pc[c] = "wait" /\ Moves(c, "woken")
  /\ UNCHANGED <<table, kernel, records, posted, emitted, crossed>>

Collects(c) ==
  /\ pc[c] = "woken"
  /\ Drain(on[c]) /\ Moves(c, "done")
  /\ UNCHANGED <<table, kernel, seen, waiters, posted, emitted, crossed>>

-----------------------------------------------------------------------------

Starts(c) ==
  \/ \E t \in Topic : WatchAgain(c, t) \/ WatchNew(c, t) \/ WatchReplay(c, t) \/ Unwatch(c, t)
  \/ \E t \in Topic \cup {None} : PollNow(c, t) \/ PollWaits(c, t)

GoesOn(c) ==
  \/ Subscribed(c) \/ Unsubscribed(c) \/ Resubscribed(c) \/ Rejected(c)
  \/ Unwatched(c) \/ TimesOut(c) \/ Collects(c)

Next ==
  \/ \E m \in Message : Post(m) \/ \E c \in Call : Deliver(c, m)
  \/ \E c \in Call : Starts(c) \/ GoesOn(c)

Spec == Init /\ [][Next]_vars

-----------------------------------------------------------------------------
(* Properties *)

Quiet(t) == \A c \in Call : pc[c] \in Busy => on[c] # t

(***************************************************************************)
(* No wake-up is lost: while a poll waits for a topic, on the record that  *)
(* is registered under it, that record holds nothing to read.              *)
(***************************************************************************)
NoLostWakeup ==
  \A c \in Call, t \in Topic :
    pc[c] = "wait" /\ t \in Targets(on[c]) /\ table[t] # None /\ c \in waiters[table[t]]
      => buffer[table[t]] = {}

(***************************************************************************)
(* A poll never waits for a topic that is not watched any more: unwatch()  *)
(* releases it rather than leave it to its time-out.                       *)
(***************************************************************************)
WaitsForAWatch ==
  \A c \in Call : pc[c] = "wait" /\ on[c] # None /\ on[c] \notin crossed => table[on[c]] # None

(***************************************************************************)
(* However often a topic is replayed, each of its messages reaches the     *)
(* inbox once for as long as its watch is the same: a refill wakes no      *)
(* agent a second time.                                                    *)
(***************************************************************************)
InboxOnce ==
  \A m \in Message :
    emitted[m] > 0 /\ OnTopic[m] \notin crossed
      => emitted[m] <= Cardinality({w \in Call : m \in seen[w]})

(***************************************************************************)
(* Once the calls on a topic have returned, the watch that is listed is    *)
(* the one its subscriptions feed, and nothing is fed that is not listed:  *)
(* unless two calls changed the subscription together, or the second half  *)
(* of a replay was rejected.                                               *)
(***************************************************************************)
ListedIsFed ==
  \A t \in Topic : Quiet(t) /\ t \notin crossed =>
    {feeds[c] : c \in subs[t]} = IF table[t] = None THEN {} ELSE {table[t]}

(***************************************************************************)
(* What arrives finds its reader: the listed watch is the one that is fed, *)
(* nobody waits for a topic that is not watched, and a message wakes an    *)
(* agent once (mcp-session.js 426-553).                                    *)
(***************************************************************************)
ArrivalsFindReaders == ListedIsFed /\ WaitsForAWatch /\ InboxOnce

=============================================================================
