------------------------- MODULE WatchTable_proofs -------------------------
(***************************************************************************)
(* No wake-up of a long poll is lost, for any number of topics, calls and  *)
(* messages, however watches, replays, unwatches, polls and arrivals       *)
(* interleave.                                                             *)
(***************************************************************************)
EXTENDS WatchTable, FiniteSetTheorems, TLAPS

\* On every waiter list, also of records no longer registered: a poll that
\* still waits on a record has an empty buffer before it, and a call that has
\* not begun waits nowhere.
Waits ==
  \A w \in Call : \A d \in waiters[w] :
    /\ pc[d] # "idle"
    /\ pc[d] = "wait" => buffer[w] = {}

\* A call that changes a subscription has a topic.
OnATopic == \A c \in Call : pc[c] \in Busy => on[c] \in Topic

Typed == TypeOK /\ OnATopic

IInv == Typed /\ Waits

\* A call that begins was idle, and is what Begin says afterwards.
LEMMA Begins ==
  ASSUME Typed, NEW c \in Call, NEW t \in Topic \cup {None}, NEW where \in Busy \cup {"wait", "done"},
         NEW w \in Call \cup {None}, Begin(c, t, where, w), where \in Busy => t \in Topic
  PROVE  /\ pc[c] = "idle" /\ pc' = [pc EXCEPT ![c] = where]
         /\ pc' \in [Call -> Busy \cup {"idle", "wait", "woken", "done"}]
         /\ on' \in [Call -> Topic \cup {None}] /\ got' \in [Call -> Call \cup {None}]
         /\ crossed' \in SUBSET Topic /\ OnATopic'
<1>1. pc[c] = "idle" /\ pc' = [pc EXCEPT ![c] = where]
      /\ on' = [on EXCEPT ![c] = t] /\ got' = [got EXCEPT ![c] = w]
  BY DEF Begin
<1>2. crossed' \in SUBSET Topic
  BY DEF Begin, Typed, TypeOK
<1>3. OnATopic'
  BY <1>1 DEF Typed, TypeOK, OnATopic
<1> QED BY <1>1, <1>2, <1>3 DEF Typed, TypeOK

\* A call that goes on without waiting keeps the types of the calls.
LEMMA GoesOnTyped ==
  ASSUME Typed, NEW c \in Call, NEW where \in {"woken", "done", "resub"}, pc[c] \in Busy \/ where # "resub",
         Moves(c, where)
  PROVE  /\ pc' \in [Call -> Busy \cup {"idle", "wait", "woken", "done"}]
         /\ on' \in [Call -> Topic \cup {None}] /\ got' \in [Call -> Call \cup {None}] /\ OnATopic'
  BY DEF Typed, TypeOK, OnATopic, Moves, Busy

\* Nothing that leaves waiters and buffers alone, and sets no call to waiting
\* or back to idle, disturbs the waiter lists.
LEMMA WaitsStay ==
  ASSUME TypeOK, Waits, UNCHANGED waiters,
         \A w \in Call : buffer'[w] = {} \/ buffer'[w] = buffer[w],
         \A d \in Call : pc'[d] = pc[d] \/ pc'[d] \notin {"idle", "wait"}
  PROVE  Waits'
  BY DEF TypeOK, Waits

\* A drain empties records and changes no other.
LEMMA Drains ==
  ASSUME TypeOK, NEW t \in Topic \cup {None}, Drain(t)
  PROVE  /\ buffer' \in [Call -> SUBSET Message]
         /\ \A w \in Call : buffer'[w] = {} \/ buffer'[w] = buffer[w]
  BY DEF TypeOK, Drain

\* Subscribing keeps the kernel's state well typed.
LEMMA Subscribes ==
  ASSUME TypeOK, NEW c \in Call, NEW t, NEW w \in Call \cup {None},
         NEW backlog \in SUBSET Message, Subscribe(c, t, w, backlog)
  PROVE  /\ subs' \in [Topic -> SUBSET Call] /\ feeds' \in [Call -> Call \cup {None}]
         /\ owed' \in [Call -> SUBSET Message]
  BY DEF TypeOK, Subscribe

\* So does unsubscribing.
LEMMA Unsubscribes ==
  ASSUME TypeOK, NEW t, Unsubscribe(t)
  PROVE  /\ subs' \in [Topic -> SUBSET Call] /\ feeds' \in [Call -> Call \cup {None}]
         /\ owed' \in [Call -> SUBSET Message]
  BY DEF TypeOK, Unsubscribe

-----------------------------------------------------------------------------
\* Every step keeps the types.
LEMMA TypedKept == Typed /\ [Next]_vars => Typed'
<1> SUFFICES ASSUME Typed, [Next]_vars PROVE Typed'
  OBVIOUS
<1> USE TableAssumption
<1>0. TypeOK /\ OnATopic
  BY DEF Typed
<1>1. ASSUME NEW m \in Message, Post(m) PROVE Typed'
  <2>1. owed' \in [Call -> SUBSET Message] /\ posted' \in SUBSET Message
    BY <1>0, <1>1 DEF Post, TypeOK
  <2> QED BY <1>0, <1>1, <2>1 DEF Post, Typed, TypeOK, OnATopic, records, calls
<1>2. ASSUME NEW m \in Message, NEW c \in Call, Deliver(c, m) PROVE Typed'
  <2>1. /\ seen' \in [Call -> SUBSET Message] /\ buffer' \in [Call -> SUBSET Message]
        /\ owed' \in [Call -> SUBSET Message]
    BY <1>0, <1>2 DEF Deliver, TypeOK
  <2>2. /\ waiters' \in [Call -> SUBSET Call]
        /\ \A d \in Call : pc'[d] = pc[d] \/ pc'[d] = "woken"
        /\ pc' \in [Call -> Busy \cup {"idle", "wait", "woken", "done"}]
    BY <1>0, <1>2 DEF Deliver, TypeOK, Arrived, Wake
  <2>3. emitted' \in [Message -> 0 .. 2]
    BY <1>0, <1>2 DEF Deliver, Emit, TypeOK
  <2>4. OnATopic'
    BY <1>0, <1>2, <2>2 DEF Deliver, OnATopic, Busy
  <2> QED BY <1>0, <1>2, <2>1, <2>2, <2>3, <2>4 DEF Deliver, Typed, TypeOK
<1>3. ASSUME NEW c \in Call, NEW t \in Topic,
             WatchAgain(c, t) \/ WatchNew(c, t) \/ WatchReplay(c, t) \/ Unwatch(c, t)
      PROVE  Typed'
  <2>1. UNCHANGED <<table, kernel, records, posted, emitted>>
    BY <1>3 DEF WatchAgain, WatchNew, WatchReplay, Unwatch
  <2>2. \E where \in Busy \cup {"done"}, w \in Call \cup {None} : Begin(c, t, where, w)
    BY <1>0, <1>3 DEF WatchAgain, WatchNew, WatchReplay, Unwatch, Busy, TypeOK
  <2> QED BY <1>0, <2>1, <2>2, Begins DEF Typed, TypeOK, kernel, records
<1>4. ASSUME NEW c \in Call, NEW t \in Topic \cup {None}, PollNow(c, t) PROVE Typed'
  BY <1>0, <1>4, Begins, Drains DEF PollNow, Typed, TypeOK, Busy, kernel
<1>5. ASSUME NEW c \in Call, NEW t \in Topic \cup {None}, PollWaits(c, t) PROVE Typed'
  <2>1. waiters' \in [Call -> SUBSET Call]
    BY <1>0, <1>5 DEF PollWaits, TypeOK
  <2> QED BY <1>0, <1>5, <2>1, Begins DEF PollWaits, Typed, TypeOK, Busy, kernel
<1>6. ASSUME NEW c \in Call, Subscribed(c) PROVE Typed'
  <2>1. PICK backlog \in {{}, Replayed(on[c])} : Subscribe(c, on[c], c, backlog)
    BY <1>6 DEF Subscribed
  <2>1b. backlog \in SUBSET Message /\ c \in Call \cup {None}
    BY <1>0, <2>1 DEF Replayed, TypeOK
  <2>2. table' \in [Topic -> Call \cup {None}]
    BY <1>0, <1>6 DEF Subscribed, TypeOK
  <2> QED BY <1>0, <1>6, <2>1, <2>1b, <2>2, Subscribes, GoesOnTyped DEF Subscribed, Typed, TypeOK, records
<1>7. ASSUME NEW c \in Call, Unsubscribed(c) PROVE Typed'
  BY <1>0, <1>7, Unsubscribes, GoesOnTyped DEF Unsubscribed, Typed, TypeOK, records, Busy
<1>8. ASSUME NEW c \in Call, Resubscribed(c) PROVE Typed'
  <2>1. Replayed(on[c]) \in SUBSET Message /\ got[c] \in Call \cup {None}
    BY <1>0 DEF Replayed, TypeOK
  <2> QED BY <1>0, <1>8, <2>1, Subscribes, GoesOnTyped DEF Resubscribed, Typed, TypeOK, records
<1>9. ASSUME NEW c \in Call, Rejected(c) PROVE Typed'
  <2>1. crossed' \in SUBSET Topic
    BY <1>0, <1>9 DEF Rejected, OnATopic, Busy, TypeOK
  <2> QED BY <1>0, <1>9, <2>1, GoesOnTyped DEF Rejected, Typed, TypeOK, kernel, records
<1>10. ASSUME NEW c \in Call, Unwatched(c) PROVE Typed'
  <2>1. /\ table' \in [Topic -> Call \cup {None}] /\ waiters' \in [Call -> SUBSET Call]
        /\ pc' \in [Call -> Busy \cup {"idle", "wait", "woken", "done"}]
        /\ \A d \in Call : pc'[d] = pc[d] \/ pc'[d] \in {"done", "woken"}
    BY <1>0, <1>10 DEF Unwatched, TypeOK
  <2>2. OnATopic'
    BY <1>0, <1>10, <2>1 DEF Unwatched, OnATopic, Busy
  <2> QED BY <1>0, <1>10, <2>1, <2>2, Unsubscribes DEF Unwatched, Typed, TypeOK
<1>11. ASSUME NEW c \in Call, TimesOut(c) PROVE Typed'
  BY <1>0, <1>11, GoesOnTyped DEF TimesOut, Typed, TypeOK, kernel, records
<1>12. ASSUME NEW c \in Call, Collects(c) PROVE Typed'
  <2>1. on[c] \in Topic \cup {None}
    BY <1>0 DEF TypeOK
  <2> QED BY <1>0, <1>12, <2>1, GoesOnTyped, Drains DEF Collects, Typed, TypeOK, kernel
<1>13. CASE UNCHANGED vars
  BY <1>0, <1>13 DEF vars, Typed, TypeOK, OnATopic, kernel, records, calls
<1> QED BY <1>1, <1>2, <1>3, <1>4, <1>5, <1>6, <1>7, <1>8, <1>9, <1>10, <1>11, <1>12, <1>13
        DEF Next, Starts, GoesOn

\* Every step keeps the waiter lists.
LEMMA WaitsKept == IInv /\ [Next]_vars => Waits'
<1> SUFFICES ASSUME Typed, Waits, [Next]_vars PROVE Waits'
  BY DEF IInv
<1> USE TableAssumption
<1>0. TypeOK
  BY DEF Typed
<1>1. ASSUME NEW m \in Message, Post(m) PROVE Waits'
  BY <1>1 DEF Post, Waits, records, calls
<1>2. ASSUME NEW m \in Message, NEW c \in Call, Deliver(c, m) PROVE Waits'
  <2> DEFINE w == feeds[c]
  <2>1. buffer' = [buffer EXCEPT ![w] = @ \cup {m}]
    BY <1>2 DEF Deliver
  <2>2. \A v \in Call : v # w => buffer'[v] = buffer[v]
    BY <1>0, <2>1 DEF TypeOK
  <2>3. CASE waiters[w] = {}
    BY <1>0, <1>2, <2>2, <2>3 DEF Deliver, Arrived, Waits, TypeOK
  <2>4. CASE waiters[w] # {}
    <3>1. /\ waiters' = [waiters EXCEPT ![w] = {}]
          /\ \A d \in Call : pc'[d] = pc[d] \/ pc'[d] = "woken"
      BY <1>0, <1>2, <2>4 DEF Deliver, Arrived, Wake, TypeOK
    <3> QED BY <1>0, <2>2, <3>1 DEF Waits, TypeOK
  <2> QED BY <2>3, <2>4
<1>3. ASSUME NEW c \in Call, NEW t \in Topic,
             WatchAgain(c, t) \/ WatchNew(c, t) \/ WatchReplay(c, t) \/ Unwatch(c, t)
      PROVE  Waits'
  <2>1. UNCHANGED <<waiters, buffer>>
    BY <1>3 DEF WatchAgain, WatchNew, WatchReplay, Unwatch, records
  <2>2. \E where \in Busy \cup {"done"} : pc' = [pc EXCEPT ![c] = where]
    BY <1>3 DEF WatchAgain, WatchNew, WatchReplay, Unwatch, Busy, Begin
  <2>3. \A d \in Call : pc'[d] = pc[d] \/ pc'[d] \notin {"idle", "wait"}
    BY <1>0, <2>2 DEF TypeOK, Busy
  <2> QED BY <1>0, <2>1, <2>3, WaitsStay
<1>4. ASSUME NEW c \in Call, NEW t \in Topic \cup {None}, PollNow(c, t) PROVE Waits'
  <2>1. \A d \in Call : pc'[d] = pc[d] \/ pc'[d] \notin {"idle", "wait"}
    BY <1>0, <1>4 DEF PollNow, Begin, TypeOK
  <2> QED BY <1>0, <1>4, <2>1, WaitsStay, Drains DEF PollNow
<1>5. ASSUME NEW c \in Call, NEW t \in Topic \cup {None}, PollWaits(c, t) PROVE Waits'
  <2>1. pc[c] = "idle" /\ pc' = [pc EXCEPT ![c] = "wait"] /\ buffer' = buffer
    BY <1>5 DEF PollWaits, Begin
  <2>2. ASSUME NEW w \in Call, NEW d \in waiters'[w]
        PROVE  pc'[d] # "idle" /\ (pc'[d] = "wait" => buffer'[w] = {})
    <3>1. CASE d \in waiters[w]
      BY <1>0, <2>1, <3>1 DEF Waits, TypeOK
    <3>2. CASE d \notin waiters[w]
      <4>1. d = c /\ \E u \in Targets(t) : table[u] = w
        BY <1>5, <3>2, <2>2 DEF PollWaits
      <4>2. buffer[w] = {}
        BY <1>5, <4>1 DEF PollWaits, Held
      <4> QED BY <1>0, <2>1, <4>1, <4>2 DEF TypeOK
    <3> QED BY <3>1, <3>2
  <2> QED BY <2>2 DEF Waits
<1>6. ASSUME NEW c \in Call, Subscribed(c) \/ Unsubscribed(c) \/ Resubscribed(c) \/ Rejected(c) \/ TimesOut(c)
      PROVE  Waits'
  <2>1. UNCHANGED <<waiters, buffer>>
    BY <1>6 DEF Subscribed, Unsubscribed, Resubscribed, Rejected, TimesOut, records
  <2>2. \E where \in {"done", "resub", "woken"} : pc' = [pc EXCEPT ![c] = where]
    BY <1>6 DEF Subscribed, Unsubscribed, Resubscribed, Rejected, TimesOut, Moves
  <2>3. \A d \in Call : pc'[d] = pc[d] \/ pc'[d] \notin {"idle", "wait"}
    BY <1>0, <2>2 DEF TypeOK
  <2> QED BY <1>0, <2>1, <2>3, WaitsStay
<1>7. ASSUME NEW c \in Call, Unwatched(c) PROVE Waits'
  <2>1. /\ buffer' = buffer /\ \A w \in Call : waiters'[w] \subseteq waiters[w]
        /\ \A d \in Call : pc'[d] = pc[d] \/ pc'[d] \notin {"idle", "wait"}
    BY <1>0, <1>7 DEF Unwatched, TypeOK
  <2> QED BY <1>0, <2>1 DEF Waits, TypeOK
<1>8. ASSUME NEW c \in Call, Collects(c) PROVE Waits'
  <2>1. \A d \in Call : pc'[d] = pc[d] \/ pc'[d] \notin {"idle", "wait"}
    BY <1>0, <1>8 DEF Collects, Moves, TypeOK
  <2>2. on[c] \in Topic \cup {None}
    BY <1>0 DEF TypeOK
  <2> QED BY <1>0, <1>8, <2>1, <2>2, WaitsStay, Drains DEF Collects
<1>9. CASE UNCHANGED vars
  BY <1>9 DEF vars, Waits, records, calls
<1> QED BY <1>1, <1>2, <1>3, <1>4, <1>5, <1>6, <1>7, <1>8, <1>9 DEF Next, Starts, GoesOn

\* A session whose table is empty satisfies the invariant.
LEMMA InitIInv == Init => IInv
<1> SUFFICES ASSUME Init PROVE IInv
  OBVIOUS
<1>1. TypeOK
  BY DEF Init, TypeOK
<1>2. OnATopic /\ Waits
  BY DEF Init, OnATopic, Waits, Busy
<1> QED BY <1>1, <1>2 DEF IInv, Typed

\* The invariant holds in every reachable state.
LEMMA Invariance == Spec => []IInv
<1>1. IInv /\ [Next]_vars => IInv'
  BY TypedKept, WaitsKept DEF IInv
<1> QED BY InitIInv, <1>1, PTL DEF Spec

\* Every reachable state of the table is well typed.
THEOREM TypeCorrect == Spec => []TypeOK
<1>1. IInv => TypeOK
  BY DEF IInv, Typed
<1> QED BY <1>1, Invariance, PTL

\* No poll waits before a record that has something to read.
THEOREM NoWakeupIsLost == Spec => []NoLostWakeup
<1>1. IInv => NoLostWakeup
  BY DEF IInv, Typed, TypeOK, Waits, NoLostWakeup
<1> QED BY <1>1, Invariance, PTL

-----------------------------------------------------------------------------
(* What arrives finds its reader.  A topic on which no two calls met has at *)
(* most one call changing its subscription, and that call knows the record  *)
(* the table lists.                                                         *)

Sole ==
  \A c, d \in Call :
    pc[c] \in Busy /\ pc[d] \in Busy /\ on[c] = on[d] /\ on[c] \notin crossed => c = d

\* A subscription was made by a call that has returned, and feeds a record.
Subscribers == \A t \in Topic : \A c \in subs[t] : pc[c] = "done" /\ feeds[c] \in Call
Delivers    == \A c \in Call : owed[c] # {} => feeds[c] \in Call

\* What a replay or an unwatch took from the table is a record.
Holding == \A c \in Call : pc[c] \in {"unsub", "resub", "drop"} => got[c] \in Call

\* A topic is fed but between the halves of a replay, and a call on it found
\* what the table lists.
Away(t)    == \E c \in Call : pc[c] = "resub" /\ on[c] = t
Feeders(t) == {feeds[c] : c \in subs[t]}
Found(t) ==
  \A c \in Call : on[c] = t => /\ pc[c] = "sub" => table[t] = None
                               /\ pc[c] \in {"unsub", "resub", "drop"} => table[t] = got[c]
Fed(t) == Found(t) /\ Feeders(t) = IF table[t] = None \/ Away(t) THEN {} ELSE {table[t]}

\* Whoever waits for a topic is on the list of its record.
Read(t) == \A c \in Call : pc[c] = "wait" /\ on[c] = t => table[t] # None /\ c \in waiters[table[t]]

\* A message is emitted no more often than there are records that saw it.
Once == \A m \in Message : emitted[m] <= Cardinality({w \in Call : m \in seen[w]})

Arrives == Sole /\ Subscribers /\ Delivers /\ Holding /\ (\A t \in Topic \ crossed : Fed(t) /\ Read(t))

\* The subscription changes a call is in the middle of.
Changes(c, t) == pc[c] \in Busy /\ on[c] = t

\* A step that leaves the record, the subscriptions and the changes of a topic
\* alone leaves it fed as it was.
LEMMA FedStays ==
  ASSUME NEW t \in Topic, Fed(t), table'[t] = table[t], subs'[t] = subs[t],
         \A c \in subs[t] : feeds'[c] = feeds[c],
         \A c \in Call : \/ pc'[c] = pc[c] /\ on'[c] = on[c] /\ got'[c] = got[c]
                         \/ ~Changes(c, t) /\ ~Changes(c, t)'
  PROVE  Fed(t)'
<1>1. Feeders(t)' = Feeders(t)
  BY DEF Feeders
<1>2. Away(t)' <=> Away(t)
  BY DEF Away, Changes, Busy
<1>3. Found(t)'
  BY DEF Fed, Found, Changes, Busy
<1> QED BY <1>1, <1>2, <1>3 DEF Fed

\* A step that keeps the record of a topic and its waiters, but for those it
\* wakes, and sets nobody waiting for it.
LEMMA ReadStays ==
  ASSUME NEW t \in Topic, Read(t), table'[t] = table[t],
         \A c \in Call : pc'[c] = "wait" =>
            pc[c] = "wait" /\ on'[c] = on[c] /\ (c \in waiters[table[t]] => c \in waiters'[table[t]])
  PROVE  Read(t)'
  BY DEF Read

\* No step lets two calls change a topic together and says nothing of it.
LEMMA SoleKept == Typed /\ Sole /\ [Next]_vars => Sole'
<1> SUFFICES ASSUME Typed, Sole, [Next]_vars PROVE Sole'
  OBVIOUS
<1>0. TypeOK
  BY DEF Typed
<1>1. ASSUME \A d \in Call : pc'[d] \in Busy => pc[d] \in Busy /\ on'[d] = on[d],
             crossed \subseteq crossed'
      PROVE  Sole'
  BY <1>1 DEF Sole
<1>2. ASSUME NEW c \in Call, NEW t \in Topic \cup {None}, NEW where, NEW w, Begin(c, t, where, w)
      PROVE  Sole'
  <2>1. \A d \in Call : d # c => pc'[d] = pc[d] /\ on'[d] = on[d]
    BY <1>0, <1>2 DEF Begin, TypeOK
  <2>2. pc'[c] = where /\ on'[c] = t /\ crossed \subseteq crossed'
    BY <1>0, <1>2 DEF Begin, TypeOK
  <2>3. ASSUME NEW d \in Call, d # c, pc[d] \in Busy, on[d] = t, where \in Busy PROVE t \in crossed'
    BY <1>2, <2>3 DEF Begin
  <2> QED BY <2>1, <2>2, <2>3 DEF Sole
<1>3. ASSUME NEW c \in Call, NEW where, Moves(c, where), pc[c] \in Busy \/ where \notin Busy,
             crossed \subseteq crossed'
      PROVE  Sole'
  <2>1. \A d \in Call : pc'[d] \in Busy => pc[d] \in Busy /\ on'[d] = on[d]
    BY <1>0, <1>3 DEF Moves, TypeOK
  <2> QED BY <1>1, <1>3, <2>1
<1>4. ASSUME NEW m \in Message, Post(m) \/ \E c \in Call : Deliver(c, m) PROVE Sole'
  <2>1. \A d \in Call : pc'[d] = pc[d] \/ pc'[d] = "woken"
    BY <1>0, <1>4 DEF Post, Deliver, Arrived, Wake, calls, TypeOK
  <2>2. on' = on /\ crossed' = crossed
    BY <1>4 DEF Post, Deliver, calls
  <2> QED BY <1>1, <2>1, <2>2 DEF Busy
<1>5. ASSUME NEW c \in Call, Starts(c) PROVE Sole'
  BY <1>2, <1>5 DEF Starts, WatchAgain, WatchNew, WatchReplay, Unwatch, PollNow, PollWaits
<1>6. ASSUME NEW c \in Call, Unwatched(c) PROVE Sole'
  <2>1. \A d \in Call : pc'[d] = pc[d] \/ pc'[d] \in {"done", "woken"}
    BY <1>0, <1>6 DEF Unwatched, TypeOK
  <2> QED BY <1>1, <1>6, <2>1 DEF Unwatched, Busy
<1>7. ASSUME NEW c \in Call, GoesOn(c), ~Unwatched(c) PROVE Sole'
  <2>1. crossed \subseteq crossed'
    BY <1>7 DEF GoesOn, Subscribed, Unsubscribed, Resubscribed, Rejected, TimesOut, Collects
  <2>2. \E where : Moves(c, where) /\ (pc[c] \in Busy \/ where \notin Busy)
    BY <1>7 DEF GoesOn, Subscribed, Unsubscribed, Resubscribed, Rejected, TimesOut, Collects, Busy
  <2> QED BY <1>3, <2>1, <2>2
<1>8. CASE UNCHANGED vars
  BY <1>1, <1>8 DEF vars, calls
<1> QED BY <1>4, <1>5, <1>6, <1>7, <1>8 DEF Next

\* Subscriptions are made by calls as they return, and feed the record a call
\* made, or took from the table.
LEMMA SubscriptionsKept ==
  Typed /\ Subscribers /\ Delivers /\ Holding /\ [Next]_vars => Subscribers' /\ Delivers' /\ Holding'
<1> SUFFICES ASSUME Typed, Subscribers, Delivers, Holding, [Next]_vars
             PROVE  Subscribers' /\ Delivers' /\ Holding'
  OBVIOUS
<1> USE TableAssumption
<1>0. TypeOK
  BY DEF Typed
<1>1. ASSUME NEW c \in Call, Starts(c) PROVE Subscribers' /\ Delivers' /\ Holding'
  <2>1. UNCHANGED kernel
    BY <1>1 DEF Starts, WatchAgain, WatchNew, WatchReplay, Unwatch, PollNow, PollWaits
  <2>2. /\ pc[c] = "idle" /\ \A d \in Call : d # c => pc'[d] = pc[d] /\ got'[d] = got[d]
        /\ pc'[c] \in {"unsub", "resub", "drop"} => got'[c] \in Call
    BY <1>0, <1>1 DEF Starts, WatchAgain, WatchNew, WatchReplay, Unwatch, PollNow, PollWaits, Begin, TypeOK
  <2>3. Subscribers' /\ Delivers'
    BY <1>0, <2>1, <2>2 DEF Subscribers, Delivers, kernel, TypeOK
  <2> QED BY <2>2, <2>3 DEF Holding
<1>2. ASSUME NEW m \in Message, Post(m) PROVE Subscribers' /\ Delivers' /\ Holding'
  <2>1. UNCHANGED <<subs, feeds, pc, got>>
        /\ \A c \in Call : owed'[c] = owed[c] \/ c \in subs[OnTopic[m]]
    BY <1>0, <1>2 DEF Post, calls, TypeOK
  <2> QED BY <2>1 DEF Subscribers, Delivers, Holding
<1>3. ASSUME NEW m \in Message, NEW c \in Call, Deliver(c, m) PROVE Subscribers' /\ Delivers' /\ Holding'
  <2>1. \A d \in Call : pc'[d] = pc[d] \/ (pc[d] = "wait" /\ pc'[d] = "woken")
    BY <1>0, <1>3 DEF Deliver, Arrived, Wake, TypeOK
  <2>2. UNCHANGED <<subs, feeds, got>> /\ \A d \in Call : owed'[d] \subseteq owed[d]
    BY <1>0, <1>3 DEF Deliver, TypeOK
  <2> QED BY <1>0, <2>1, <2>2 DEF Subscribers, Delivers, Holding, TypeOK
<1>4. ASSUME NEW c \in Call, Subscribed(c) \/ Resubscribed(c) PROVE Subscribers' /\ Delivers' /\ Holding'
  <2>1. PICK w \in Call, backlog \in {{}, Replayed(on[c])} : Subscribe(c, on[c], w, backlog)
    BY <1>4 DEF Subscribed, Resubscribed, Holding
  <2>2. pc' = [pc EXCEPT ![c] = "done"] /\ got' = got
    BY <1>4 DEF Subscribed, Resubscribed, Moves
  <2>3. pc'[c] = "done" /\ \A d \in Call : d # c => pc'[d] = pc[d]
    BY <1>0, <2>2 DEF TypeOK
  <2>4. feeds'[c] = w /\ \A d \in Call : d # c => feeds'[d] = feeds[d] /\ owed'[d] = owed[d]
    BY <1>0, <2>1 DEF Subscribe, TypeOK
  <2>5. \A t \in Topic : subs'[t] \subseteq subs[t] \cup {c} /\ subs[t] \subseteq Call
    BY <1>0, <2>1 DEF Subscribe, TypeOK
  <2> QED BY <2>2, <2>3, <2>4, <2>5 DEF Subscribers, Delivers, Holding
<1>5. ASSUME NEW c \in Call, Unsubscribed(c) \/ Unwatched(c) PROVE Subscribers' /\ Delivers' /\ Holding'
  <2>1. /\ got' = got /\ pc[c] \in {"unsub", "drop"}
        /\ \A d \in Call : \/ pc'[d] = pc[d]
                           \/ d = c /\ pc'[d] \in {"resub", "done"}
                           \/ pc[d] = "wait" /\ pc'[d] = "woken"
    <3>1. CASE Unsubscribed(c)
      BY <1>0, <3>1 DEF Unsubscribed, Moves, TypeOK
    <3>2. CASE Unwatched(c)
      BY <1>0, <3>2 DEF Unwatched, TypeOK
    <3> QED BY <1>5, <3>1, <3>2
  <2>2. /\ UNCHANGED feeds
        /\ \A t \in Topic : subs'[t] \subseteq subs[t] /\ subs[t] \subseteq Call
        /\ \A d \in Call : owed'[d] = {} \/ owed'[d] = owed[d]
    BY <1>0, <1>5 DEF Unsubscribed, Unwatched, Unsubscribe, TypeOK
  <2>3. Subscribers' /\ Delivers'
    BY <2>1, <2>2 DEF Subscribers, Delivers
  <2> QED BY <2>1, <2>3 DEF Holding
<1>6. ASSUME NEW c \in Call, Rejected(c) \/ TimesOut(c) \/ Collects(c)
      PROVE  Subscribers' /\ Delivers' /\ Holding'
  <2>1. UNCHANGED <<subs, feeds, owed, got>>
    BY <1>6 DEF Rejected, TimesOut, Collects, Moves, kernel
  <2>2. pc[c] # "done" /\ \A d \in Call : pc'[d] = pc[d] \/ (d = c /\ pc'[d] \in {"done", "woken"})
    BY <1>0, <1>6 DEF Rejected, TimesOut, Collects, Moves, TypeOK
  <2>3. \A t \in Topic : subs[t] \subseteq Call
    BY <1>0 DEF TypeOK
  <2> QED BY <2>1, <2>2, <2>3 DEF Subscribers, Delivers, Holding
<1>7. CASE UNCHANGED vars
  BY <1>7 DEF vars, kernel, calls, Subscribers, Delivers, Holding
<1> QED BY <1>1, <1>2, <1>3, <1>4, <1>5, <1>6, <1>7 DEF Next, GoesOn

\* Unless calls meet on it, a topic is fed as listed and its pollers are known.
LEMMA FedKept ==
  ASSUME IInv, Arrives, [Next]_vars, NEW t \in Topic, t \notin crossed'
  PROVE  Fed(t)' /\ Read(t)'
<1> USE TableAssumption
<1>0. TypeOK /\ OnATopic /\ Waits /\ Sole /\ Subscribers /\ Holding
  BY DEF IInv, Typed, Arrives
<1>a. crossed \subseteq crossed'
  BY DEF Next, vars, Starts, GoesOn, Post, Deliver, WatchAgain, WatchNew, WatchReplay, Unwatch, PollNow,
     PollWaits, Begin, Subscribed, Unsubscribed, Resubscribed, Rejected, Unwatched, TimesOut, Collects
<1>b. Fed(t) /\ Read(t)
  BY <1>a DEF Arrives
<1>c. subs[t] \subseteq Call
  BY <1>0 DEF TypeOK
<1>1. ASSUME NEW m \in Message, Post(m) \/ \E c \in Call : Deliver(c, m) PROVE Fed(t)' /\ Read(t)'
  <2>1. UNCHANGED <<table, subs, feeds, on, got>>
    BY <1>1 DEF Post, Deliver, calls
  <2>2. \A c \in Call : pc'[c] = pc[c] \/ (pc[c] = "wait" /\ pc'[c] = "woken")
    BY <1>0, <1>1 DEF Post, Deliver, Arrived, Wake, calls, TypeOK
  <2>3. \A w, c \in Call : pc'[c] = "wait" /\ c \in waiters[w] => c \in waiters'[w]
    BY <1>0, <1>1 DEF Post, Deliver, Arrived, Wake, records, TypeOK
  <2>4. Fed(t)'
    <3>1. \A c \in Call : \/ pc'[c] = pc[c] /\ on'[c] = on[c] /\ got'[c] = got[c]
                          \/ ~Changes(c, t) /\ ~Changes(c, t)'
      BY <2>1, <2>2 DEF Changes, Busy
    <3> QED BY <1>b, <2>1, <3>1, FedStays
  <2>5. table[t] \in Call \/ table[t] = None
    BY <1>0 DEF TypeOK
  <2>6. Read(t)'
    BY <1>b, <2>1, <2>2, <2>3, <2>5 DEF Read
  <2> QED BY <2>4, <2>6
<1>2. ASSUME NEW c \in Call, Starts(c) PROVE Fed(t)' /\ Read(t)'
  <2>1. PICK u \in Topic \cup {None}, where \in Busy \cup {"wait", "done"}, w \in Call \cup {None} :
          /\ Begin(c, u, where, w) /\ UNCHANGED <<table, subs, feeds>>
          /\ where = "wait" => PollWaits(c, u)
          /\ where # "wait" => UNCHANGED waiters
          /\ where \in Busy => u \in Topic /\ w = IF table[u] = None THEN c ELSE table[u]
          /\ where \in Busy => (where = "sub" <=> table[u] = None) /\ where # "resub"
    BY SMTT(30), <1>0, <1>2 DEF Starts, WatchAgain, WatchNew, WatchReplay, Unwatch, PollNow, PollWaits, kernel, records, Busy, TypeOK
  <2>2. /\ pc[c] = "idle" /\ pc'[c] = where /\ on'[c] = u /\ got'[c] = w
        /\ \A d \in Call : d # c => pc'[d] = pc[d] /\ on'[d] = on[d] /\ got'[d] = got[d]
    BY <1>0, <2>1 DEF Begin, TypeOK
  <2>3. Fed(t)'
    <3>1. CASE where \in Busy /\ u = t
      <4>1. Found(t)'
        BY <1>b, <2>1, <2>2, <3>1 DEF Fed, Found, Busy
      <4>2. Away(t)' <=> Away(t)
        BY <2>1, <2>2, <3>1 DEF Away, Busy
      <4>3. Feeders(t)' = Feeders(t)
        BY <2>1 DEF Feeders
      <4> QED BY <1>b, <2>1, <4>1, <4>2, <4>3 DEF Fed
    <3>2. CASE ~(where \in Busy /\ u = t)
      <4>1. \A d \in Call : \/ pc'[d] = pc[d] /\ on'[d] = on[d] /\ got'[d] = got[d]
                            \/ ~Changes(d, t) /\ ~Changes(d, t)'
        BY <2>1, <2>2, <3>2 DEF Changes, Busy
      <4> QED BY <1>b, <2>1, <4>1, FedStays
    <3> QED BY <3>1, <3>2
  <2>4. Read(t)'
    <3>1. CASE where = "wait"
      <4>1. waiters' = [v \in Call |-> IF \E s \in Targets(u) : table[s] = v THEN waiters[v] \cup {c} ELSE waiters[v]]
            /\ (u # None => table[u] # None)
        BY <2>1, <3>1 DEF PollWaits
      <4>2. \A v \in Call : waiters[v] \subseteq waiters'[v]
        BY <4>1
      <4>3. table[t] # None => table[t] \in Call
        BY <1>0 DEF TypeOK
      <4>4. u = t => table[t] # None /\ c \in waiters'[table[t]]
        BY <4>1, <4>3 DEF Targets
      <4> QED BY <1>b, <2>1, <2>2, <4>2, <4>3, <4>4 DEF Read
    <3>2. CASE where # "wait"
      BY <1>b, <2>1, <2>2, <3>2 DEF Read
    <3> QED BY <3>1, <3>2
  <2> QED BY <2>3, <2>4
<1>3. ASSUME NEW c \in Call, TimesOut(c) \/ Collects(c) PROVE Fed(t)' /\ Read(t)'
  <2>1. UNCHANGED <<table, subs, feeds, waiters, on, got>>
    BY <1>3 DEF TimesOut, Collects, Moves, kernel, records
  <2>2. \A d \in Call : pc'[d] = pc[d] \/ (d = c /\ pc[d] \in {"wait", "woken"} /\ pc'[d] \in {"woken", "done"})
    BY <1>0, <1>3 DEF TimesOut, Collects, Moves, TypeOK
  <2>3. Fed(t)'
    <3>1. \A d \in Call : \/ pc'[d] = pc[d] /\ on'[d] = on[d] /\ got'[d] = got[d]
                          \/ ~Changes(d, t) /\ ~Changes(d, t)'
      BY <2>1, <2>2 DEF Changes, Busy
    <3> QED BY <1>b, <2>1, <3>1, FedStays
  <2> QED BY <1>b, <2>1, <2>2, <2>3 DEF Read
<1>4. ASSUME NEW c \in Call, pc[c] \in Busy, on[c] # t, UNCHANGED <<on, got>>, table'[t] = table[t],
             \A d \in Call : d # c => pc'[d] = pc[d] \/ (pc[d] = "wait" /\ pc'[d] = "woken"),
             pc'[c] # "wait", subs'[t] = subs[t], \A d \in subs[t] : feeds'[d] = feeds[d],
             \A d \in Call : pc'[d] = "wait" /\ d \in waiters[table[t]] => d \in waiters'[table[t]]
      PROVE  Fed(t)' /\ Read(t)'
  <2>1. Fed(t)'
    <3>1. \A d \in Call : \/ pc'[d] = pc[d] /\ on'[d] = on[d] /\ got'[d] = got[d]
                          \/ ~Changes(d, t) /\ ~Changes(d, t)'
      BY <1>4 DEF Changes, Busy
    <3> QED BY <1>b, <1>4, <3>1, FedStays
  <2>2. Read(t)'
    <3>1. \A d \in Call : pc'[d] = "wait" =>
            pc[d] = "wait" /\ on'[d] = on[d] /\ (d \in waiters[table[t]] => d \in waiters'[table[t]])
      BY <1>4
    <3> QED BY <1>b, <1>4, <3>1, ReadStays
  <2> QED BY <2>1, <2>2
<1>5. ASSUME NEW c \in Call, pc[c] \in Busy, on[c] = t
      PROVE  /\ \A d \in Call : d # c => ~Changes(d, t)
             /\ pc[c] = "sub" => table[t] = None
             /\ pc[c] \in {"unsub", "resub", "drop"} => table[t] = got[c] /\ got[c] \in Call
  <2>1. \A d \in Call : d # c => ~Changes(d, t)
    BY <1>0, <1>a, <1>5 DEF Sole, Changes
  <2>2. /\ pc[c] = "sub" => table[t] = None
        /\ pc[c] \in {"unsub", "resub", "drop"} => table[t] = got[c]
    BY <1>b, <1>5 DEF Fed, Found
  <2>3. pc[c] \in {"unsub", "resub", "drop"} => got[c] \in Call
    BY <1>0 DEF Holding
  <2> QED BY <2>1, <2>2, <2>3
<1>6. ASSUME NEW c \in Call, Subscribed(c) PROVE Fed(t)' /\ Read(t)'
  <2>1. /\ pc[c] = "sub" /\ pc'[c] = "done" /\ UNCHANGED <<on, got, waiters>>
        /\ \A d \in Call : d # c => pc'[d] = pc[d]
    BY <1>0, <1>6 DEF Subscribed, Moves, records, TypeOK
  <2>2. /\ feeds'[c] = c /\ \A d \in Call : d # c => feeds'[d] = feeds[d]
        /\ on[c] # t => subs'[t] = subs[t] /\ table'[t] = table[t]
        /\ on[c] = t => subs'[t] = subs[t] \cup {c} /\ table'[t] = c
    BY <1>0, <1>6 DEF Subscribed, Subscribe, TypeOK
  <2>3. c \notin subs[t]
    BY <1>0, <2>1 DEF Subscribers
  <2>4. CASE on[c] # t
    BY <1>4, <1>c, <2>1, <2>2, <2>3, <2>4 DEF Busy
  <2>5. CASE on[c] = t
    <3>1. table[t] = None /\ \A d \in Call : d # c => ~Changes(d, t)
      BY <1>5, <2>1, <2>5 DEF Busy
    <3>2. subs[t] = {}
      BY <1>b, <3>1 DEF Fed, Feeders
    <3>3. Feeders(t)' = {c}
      BY <2>2, <2>5, <3>2 DEF Feeders
    <3>4. ~Away(t)' /\ Found(t)'
      BY <2>1, <3>1 DEF Away, Found, Changes, Busy
    <3>5. c # None
      OBVIOUS
    <3>6. Fed(t)'
      BY <2>2, <2>5, <3>3, <3>4, <3>5 DEF Fed
    <3>7. Read(t)'
      BY <1>b, <2>1, <3>1 DEF Read
    <3> QED BY <3>6, <3>7
  <2> QED BY <2>4, <2>5
<1>7. ASSUME NEW c \in Call, Unsubscribed(c) PROVE Fed(t)' /\ Read(t)'
  <2>1. /\ pc[c] = "unsub" /\ pc'[c] = "resub" /\ UNCHANGED <<on, got, waiters, table, feeds>>
        /\ \A d \in Call : d # c => pc'[d] = pc[d]
    BY <1>0, <1>7 DEF Unsubscribed, Unsubscribe, Moves, records, TypeOK
  <2>2. /\ on[c] # t => subs'[t] = subs[t]
        /\ on[c] = t => subs'[t] = {}
    BY <1>0, <1>7 DEF Unsubscribed, Unsubscribe, TypeOK
  <2>3. CASE on[c] # t
    BY <1>4, <1>c, <2>1, <2>2, <2>3 DEF Busy
  <2>4. CASE on[c] = t
    <3>1. table[t] = got[c] /\ \A d \in Call : d # c => ~Changes(d, t)
      BY <1>5, <2>1, <2>4 DEF Busy
    <3>2. Feeders(t)' = {} /\ Away(t)' /\ Found(t)'
      BY <2>1, <2>2, <2>4, <3>1 DEF Feeders, Away, Found, Changes, Busy
    <3>3. Read(t)'
      BY <1>b, <2>1 DEF Read
    <3> QED BY <3>2, <3>3 DEF Fed
  <2> QED BY <2>3, <2>4
<1>9. ASSUME NEW c \in Call, Resubscribed(c) PROVE Fed(t)' /\ Read(t)'
  <2>1. /\ pc[c] = "resub" /\ pc'[c] = "done" /\ UNCHANGED <<on, got, waiters, table>>
        /\ \A d \in Call : d # c => pc'[d] = pc[d]
    BY <1>0, <1>9 DEF Resubscribed, Moves, records, TypeOK
  <2>2. /\ feeds'[c] = got[c] /\ \A d \in Call : d # c => feeds'[d] = feeds[d]
        /\ on[c] # t => subs'[t] = subs[t]
        /\ on[c] = t => subs'[t] = subs[t] \cup {c}
    BY <1>0, <1>9 DEF Resubscribed, Subscribe, TypeOK
  <2>3. c \notin subs[t]
    BY <1>0, <2>1 DEF Subscribers
  <2>4. CASE on[c] # t
    BY <1>4, <1>c, <2>1, <2>2, <2>3, <2>4 DEF Busy
  <2>5. CASE on[c] = t
    <3>1. table[t] = got[c] /\ got[c] \in Call /\ \A d \in Call : d # c => ~Changes(d, t)
      BY <1>5, <2>1, <2>5 DEF Busy
    <3>2. subs[t] = {}
      <4>1. Away(t)
        BY <2>1, <2>5 DEF Away
      <4>2. Feeders(t) = {}
        BY <1>b, <4>1 DEF Fed
      <4> QED BY <4>2 DEF Feeders
    <3>3. Feeders(t)' = {table[t]}
      BY <2>2, <2>5, <3>1, <3>2 DEF Feeders
    <3>4. ~Away(t)' /\ Found(t)'
      BY <2>1, <3>1 DEF Away, Found, Changes, Busy
    <3>5. table[t] # None
      BY <3>1
    <3>6. Fed(t)'
      BY <2>1, <3>3, <3>4, <3>5 DEF Fed
    <3>7. Read(t)'
      BY <1>b, <2>1 DEF Read
    <3> QED BY <3>6, <3>7
  <2> QED BY <2>4, <2>5
<1>10. ASSUME NEW c \in Call, Rejected(c) PROVE Fed(t)' /\ Read(t)'
  <2>1. /\ pc[c] \in {"sub", "resub"} /\ pc'[c] = "done"
        /\ UNCHANGED <<on, got, waiters, table, subs, feeds>>
        /\ \A d \in Call : d # c => pc'[d] = pc[d]
    BY <1>0, <1>10 DEF Rejected, Moves, records, kernel, TypeOK
  <2>2. CASE on[c] # t
    BY <1>4, <1>c, <2>1, <2>2 DEF Busy
  <2>3. CASE on[c] = t
    <3>1. pc[c] = "sub"
      BY <1>10, <2>1, <2>3 DEF Rejected
    <3>2. table[t] = None /\ \A d \in Call : d # c => ~Changes(d, t)
      BY <1>5, <2>3, <3>1 DEF Busy
    <3>3. Found(t)' /\ Feeders(t)' = Feeders(t)
      BY <2>1, <3>2 DEF Found, Changes, Busy, Feeders
    <3>4. Fed(t)'
      BY <1>b, <2>1, <3>2, <3>3 DEF Fed
    <3>5. Read(t)'
      BY <1>b, <2>1 DEF Read
    <3> QED BY <3>4, <3>5
  <2> QED BY <2>2, <2>3
<1>11. ASSUME NEW c \in Call, Unwatched(c) PROVE Fed(t)' /\ Read(t)'
  <2>1. /\ pc[c] = "drop" /\ pc'[c] = "done" /\ UNCHANGED <<on, got, feeds>>
        /\ \A d \in Call : d # c => pc'[d] = IF d \in waiters[got[c]] /\ pc[d] = "wait" THEN "woken" ELSE pc[d]
    BY <1>0, <1>11 DEF Unwatched, Unsubscribe, TypeOK
  <2>2. waiters' = [waiters EXCEPT ![got[c]] = {}] /\ got[c] \in Call
    BY <1>0, <1>11, <2>1 DEF Unwatched, Holding
  <2>3. /\ on[c] # t => subs'[t] = subs[t] /\ table'[t] = table[t]
        /\ on[c] = t => subs'[t] = {} /\ table'[t] = None
    BY <1>0, <1>11 DEF Unwatched, Unsubscribe, TypeOK
  <2>4. CASE on[c] # t
    <3>1. \A d \in Call : pc'[d] = "wait" /\ d \in waiters[table[t]] => d \in waiters'[table[t]]
      BY <1>0, <2>1, <2>2 DEF TypeOK
    <3> QED BY <1>4, <1>c, <2>1, <2>3, <2>4, <3>1 DEF Busy
  <2>5. CASE on[c] = t
    <3>1. table[t] = got[c] /\ \A d \in Call : d # c => ~Changes(d, t)
      BY <1>5, <2>1, <2>5 DEF Busy
    <3>2. Feeders(t)' = {}
      BY <2>3, <2>5 DEF Feeders
    <3>3. Found(t)'
      BY <2>1, <3>1 DEF Found, Changes, Busy
    <3>4. Fed(t)'
      BY <2>3, <2>5, <3>2, <3>3 DEF Fed
    <3>5. \A d \in Call : ~(pc'[d] = "wait" /\ on'[d] = t)
      BY <1>b, <2>1, <3>1 DEF Read
    <3> QED BY <3>4, <3>5 DEF Read
  <2> QED BY <2>4, <2>5
<1>8. CASE UNCHANGED vars
  <2>1. UNCHANGED <<table, subs, feeds, waiters, pc, on, got>>
    BY <1>8 DEF vars, kernel, records, calls
  <2>2. Fed(t)'
    <3>1. \A d \in Call : pc'[d] = pc[d] /\ on'[d] = on[d] /\ got'[d] = got[d]
      BY <2>1
    <3> QED BY <1>b, <2>1, <3>1, FedStays
  <2> QED BY <1>b, <2>1, <2>2 DEF Read
<1> QED BY <1>1, <1>2, <1>3, <1>6, <1>7, <1>8, <1>9, <1>10, <1>11 DEF Next, GoesOn

\* A count that grows by one at most stays within a bound that grows by one.
LEMMA AtMostOneMore ==
  ASSUME NEW e \in Nat, NEW k \in Nat, NEW n, e <= k, n = e \/ n = e + 1
  PROVE  n <= k + 1
  OBVIOUS

\* Every emission is a first sight of one more record.
LEMMA OnceKept == Typed /\ Delivers /\ Once /\ [Next]_vars => Once'
<1> SUFFICES ASSUME Typed, Delivers, Once, [Next]_vars, NEW m \in Message
             PROVE  emitted'[m] <= Cardinality({w \in Call : m \in seen'[w]})
  BY DEF Once
<1> DEFINE Saw == {w \in Call : m \in seen[w]}
<1>0. TypeOK
  BY DEF Typed
<1>1. IsFiniteSet(Saw) /\ Cardinality(Saw) \in Nat /\ emitted[m] <= Cardinality(Saw)
  <2>1. IsFiniteSet(Saw)
    BY TableAssumption, FS_Subset
  <2> QED BY <2>1, FS_CardinalityType DEF Once
<1>2. CASE UNCHANGED <<seen, emitted>>
  BY <1>1, <1>2
<1>3. ASSUME NEW n \in Message, NEW c \in Call, Deliver(c, n)
      PROVE  emitted'[m] <= Cardinality({w \in Call : m \in seen'[w]})
  <2> DEFINE f == feeds[c]
  <2>1. /\ f \in Call /\ seen' = [seen EXCEPT ![f] = @ \cup {n}]
        /\ emitted' = IF n \in seen[f] \/ emitted[n] = 2 THEN emitted ELSE [emitted EXCEPT ![n] = @ + 1]
    BY <1>3 DEF Deliver, Emit, Delivers
  <2>2. CASE n = m /\ f \notin Saw
    <3>1. {w \in Call : m \in seen'[w]} = Saw \cup {f}
      BY <1>0, <2>1, <2>2 DEF TypeOK
    <3>2. Cardinality(Saw \cup {f}) = Cardinality(Saw) + 1
      BY <1>1, <2>2, FS_AddElement
    <3>3. emitted'[m] = emitted[m] \/ emitted'[m] = emitted[m] + 1
      BY <1>0, <2>1, <2>2 DEF TypeOK
    <3>4. emitted[m] \in Nat
      BY <1>0 DEF TypeOK
    <3> HIDE DEF Saw
    <3>5. emitted'[m] <= Cardinality(Saw) + 1
      BY <1>1, <3>3, <3>4, AtMostOneMore
    <3> QED BY <3>1, <3>2, <3>5
  <2>3. CASE n # m \/ f \in Saw
    <3>1. {w \in Call : m \in seen'[w]} = Saw
      BY <1>0, <2>1, <2>3 DEF TypeOK
    <3>2. emitted'[m] = emitted[m]
      BY <1>0, <2>1, <2>3 DEF TypeOK
    <3> QED BY <1>1, <3>1, <3>2
  <2> QED BY <2>2, <2>3
<1>4. UNCHANGED <<seen, emitted>> \/ \E n \in Message, c \in Call : Deliver(c, n)
  BY DEF Next, vars, Starts, GoesOn, Post, WatchAgain, WatchNew, WatchReplay, Unwatch, PollNow,
     PollWaits, Subscribed, Unsubscribed, Resubscribed, Rejected, Unwatched, TimesOut, Collects, records
<1> QED BY <1>2, <1>3, <1>4

\* A session whose table is empty has nobody to feed.
LEMMA InitArrives == Init => Arrives /\ Once
<1> SUFFICES ASSUME Init PROVE Arrives /\ Once
  OBVIOUS
<1>1. Sole /\ Subscribers /\ Delivers /\ Holding
  BY DEF Init, Sole, Subscribers, Delivers, Holding, Busy
<1>2. \A t \in Topic : Fed(t) /\ Read(t)
  BY DEF Init, Fed, Found, Feeders, Read
<1>3. Once
  <2>1. \A m \in Message : {w \in Call : m \in seen[w]} = {} /\ emitted[m] = 0
    BY DEF Init
  <2> QED BY SMTT(30), <2>1, FS_EmptySet DEF Once
<1> QED BY <1>1, <1>2, <1>3 DEF Arrives

\* The listed watch is the one that is fed, nobody waits for a topic that is
\* not watched, and a message wakes an agent once.
THEOREM ArrivalsAreRead == Spec => []ArrivalsFindReaders
<1>1. IInv /\ Arrives /\ Once /\ [Next]_vars => Arrives' /\ Once'
  <2> SUFFICES ASSUME IInv, Arrives, Once, [Next]_vars PROVE Arrives' /\ Once'
    OBVIOUS
  <2>1. Sole' /\ Subscribers' /\ Delivers' /\ Holding' /\ Once'
    BY SoleKept, SubscriptionsKept, OnceKept DEF IInv, Arrives
  <2>2. \A t \in Topic \ crossed' : Fed(t)' /\ Read(t)'
    BY FedKept
  <2> QED BY <2>1, <2>2 DEF Arrives
<1>2. IInv /\ Arrives /\ Once => ArrivalsFindReaders
  <2> SUFFICES ASSUME IInv, Arrives, Once PROVE ArrivalsFindReaders
    OBVIOUS
  <2>1. ListedIsFed
    BY DEF Arrives, Fed, Feeders, Away, ListedIsFed, Quiet, Busy
  <2>2. WaitsForAWatch
    BY DEF IInv, Typed, TypeOK, Arrives, Read, WaitsForAWatch
  <2>3. InboxOnce
    BY DEF Once, InboxOnce
  <2> QED BY <2>1, <2>2, <2>3 DEF ArrivalsFindReaders
<1> QED BY InitArrives, Invariance, <1>1, <1>2, PTL DEF Spec

=============================================================================
