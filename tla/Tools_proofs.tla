----------------------------- MODULE Tools_proofs -----------------------------
(***************************************************************************)
(* Theorems of the parts that run "tools" checks side by side, each over   *)
(* its own variables: a step of the composition is a step of one part and  *)
(* a stutter of the others, so an inductive invariant of a part is one of  *)
(* the composition.  Here the parts that act: WatchLife on its own, for    *)
(* every set of message ids and every cap; then arming, the channel host,  *)
(* the way to a network, what waits for an agent, the posting scripts, and *)
(* reading back before a close.  Views_proofs has the parts that show and  *)
(* judge.                                                                  *)
(*                                                                         *)
(* WatchLife's argument.  A delivery that is not a duplicate appends one   *)
(* message to the history and to the buffer and may move the front by one; *)
(* a poll moves the front by what it takes.  So the buffer is at all times *)
(* the tail of the history, and the counters measure where it starts.      *)
(***************************************************************************)
EXTENDS MCTools, FiniteSetTheorems, TLAPS


-----------------------------------------------------------------------------
(* What the operators on a watch record do *)

\* Noting a first sight counts it once and touches nothing a poll can see.
LEMMA RememberType ==
  ASSUME NEW r \in Watch, NEW id \in Msg
  PROVE  /\ Remember(r, id) \in Watch
         /\ Remember(r, id).buffer = r.buffer
         /\ Remember(r, id).total = r.total + 1
         /\ Remember(r, id).replayed = r.replayed
         /\ Remember(r, id).drained = r.drained
         /\ Remember(r, id).dropped = r.dropped
<1> DEFINE queue == Append(r.seenOrder, id)
<1>1. r.total + 1 \in Nat /\ r.seen \in SUBSET Id /\ r.seenOrder \in Seq(Id)
  BY DEF Watch
<1>2. CASE id = NoId
  <2>1. Remember(r, id) = [r EXCEPT !.total = @ + 1]
    BY <1>2 DEF Remember
  <2>2. QED
    BY <1>1, <2>1 DEF Watch
<1>3. CASE id # NoId
  <2>1. id \in Id /\ queue \in Seq(Id) /\ queue # <<>>
    BY <1>1, <1>3 DEF Msg
  <2>2. Tail(queue) \in Seq(Id) /\ r.seen \cup {id} \in SUBSET Id
        /\ (r.seen \cup {id}) \ {Head(queue)} \in SUBSET Id
    BY <1>1, <2>1
  <2>3. CASE Len(queue) > SeenCap
    <3>1. Remember(r, id) = [r EXCEPT !.total = @ + 1, !.seenOrder = Tail(queue),
                                      !.seen = (@ \cup {id}) \ {Head(queue)}]
      BY <1>3, <2>3 DEF Remember
    <3> HIDE DEF queue
    <3>2. QED
      BY <1>1, <2>2, <3>1 DEF Watch
  <2>4. CASE ~(Len(queue) > SeenCap)
    <3>1. Remember(r, id) = [r EXCEPT !.total = @ + 1, !.seenOrder = queue, !.seen = @ \cup {id}]
      BY <1>3, <2>4 DEF Remember
    <3> HIDE DEF queue
    <3>2. QED
      BY <1>1, <2>1, <2>2, <3>1 DEF Watch
  <2>5. QED
    BY <2>3, <2>4
<1>4. QED
  BY <1>2, <1>3

\* A message that enters goes to the end; over the cap the front moves by one.
LEMMA PushType ==
  ASSUME NEW r \in Watch, NEW id \in Msg, Len(r.buffer) <= BufferCap
  PROVE  /\ Push(r, id) \in Watch
         /\ Len(Push(r, id).buffer) <= BufferCap
         /\ Push(r, id).drained = r.drained
         /\ Push(r, id).total = r.total
         /\ Push(r, id).replayed = r.replayed
         /\ Push(r, id).seen = r.seen
         /\ Push(r, id).seenOrder = r.seenOrder
         /\ \/ /\ Push(r, id).buffer = Append(r.buffer, id)
               /\ Push(r, id).dropped = r.dropped
            \/ /\ Push(r, id).buffer = Tail(Append(r.buffer, id))
               /\ Push(r, id).dropped = r.dropped + 1
<1> DEFINE b == Append(r.buffer, id)
<1>1. /\ r.buffer \in Seq(Msg) /\ r.dropped + 1 \in Nat /\ BufferCap \in Nat
  BY WatchAssumption DEF Watch
<1>2. b \in Seq(Msg) /\ Len(b) = Len(r.buffer) + 1 /\ b # <<>>
  BY <1>1
<1>3. CASE Len(b) > BufferCap
  <2>1. Push(r, id) = [r EXCEPT !.buffer = Tail(b), !.dropped = @ + 1]
    BY <1>3 DEF Push
  <2>2. Tail(b) \in Seq(Msg) /\ Len(Tail(b)) <= BufferCap
    BY <1>1, <1>2
  <2> HIDE DEF b
  <2>3. QED
    BY <1>1, <2>1, <2>2 DEF Watch, b
<1>4. CASE ~(Len(b) > BufferCap)
  <2>1. Push(r, id) = [r EXCEPT !.buffer = b]
    BY <1>4 DEF Push
  <2>2. Len(b) <= BufferCap
    BY <1>1, <1>2, <1>4
  <2> HIDE DEF b
  <2>3. QED
    BY <1>1, <1>2, <2>1, <2>2 DEF Watch, b
<1>5. QED
  BY <1>3, <1>4

\* A delivery that is not a duplicate is one first sight or one refill, then a push.
LEMMA DeliverType ==
  ASSUME NEW r \in Watch, NEW id \in Msg, Len(r.buffer) <= BufferCap, ~Duplicate(r, id)
  PROVE  LET d == Deliver(r, id) IN
         /\ d \in Watch
         /\ Len(d.buffer) <= BufferCap
         /\ d.drained = r.drained
         /\ d.total + d.replayed = r.total + r.replayed + 1
         /\ d.total = (IF Known(r, id) THEN r.total ELSE r.total + 1)
         /\ \/ d.buffer = Append(r.buffer, id) /\ d.dropped = r.dropped
            \/ d.buffer = Tail(Append(r.buffer, id)) /\ d.dropped = r.dropped + 1
         /\ d.seen = (IF Known(r, id) THEN r.seen ELSE Remember(r, id).seen)
         /\ d.seenOrder = (IF Known(r, id) THEN r.seenOrder ELSE Remember(r, id).seenOrder)
<1> DEFINE c == [r EXCEPT !.replayed = @ + 1]
           d == Deliver(r, id)
<1> HIDE DEF d
<1> SUFFICES
         /\ d \in Watch
         /\ Len(d.buffer) <= BufferCap
         /\ d.drained = r.drained
         /\ d.total + d.replayed = r.total + r.replayed + 1
         /\ d.total = (IF Known(r, id) THEN r.total ELSE r.total + 1)
         /\ \/ d.buffer = Append(r.buffer, id) /\ d.dropped = r.dropped
            \/ d.buffer = Tail(Append(r.buffer, id)) /\ d.dropped = r.dropped + 1
         /\ d.seen = (IF Known(r, id) THEN r.seen ELSE Remember(r, id).seen)
         /\ d.seenOrder = (IF Known(r, id) THEN r.seenOrder ELSE Remember(r, id).seenOrder)
  BY DEF d
<1>1. r.replayed + 1 \in Nat /\ r.total \in Nat /\ r.replayed \in Nat
  BY DEF Watch
<1>2. CASE Known(r, id)
  <2>1. /\ c \in Watch /\ c.buffer = r.buffer /\ c.drained = r.drained
        /\ c.dropped = r.dropped /\ c.total = r.total /\ c.replayed = r.replayed + 1
        /\ c.seen = r.seen /\ c.seenOrder = r.seenOrder
    BY <1>1 DEF Watch
  <2>2. Deliver(r, id) = Push(c, id)
    BY <1>2 DEF Deliver
  <2> HIDE DEF c
  <2>3. Len(c.buffer) <= BufferCap
    BY <2>1
  <2>4. /\ d \in Watch /\ Len(d.buffer) <= BufferCap /\ d.drained = c.drained
        /\ d.total = c.total /\ d.replayed = c.replayed
        /\ d.seen = c.seen /\ d.seenOrder = c.seenOrder
        /\ \/ d.buffer = Append(c.buffer, id) /\ d.dropped = c.dropped
           \/ d.buffer = Tail(Append(c.buffer, id)) /\ d.dropped = c.dropped + 1
    BY <2>1, <2>2, <2>3, PushType DEF d
  <2>5. d.total + d.replayed = r.total + r.replayed + 1
    BY <1>1, <2>1, <2>4
  <2>6. QED
    BY <1>2, <2>1, <2>4, <2>5
<1>3. CASE ~Known(r, id)
  <2> DEFINE m == Remember(r, id)
  <2>1. Deliver(r, id) = Push(m, id)
    BY <1>3 DEF Deliver, Duplicate
  <2>2. /\ m \in Watch /\ m.buffer = r.buffer /\ m.total = r.total + 1
        /\ m.replayed = r.replayed /\ m.drained = r.drained /\ m.dropped = r.dropped
    BY RememberType
  <2> HIDE DEF m
  <2>3. Len(m.buffer) <= BufferCap
    BY <2>2
  <2>4. /\ d \in Watch /\ Len(d.buffer) <= BufferCap /\ d.drained = m.drained
        /\ d.total = m.total /\ d.replayed = m.replayed
        /\ d.seen = m.seen /\ d.seenOrder = m.seenOrder
        /\ \/ d.buffer = Append(m.buffer, id) /\ d.dropped = m.dropped
           \/ d.buffer = Tail(Append(m.buffer, id)) /\ d.dropped = m.dropped + 1
    <3>1. d = Push(m, id)
      BY <2>1 DEF d
    <3>2. m \in Watch /\ Len(m.buffer) <= BufferCap
      BY <2>2, <2>3
    <3>3. QED
      BY <3>1, <3>2, PushType
  <2>5. d.total + d.replayed = r.total + r.replayed + 1
    BY <1>1, <2>2, <2>4
  <2>6. QED
    BY <1>3, <2>2, <2>4, <2>5 DEF m
<1>4. QED
  BY <1>2, <1>3

\* A poll never takes more than there is.
LEMMA TakenBound ==
  ASSUME NEW r \in Watch, NEW max \in Nat
  PROVE  Taken(r, max) \in 0 .. Len(r.buffer)
<1>1. Len(r.buffer) \in Nat
  BY DEF Watch
<1>2. QED
  BY <1>1 DEF Taken

\* A poll of k messages moves the front by k and leaves the rest as it was.
LEMMA CollectType ==
  ASSUME NEW r \in Watch, NEW k \in 0 .. Len(r.buffer)
  PROVE  LET c == Collect(r, k) IN
         /\ c \in Watch
         /\ Len(c.buffer) = Len(r.buffer) - k
         /\ \A i \in 1 .. Len(c.buffer) : c.buffer[i] = r.buffer[i + k]
         /\ c.drained = r.drained + k
         /\ c.dropped = r.dropped /\ c.total = r.total /\ c.replayed = r.replayed
         /\ c.seen = r.seen /\ c.seenOrder = r.seenOrder
<1> DEFINE b == SubSeq(r.buffer, k + 1, Len(r.buffer))
<1>1. r.buffer \in Seq(Msg) /\ Len(r.buffer) \in Nat /\ r.drained + k \in Nat
  BY DEF Watch
<1>2. /\ b \in Seq(Msg) /\ Len(b) = Len(r.buffer) - k
      /\ \A i \in 1 .. Len(b) : b[i] = r.buffer[i + k]
  BY <1>1
<1> HIDE DEF b
<1>3. Collect(r, k) = [r EXCEPT !.buffer = b, !.drained = @ + k]
  BY DEF Collect, b
<1>4. QED
  BY <1>1, <1>2, <1>3 DEF Watch

-----------------------------------------------------------------------------
(* What a watch remembers *)

\* No id stands in s twice.
Once(s) == \A i, j \in DOMAIN s : s[i] = s[j] /\ s[i] # NoId => i = j

\* One message more at the end, and perhaps one less at the front.
LEMMA AppendOnce ==
  ASSUME NEW S, NEW s \in Seq(S), NEW x \in S, NEW t, t = Append(s, x) \/ t = Tail(Append(s, x)),
         Once(s), x = NoId \/ x \notin Elems(s)
  PROVE  Once(t) /\ Elems(t) \subseteq Elems(s) \cup {x}
<1> DEFINE b == Append(s, x)
<1>1. /\ b \in Seq(S) /\ Len(b) = Len(s) + 1 /\ Len(s) \in Nat /\ DOMAIN s = 1 .. Len(s)
      /\ DOMAIN b = 1 .. Len(s) + 1 /\ b[Len(s) + 1] = x /\ \A i \in 1 .. Len(s) : b[i] = s[i]
  OBVIOUS
<1> HIDE DEF b
<1>2. \A i \in DOMAIN b : i = Len(s) + 1 \/ i \in DOMAIN s
  BY <1>1
<1>3. Once(b) /\ Elems(b) \subseteq Elems(s) \cup {x}
  BY <1>1, <1>2 DEF Once, Elems
<1>4. CASE t = Tail(b)
  <2>0. b # <<>>
    BY <1>1
  <2>1. t \in Seq(S) /\ Len(t) = Len(b) - 1 /\ DOMAIN t = 1 .. Len(t) /\ \A i \in 1 .. Len(t) : t[i] = b[i + 1]
    <3>1. Tail(b) \in Seq(S) /\ Len(Tail(b)) = Len(b) - 1 /\ DOMAIN Tail(b) = 1 .. Len(Tail(b))
      BY <1>1, <2>0
    <3>2. \A i \in 1 .. Len(Tail(b)) : Tail(b)[i] = b[i + 1]
      BY <1>1, <2>0, <3>1
    <3> QED BY <1>4, <3>1, <3>2
  <2>2. ASSUME NEW i \in DOMAIN t PROVE i \in Nat /\ i + 1 \in DOMAIN b /\ t[i] = b[i + 1]
    <3>0. i \in 1 .. Len(t)
      BY <2>1, <2>2, Zenon
    <3>1. Len(t) = Len(s) /\ i \in 1 .. Len(t) /\ Len(s) \in Nat
      <4>1. Len(b) = Len(s) + 1 /\ Len(s) \in Nat /\ Len(t) = Len(b) - 1
        BY <1>1, <2>1
      <4> QED BY <3>0, <4>1
    <3>2. i \in Nat /\ i + 1 \in 1 .. Len(s) + 1
      BY <3>1
    <3> QED BY <1>1, <2>1, <3>1, <3>2
  <2>3. ASSUME NEW i \in DOMAIN t, NEW j \in DOMAIN t, t[i] = t[j], t[i] # NoId PROVE i = j
    <3>1. i + 1 = j + 1
      BY <1>3, <2>2, <2>3 DEF Once
    <3> QED BY <2>2, <3>1
  <2>4. Elems(t) \subseteq Elems(b)
    BY <2>2 DEF Elems
  <2> QED BY <1>3, <2>3, <2>4 DEF Once
<1> QED BY <1>3, <1>4 DEF b

\* A poll of k messages leaves no more than there was.
LEMMA RestOnce ==
  ASSUME NEW S, NEW s \in Seq(S), NEW t \in Seq(S), NEW k \in Nat, Len(t) = Len(s) - k,
         \A i \in 1 .. Len(t) : t[i] = s[i + k]
  PROVE  Elems(t) \subseteq Elems(s) /\ (Once(s) => Once(t))
<1>1. DOMAIN s = 1 .. Len(s) /\ DOMAIN t = 1 .. Len(t) /\ Len(s) \in Nat /\ Len(t) \in Nat
  OBVIOUS
<1>2. \A i \in DOMAIN t : i \in Nat /\ i + k \in DOMAIN s /\ t[i] = s[i + k]
  BY <1>1
<1>3. ASSUME Once(s), NEW i \in DOMAIN t, NEW j \in DOMAIN t, t[i] = t[j], t[i] # NoId PROVE i = j
  <2>1. i + k = j + k
    BY <1>2, <1>3 DEF Once
  <2> QED BY <1>2, <2>1
<1>4. Elems(t) \subseteq Elems(s)
  BY <1>2 DEF Elems
<1> QED BY <1>3, <1>4 DEF Once

\* A list without repetition is as long as it has members.
LEMMA OnceCounts ==
  ASSUME NEW s \in Seq(Id), Once(s)
  PROVE  IsFiniteSet(Elems(s)) /\ Cardinality(Elems(s)) = Len(s)
<1>1. Len(s) \in Nat /\ DOMAIN s = 1 .. Len(s) /\ \A i \in 1 .. Len(s) : s[i] # NoId
  BY WatchAssumption
<1>2. s \in Bijection(1 .. Len(s), Elems(s))
  <2>1. s \in [1 .. Len(s) -> Elems(s)]
    BY <1>1 DEF Elems
  <2>2. \A i, j \in 1 .. Len(s) : s[i] = s[j] => i = j
    BY <1>1 DEF Once
  <2>3. \A e \in Elems(s) : \E i \in 1 .. Len(s) : s[i] = e
    BY <1>1 DEF Elems
  <2> QED BY <2>1, <2>2, <2>3 DEF Bijection, Injection, Surjection, IsInjective
<1>3. IsFiniteSet(1 .. Len(s)) /\ Cardinality(1 .. Len(s)) = Len(s)
  BY <1>1, FS_Interval
<1> QED BY <1>2, <1>3, FS_Bijection DEF ExistsBijection

\* A first sight enters the memory, and over the cap the oldest id leaves it.
LEMMA RememberOnce ==
  ASSUME NEW r \in Watch, NEW id \in Id, id \notin r.seen, r.seen = Elems(r.seenOrder),
         Once(r.seenOrder), Len(r.seenOrder) <= SeenCap
  PROVE  LET m == Remember(r, id) IN
         /\ m.seen = Elems(m.seenOrder) /\ Once(m.seenOrder) /\ Len(m.seenOrder) <= SeenCap
         /\ m.seen \subseteq r.seen \cup {id}
         /\ Len(r.seenOrder) = SeenCap \/ m.seen = r.seen \cup {id}
<1> DEFINE queue == Append(r.seenOrder, id)
           m == Remember(r, id)
<1>1. r.seenOrder \in Seq(Id) /\ Len(r.seenOrder) \in Nat /\ id # NoId /\ SeenCap \in Nat \ {0}
  BY WatchAssumption DEF Watch
<1>2. /\ queue \in Seq(Id) /\ Len(queue) = Len(r.seenOrder) + 1 /\ DOMAIN queue = 1 .. Len(queue)
      /\ queue[Len(queue)] = id /\ \A i \in DOMAIN r.seenOrder : i \in DOMAIN queue /\ queue[i] = r.seenOrder[i]
  BY <1>1
<1>3. Elems(queue) = r.seen \cup {id}
  BY <1>1, <1>2 DEF Elems
<1>4. Once(queue) /\ Once(Tail(queue))
  <2>1. id \notin Elems(r.seenOrder)
    OBVIOUS
  <2>2. ASSUME NEW t, t = Append(r.seenOrder, id) \/ t = Tail(Append(r.seenOrder, id)) PROVE Once(t)
    BY <1>1, <2>1, <2>2, AppendOnce
  <2> QED BY <2>2
<1>5. CASE Len(queue) > SeenCap
  <2>1. m.seen = (r.seen \cup {id}) \ {Head(queue)} /\ m.seenOrder = Tail(queue)
    BY <1>1, <1>5 DEF Remember, Watch
  <2> HIDE DEF queue, m
  <2>2. /\ DOMAIN Tail(queue) = 1 .. Len(queue) - 1 /\ Len(Tail(queue)) = Len(queue) - 1
        /\ \A i \in 1 .. Len(queue) - 1 : Tail(queue)[i] = queue[i + 1]
        /\ Head(queue) = queue[1] /\ 1 \in DOMAIN queue
    BY <1>1, <1>2
  <2>3. \A i \in DOMAIN queue : i # 1 => i - 1 \in DOMAIN Tail(queue) /\ queue[i] = Tail(queue)[i - 1]
    BY <1>1, <1>2, <2>2
  <2>4. \A i \in DOMAIN Tail(queue) : i + 1 \in DOMAIN queue /\ i + 1 # 1
    BY <1>1, <1>2, <2>2
  <2>5. \A i \in DOMAIN queue : queue[i] # NoId
    BY <1>2, WatchAssumption
  <2>6. Elems(Tail(queue)) = Elems(queue) \ {Head(queue)}
    <3> DEFINE rest == Tail(queue)
    <3>1. \A i \in DOMAIN rest : i + 1 \in DOMAIN queue /\ i + 1 # 1 /\ rest[i] = queue[i + 1]
      BY <2>2, <2>4
    <3>2. \A i \in DOMAIN queue : i # 1 => i - 1 \in DOMAIN rest /\ queue[i] = rest[i - 1] /\ queue[i] # queue[1]
      BY <1>4, <2>2, <2>3, <2>5 DEF Once
    <3> HIDE DEF rest
    <3>3. Elems(rest) \subseteq Elems(queue) \ {queue[1]}
      BY <3>1, <3>2 DEF Elems
    <3>4. Elems(queue) \ {queue[1]} \subseteq Elems(rest)
      BY <3>2 DEF Elems
    <3> QED BY <2>2, <3>3, <3>4 DEF rest
  <2>7. Len(Tail(queue)) <= SeenCap /\ Len(r.seenOrder) = SeenCap
    BY <1>1, <1>2, <1>5, <2>2
  <2> QED BY <1>3, <1>4, <2>1, <2>6, <2>7 DEF m
<1>6. CASE ~(Len(queue) > SeenCap)
  <2>1. m.seen = r.seen \cup {id} /\ m.seenOrder = queue
    BY <1>1, <1>6 DEF Remember, Watch
  <2> HIDE DEF queue, m
  <2> QED BY <1>1, <1>2, <1>3, <1>4, <1>6, <2>1 DEF m
<1> QED BY <1>5, <1>6

-----------------------------------------------------------------------------
(* The inductive invariant *)

IInv == TypeOK /\ BufferIsSuffix /\ CountersAddUp

\* A fresh watch satisfies the invariant.
LEMMA InvInit == Init => IInv
<1> SUFFICES ASSUME Init PROVE IInv
  OBVIOUS
<1>1. MakeWatch \in Watch /\ BufferCap \in Nat
  BY WatchAssumption DEF MakeWatch, Watch
<1>2. QED
  BY <1>1 DEF Init, IInv, TypeOK, BufferIsSuffix, CountersAddUp, Gone, MakeWatch

\* A delivery: the history and the buffer grow by the same message.
LEMMA ArriveStep ==
  ASSUME IInv, NEW id \in Msg, Arrive(id)
  PROVE  IInv'
<1>1. /\ w \in Watch /\ w.buffer \in Seq(Msg) /\ accepted \in Seq(Msg)
      /\ Gone \in Nat /\ w.drained \in Nat /\ w.dropped \in Nat
      /\ w.total \in Nat /\ w.replayed \in Nat
      /\ Len(w.buffer) \in Nat /\ Len(w.buffer) <= BufferCap
  BY DEF IInv, TypeOK, Watch, Gone
<1>2. CASE Duplicate(w, id)
  <2>1. UNCHANGED vars
    BY <1>2 DEF Arrive, Deliver, vars
  <2>2. QED
    BY <2>1 DEF vars, IInv, TypeOK, BufferIsSuffix, CountersAddUp, Gone
<1>3. CASE ~Duplicate(w, id)
  <2>1. accepted' = Append(accepted, id) /\ w' = Deliver(w, id)
    BY <1>3 DEF Arrive
  <2>2. /\ w' \in Watch /\ Len(w'.buffer) <= BufferCap
        /\ w'.drained = w.drained
        /\ w'.total + w'.replayed = w.total + w.replayed + 1
        /\ \/ w'.buffer = Append(w.buffer, id) /\ w'.dropped = w.dropped
           \/ w'.buffer = Tail(Append(w.buffer, id)) /\ w'.dropped = w.dropped + 1
    BY <1>1, <1>3, <2>1, DeliverType
  <2>3. TypeOK'
    <3>1. ever' \in SUBSET Id /\ anon' \in Nat
      BY <1>3 DEF Arrive, IInv, TypeOK, Msg
    <3>2. accepted' \in Seq(Msg)
      BY <1>1, <2>1
    <3>3. QED
      BY <2>2, <3>1, <3>2 DEF TypeOK
  <2>4. BufferIsSuffix'
    <3> DEFINE b == Append(w.buffer, id)
    <3>1. /\ Len(accepted) = Gone + Len(w.buffer)
          /\ \A i \in 1 .. Len(w.buffer) : w.buffer[i] = accepted[Gone + i]
      BY DEF IInv, BufferIsSuffix
    <3>2. /\ b \in Seq(Msg) /\ Len(b) = Len(w.buffer) + 1
          /\ Len(accepted') = Gone + Len(b)
          /\ \A i \in 1 .. Len(b) : b[i] = accepted'[Gone + i]
      <4>1. /\ b \in Seq(Msg) /\ Len(b) = Len(w.buffer) + 1
            /\ b[Len(w.buffer) + 1] = id
            /\ \A i \in 1 .. Len(w.buffer) : b[i] = w.buffer[i]
        BY <1>1
      <4>2. /\ Len(accepted') = Len(accepted) + 1 /\ Len(accepted) \in Nat
            /\ accepted'[Len(accepted) + 1] = id
            /\ \A j \in 1 .. Len(accepted) : accepted'[j] = accepted[j]
        BY <1>1, <2>1
      <4> HIDE DEF b
      <4>3. Len(accepted') = Gone + Len(b)
        BY <1>1, <3>1, <4>1, <4>2
      <4>4. ASSUME NEW i \in 1 .. Len(b) PROVE b[i] = accepted'[Gone + i]
        <5>1. i \in Nat /\ i >= 1 /\ i <= Len(w.buffer) + 1
          BY <1>1, <4>1
        <5>2. CASE i <= Len(w.buffer)
          <6>1. i \in 1 .. Len(w.buffer) /\ Gone + i \in 1 .. Len(accepted)
            BY <1>1, <3>1, <5>1, <5>2
          <6>2. QED
            BY <3>1, <4>1, <4>2, <6>1
        <5>3. CASE ~(i <= Len(w.buffer))
          <6>1. i = Len(w.buffer) + 1
            BY <1>1, <5>1, <5>3
          <6>2. Gone + i = Len(accepted) + 1
            <7>1. Len(accepted) = Gone + Len(w.buffer)
              BY <3>1
            <7>2. QED
              BY <1>1, <6>1, <7>1
          <6>3. QED
            BY <4>1, <4>2, <6>1, <6>2
        <5>4. QED
          BY <5>2, <5>3
      <4>5. QED
        BY <4>1, <4>3, <4>4
    <3>3. CASE w'.buffer = b /\ w'.dropped = w.dropped
      <4>1. Gone' = Gone
        BY <2>2, <3>3 DEF Gone
      <4>2. QED
        BY <3>2, <3>3, <4>1 DEF BufferIsSuffix
    <3>4. CASE w'.buffer = Tail(b) /\ w'.dropped = w.dropped + 1
      <4>1. Gone' = Gone + 1
        BY SMTT(30), <1>1, <2>2, <3>4 DEF Gone
      <4>2. /\ Len(w'.buffer) = Len(b) - 1 /\ Len(b) \in Nat
            /\ \A i \in 1 .. Len(w'.buffer) : w'.buffer[i] = b[i + 1]
        BY <3>2, <3>4
      <4>3. ASSUME NEW i \in 1 .. Len(w'.buffer) PROVE w'.buffer[i] = accepted'[Gone' + i]
        <5>1. i + 1 \in 1 .. Len(b) /\ w'.buffer[i] = b[i + 1] /\ i \in Nat
          BY <4>2
        <5>2. b[i + 1] = accepted'[Gone + (i + 1)]
          BY <3>2, <5>1
        <5>3. Gone + (i + 1) = Gone' + i
          BY <1>1, <4>1, <5>1
        <5>4. QED
          BY <5>1, <5>2, <5>3
      <4>4. Len(accepted') = Gone' + Len(w'.buffer)
        <5> HIDE DEF b
        <5>1. Len(accepted') = Gone + Len(b) /\ Len(w'.buffer) = Len(b) - 1
              /\ Len(b) \in Nat /\ Gone \in Nat /\ Gone' = Gone + 1
          BY <1>1, <3>2, <4>1, <4>2
        <5>2. QED
          BY <5>1
      <4>5. QED
        BY <4>3, <4>4 DEF BufferIsSuffix
    <3>5. QED
      BY <2>2, <3>3, <3>4
  <2>5. CountersAddUp'
    <3>1. Len(accepted') = Len(accepted) + 1
      BY <1>1, <2>1
    <3>2. QED
      BY <2>2, <3>1 DEF IInv, CountersAddUp
  <2>6. QED
    BY <2>3, <2>4, <2>5 DEF IInv
<1>4. QED
  BY <1>2, <1>3

\* What the front gains the buffer loses.
LEMMA FrontMoves == \A a, b, c \in Nat : a + b = (a + c) + (b - c)
OBVIOUS

\* A poll: the front of the buffer moves over what it hands out.
LEMMA PollStep ==
  ASSUME IInv, NEW max \in 0 .. BufferCap, Poll(max)
  PROVE  IInv'
<1> DEFINE k == Taken(w, max)
<1>1. /\ w \in Watch /\ Gone \in Nat /\ w.drained \in Nat /\ w.dropped \in Nat
      /\ Len(w.buffer) \in Nat /\ Len(w.buffer) <= BufferCap /\ max \in Nat /\ BufferCap \in Nat
  BY WatchAssumption DEF IInv, TypeOK, Watch, Gone
<1>2. k \in 0 .. Len(w.buffer)
  BY <1>1, TakenBound
<1> HIDE DEF k
<1>3. /\ w' \in Watch /\ Len(w'.buffer) = Len(w.buffer) - k
      /\ \A i \in 1 .. Len(w'.buffer) : w'.buffer[i] = w.buffer[i + k]
      /\ w'.drained = w.drained + k /\ w'.dropped = w.dropped
      /\ w'.total = w.total /\ w'.replayed = w.replayed
  BY <1>1, <1>2, CollectType DEF Poll, k
<1>4. Gone' = Gone + k /\ UNCHANGED <<accepted, ever, anon>>
  BY <1>1, <1>2, <1>3 DEF Gone, Poll
<1>5. TypeOK'
  BY <1>1, <1>2, <1>3, <1>4 DEF IInv, TypeOK
<1>6. BufferIsSuffix'
  <2>1. /\ Len(accepted) = Gone + Len(w.buffer)
        /\ \A i \in 1 .. Len(w.buffer) : w.buffer[i] = accepted[Gone + i]
    BY DEF IInv, BufferIsSuffix
  <2>2. ASSUME NEW i \in 1 .. Len(w'.buffer) PROVE w'.buffer[i] = accepted'[Gone' + i]
    <3>1. i + k \in 1 .. Len(w.buffer) /\ w'.buffer[i] = w.buffer[i + k]
      BY <1>1, <1>2, <1>3
    <3>2. w.buffer[i + k] = accepted[Gone + (i + k)]
      BY <2>1, <3>1
    <3>3. i \in Nat /\ k \in Nat /\ Gone' = Gone + k /\ Gone \in Nat
      BY <1>1, <1>2, <1>4
    <3>4. Gone + (i + k) = Gone' + i
      BY <3>3
    <3>5. QED
      BY <1>4, <3>1, <3>2, <3>4
  <2>3. Len(accepted') = Gone' + Len(w'.buffer)
    <3>1. /\ Gone \in Nat /\ k \in Nat /\ Len(w.buffer) \in Nat
          /\ Gone' = Gone + k /\ accepted' = accepted
          /\ Len(w'.buffer) = Len(w.buffer) - k
      BY <1>1, <1>2, <1>3, <1>4
    <3>2. Gone + Len(w.buffer) = (Gone + k) + (Len(w.buffer) - k)
      BY <3>1, FrontMoves
    <3>3. Len(accepted') = Len(accepted) /\ Len(accepted) = Gone + Len(w.buffer)
      BY <2>1, <3>1
    <3>4. Gone' + Len(w'.buffer) = (Gone + k) + (Len(w.buffer) - k)
      BY <3>1
    <3>5. QED
      BY <3>2, <3>3, <3>4, Zenon
  <2>4. QED
    BY <2>2, <2>3 DEF BufferIsSuffix
<1>7. CountersAddUp'
  BY <1>3, <1>4 DEF IInv, CountersAddUp
<1>8. QED
  BY <1>5, <1>6, <1>7 DEF IInv

\* Every arrival and every poll keeps the invariant.
LEMMA InvStep == IInv /\ [Next]_vars => IInv'
<1> SUFFICES ASSUME IInv, [Next]_vars PROVE IInv'
  OBVIOUS
<1>1. CASE UNCHANGED vars
  BY <1>1 DEF vars, IInv, TypeOK, BufferIsSuffix, CountersAddUp, Gone
<1>2. CASE Next
  BY <1>2, ArriveStep, PollStep DEF Next
<1>3. QED
  BY <1>1, <1>2

\* The inductive invariant holds in every reachable state.
THEOREM InvCorrect == Spec => []IInv
<1>1. QED
  BY InvInit, InvStep, PTL DEF Spec

-----------------------------------------------------------------------------

\* Every reachable watch is well typed and within its cap.
THEOREM TypeCorrect == Spec => []TypeOK
<1>1. IInv => TypeOK
  BY DEF IInv
<1>2. QED
  BY <1>1, InvCorrect, PTL

\* What a watch holds is what it accepted last, in order: nothing is lost
\* uncounted, reordered or handed out twice.
THEOREM FirstInFirstOut == Spec => []BufferIsSuffix
<1>1. IInv => BufferIsSuffix
  BY DEF IInv
<1>2. QED
  BY <1>1, InvCorrect, PTL

\* The counters account for every message that entered.
THEOREM EveryArrivalCounted == Spec => []CountersAddUp
<1>1. IInv => CountersAddUp
  BY DEF IInv
<1>2. QED
  BY <1>1, InvCorrect, PTL

\* What the memory and the buffer are made of; whoever has forgotten an id has
\* had more of them than a watch remembers, so it cannot make up for that.
MemoryIInv ==
  /\ TypeOK /\ MemoryConsistent /\ IsFiniteSet(ever)
  /\ Elems(w.buffer) \subseteq ever \cup {NoId}
  /\ ever \subseteq w.seen \/ Cardinality(ever) > SeenCap
  /\ ever \subseteq w.seen => w.total = Cardinality(ever) + anon /\ Once(w.buffer)

\* The ids of the memory are no repetition of one another.
LEMMA MemoryIsOnce ==
  ASSUME TypeOK
  PROVE  MemoryConsistent <=> /\ w.seen = Elems(w.seenOrder) /\ Once(w.seenOrder)
                              /\ Len(w.seenOrder) <= SeenCap /\ w.seen \subseteq ever
<1>1. w.seenOrder \in Seq(Id) /\ \A i \in DOMAIN w.seenOrder : w.seenOrder[i] # NoId
  BY WatchAssumption DEF TypeOK, Watch
<1> QED BY <1>1 DEF MemoryConsistent, Once

\* A delivery keeps the memory.
LEMMA ArrivalIsRemembered ==
  ASSUME MemoryIInv, TypeOK', NEW id \in Msg, Arrive(id), ~Duplicate(w, id)
  PROVE  MemoryIInv'
<1>1. /\ w \in Watch /\ Len(w.buffer) <= BufferCap /\ w.buffer \in Seq(Msg) /\ w.total \in Nat /\ anon \in Nat
      /\ ever \subseteq Id /\ w.seen \subseteq Id /\ w.seenOrder \in Seq(Id) /\ SeenCap \in Nat /\ NoId \notin Id
  BY WatchAssumption DEF MemoryIInv, TypeOK, Watch
<1>2. /\ w.seen = Elems(w.seenOrder) /\ Once(w.seenOrder) /\ Len(w.seenOrder) <= SeenCap /\ w.seen \subseteq ever
      /\ IsFiniteSet(ever) /\ Elems(w.buffer) \subseteq ever \cup {NoId}
      /\ ever \subseteq w.seen \/ Cardinality(ever) > SeenCap
      /\ ever \subseteq w.seen => w.total = Cardinality(ever) + anon /\ Once(w.buffer)
  BY MemoryIsOnce DEF MemoryIInv
<1>3. /\ w'.total = IF Known(w, id) THEN w.total ELSE w.total + 1
      /\ w'.buffer = Append(w.buffer, id) \/ w'.buffer = Tail(Append(w.buffer, id))
      /\ w'.seen = IF Known(w, id) THEN w.seen ELSE Remember(w, id).seen
      /\ w'.seenOrder = IF Known(w, id) THEN w.seenOrder ELSE Remember(w, id).seenOrder
  BY <1>1, DeliverType DEF Arrive
<1>4. ever' = (IF id = NoId THEN ever ELSE ever \cup {id}) /\ anon' = (IF id = NoId THEN anon + 1 ELSE anon)
  BY DEF Arrive
<1>5. /\ IsFiniteSet(ever') /\ Cardinality(ever) \in Nat /\ Cardinality(ever') \in Nat
      /\ Cardinality(ever') = IF id = NoId \/ id \in ever THEN Cardinality(ever) ELSE Cardinality(ever) + 1
  BY <1>2, <1>4, FS_AddElement, FS_CardinalityType
<1>6. Elems(w.buffer) \cup {id} \subseteq ever' \cup {NoId}
  BY <1>2, <1>4
<1>7. Elems(w'.buffer) \subseteq Elems(w.buffer) \cup {id}
  <2> DEFINE b == Append(w.buffer, id)
  <2>1. /\ b \in Seq(Msg) /\ Len(b) = Len(w.buffer) + 1 /\ Len(w.buffer) \in Nat
        /\ \A i \in 1 .. Len(b) : b[i] \in Elems(w.buffer) \cup {id}
    BY <1>1 DEF Elems
  <2> HIDE DEF b
  <2>2. \A i \in DOMAIN Tail(b) : i + 1 \in 1 .. Len(b) /\ Tail(b)[i] = b[i + 1]
    BY <2>1
  <2>3. Elems(b) \subseteq Elems(w.buffer) \cup {id} /\ Elems(Tail(b)) \subseteq Elems(w.buffer) \cup {id}
    BY SMTT(30), <2>1, <2>2 DEF Elems
  <2> QED BY <1>3, <2>3 DEF b
<1>8. CASE id = NoId
  <2>1. /\ w'.seen = w.seen /\ w'.seenOrder = w.seenOrder /\ w'.total = w.total + 1
    BY <1>1, <1>3, <1>8 DEF Known, Remember, Watch
  <2>2. ever \subseteq w.seen => Once(w'.buffer)
    BY <1>1, <1>2, <1>3, <1>8, AppendOnce
  <2> QED BY <1>1, <1>2, <1>4, <1>5, <1>6, <1>7, <1>8, <2>1, <2>2, MemoryIsOnce DEF MemoryIInv, MemoryConsistent
<1>9. CASE id # NoId /\ Known(w, id)
  <2>1. ever' = ever /\ anon' = anon /\ w'.total = w.total /\ w'.seen = w.seen /\ w'.seenOrder = w.seenOrder
    BY <1>2, <1>3, <1>4, <1>9 DEF Known
  <2>2. id \notin Elems(w.buffer)
    BY <1>9 DEF Duplicate, Buffered, Elems
  <2>3. ever \subseteq w.seen => Once(w'.buffer)
    BY <1>1, <1>2, <1>3, <2>2, AppendOnce
  <2> QED BY <1>2, <1>6, <1>7, <2>1, <2>3, MemoryIsOnce DEF MemoryIInv, MemoryConsistent
<1>10. CASE id # NoId /\ ~Known(w, id)
  <2>1. id \in Id /\ id \notin w.seen /\ ever' = ever \cup {id} /\ anon' = anon /\ w'.total = w.total + 1
    BY <1>3, <1>4, <1>10 DEF Known, Msg
  <2>2. /\ w'.seen = Elems(w'.seenOrder) /\ Once(w'.seenOrder) /\ Len(w'.seenOrder) <= SeenCap
        /\ w'.seen \subseteq w.seen \cup {id}
        /\ Len(w.seenOrder) = SeenCap \/ w'.seen = w.seen \cup {id}
    BY <1>1, <1>2, <1>3, <1>10, <2>1, RememberOnce
  <2>3. Cardinality(ever') > SeenCap \/ (ever \subseteq w.seen /\ w'.seen = w.seen \cup {id})
    <3>1. CASE Len(w.seenOrder) = SeenCap
      <4>1. IsFiniteSet(w.seen) /\ Cardinality(w.seen) = SeenCap
        BY <1>1, <1>2, <3>1, OnceCounts
      <4>2. Cardinality(w.seen \cup {id}) = SeenCap + 1
        BY <2>1, <4>1, FS_AddElement
      <4>3. w.seen \cup {id} \in SUBSET ever'
        BY <1>2, <2>1
      <4>4. Cardinality(w.seen \cup {id}) <= Cardinality(ever')
        BY <1>5, <4>3, FS_Subset
      <4> QED BY <1>1, <1>5, <4>2, <4>4
    <3>2. CASE w'.seen = w.seen \cup {id}
      BY <1>1, <1>2, <1>5, <3>2
    <3> QED BY <2>2, <3>1, <3>2
  <2>4. ever' \subseteq w'.seen => ever \subseteq w.seen /\ id \notin ever
    <3>1. SUFFICES ASSUME ever' \subseteq w'.seen PROVE ~(Cardinality(ever') > SeenCap)
      BY <2>1, <2>3, <3>1
    <3>2. w'.seenOrder \in Seq(Id) /\ Len(w'.seenOrder) \in Nat
      BY DEF TypeOK, Watch
    <3>3. IsFiniteSet(w'.seen) /\ Cardinality(w'.seen) <= SeenCap /\ Cardinality(w'.seen) \in Nat
      BY <2>2, <3>2, OnceCounts, FS_CardinalityType
    <3>4. Cardinality(ever') <= Cardinality(w'.seen)
      BY <3>1, <3>3, FS_Subset
    <3> QED BY <1>1, <1>5, <3>3, <3>4
  <2>5. ever' \subseteq w'.seen \/ Cardinality(ever') > SeenCap
    BY <2>1, <2>3
  <2>6. ever \subseteq w.seen => id \notin Elems(w.buffer)
    BY <1>2, <2>1, <1>10
  <2>7. ever' \subseteq w'.seen => w'.total = Cardinality(ever') + anon' /\ Once(w'.buffer)
    <3>1. SUFFICES ASSUME ever' \subseteq w'.seen PROVE w'.total = Cardinality(ever') + anon' /\ Once(w'.buffer)
      OBVIOUS
    <3>2. ever \subseteq w.seen /\ id \notin ever /\ id \notin Elems(w.buffer)
      BY <2>4, <2>6, <3>1
    <3>3. Once(w'.buffer)
      BY <1>1, <1>2, <1>3, <3>2, AppendOnce
    <3>4. Cardinality(ever') = Cardinality(ever) + 1 /\ w.total = Cardinality(ever) + anon
      BY <1>2, <1>5, <1>10, <3>2
    <3> QED BY <1>1, <1>5, <2>1, <3>3, <3>4
  <2>8. w'.seen \subseteq ever'
    BY <1>2, <2>1, <2>2
  <2>9. MemoryConsistent'
    BY <2>2, <2>8, WatchAssumption DEF MemoryConsistent, Once, TypeOK, Watch
  <2> QED BY <1>5, <1>6, <1>7, <2>5, <2>7, <2>9 DEF MemoryIInv
<1> QED BY <1>8, <1>9, <1>10

\* The memory holds in every reachable state.
THEOREM MemoryHolds == Spec => []MemoryIInv
<1>1. Init => MemoryIInv
  <2> SUFFICES ASSUME Init PROVE MemoryIInv
    OBVIOUS
  <2>1. /\ w.seen = {} /\ w.seenOrder = <<>> /\ w.buffer = <<>> /\ w.total = 0 /\ ever = {} /\ anon = 0
        /\ DOMAIN <<>> = {} /\ Len(<<>>) = 0
    BY DEF Init, MakeWatch
  <2>2. TypeOK /\ SeenCap \in Nat
    BY InvInit, WatchAssumption DEF IInv
  <2> QED BY <2>1, <2>2, FS_EmptySet DEF MemoryIInv, MemoryConsistent, Once, Elems
<1>2. MemoryIInv /\ TypeOK' /\ [Next]_vars => MemoryIInv'
  <2> SUFFICES ASSUME MemoryIInv, TypeOK', [Next]_vars PROVE MemoryIInv'
    OBVIOUS
  <2>1. CASE UNCHANGED vars
    BY <2>1 DEF vars, MemoryIInv, MemoryConsistent, Once, Elems
  <2>2. ASSUME NEW id \in Msg, Arrive(id) PROVE MemoryIInv'
    <3>1. CASE Duplicate(w, id)
      <4>1. UNCHANGED vars
        BY <2>2, <3>1 DEF Arrive, Deliver, vars
      <4> QED BY <2>1, <4>1
    <3> QED BY <2>2, <3>1, ArrivalIsRemembered
  <2>3. ASSUME NEW max \in 0 .. BufferCap, Poll(max) PROVE MemoryIInv'
    <3> DEFINE k == Taken(w, max)
    <3>1. w \in Watch /\ max \in Nat /\ w.buffer \in Seq(Msg) /\ w'.buffer \in Seq(Msg)
      BY WatchAssumption DEF MemoryIInv, TypeOK, Watch
    <3>2. k \in 0 .. Len(w.buffer) /\ k \in Nat
      BY <3>1, TakenBound
    <3> HIDE DEF k
    <3>3. /\ Len(w'.buffer) = Len(w.buffer) - k /\ \A i \in 1 .. Len(w'.buffer) : w'.buffer[i] = w.buffer[i + k]
          /\ w'.seen = w.seen /\ w'.seenOrder = w.seenOrder /\ w'.total = w.total /\ UNCHANGED <<ever, anon>>
      BY <2>3, <3>1, <3>2, CollectType DEF Poll, k
    <3>4. Elems(w'.buffer) \subseteq Elems(w.buffer) /\ (Once(w.buffer) => Once(w'.buffer))
      BY <3>1, <3>2, <3>3, RestOnce
    <3> QED BY <3>3, <3>4 DEF MemoryIInv, MemoryConsistent
  <2> QED BY <2>1, <2>2, <2>3 DEF Next
<1> QED BY <1>1, <1>2, TypeCorrect, PTL DEF Spec

\* The two halves of the memory, the set and the order, never part.
THEOREM MemoryIsConsistent == Spec => []MemoryConsistent
<1>1. MemoryIInv => MemoryConsistent
  BY DEF MemoryIInv
<1> QED BY <1>1, MemoryHolds, PTL

\* A watch that has forgotten nothing counts and holds no message twice.
THEOREM RememberedIsDistinct == Spec => []DistinctWhileRemembered
<1>1. MemoryIInv => DistinctWhileRemembered
  BY DEF MemoryIInv, Once, DistinctWhileRemembered
<1> QED BY <1>1, MemoryHolds, PTL

-----------------------------------------------------------------------------
\* What the launcher has established by each stage of the launch.
Armed == askedFor # {} => Arming!Supports(kernel) /\ Arming!Coherent(askedFor)

ArmingIInv ==
  /\ pools \in Arming!PoolText
  /\ launch \in {"transport", "proof", "joined"} =>
       Arming!Readable(pools) /\ profile = Arming!poolsFromEnv(pools) /\ Arming!Feasible(profile)
  /\ launch \in {"proof", "joined"} => kernel \in Nat \X Nat \X Nat /\ Armed /\ landed \subseteq askedFor
  /\ launch = "joined" => askedFor \subseteq landed

\* A list of pool parts has one to three of them.
LEMMA PartsOf ==
  ASSUME NEW text \in Arming!PoolText
  PROVE  /\ Len(text) \in 0 .. 3 /\ DOMAIN text = 1 .. Len(text)
         /\ Arming!Readable(text) => \A i \in DOMAIN text : text[i] \in Arming!PoolPart
<1>1. CASE text = <<>>
  BY <1>1
<1>2. CASE text = <<Arming!BadPart>>
  <2>1. Len(text) = 1 /\ DOMAIN text = 1 .. 1 /\ text[1] = Arming!BadPart
    BY <1>2
  <2>2. ~Arming!Readable(text)
    BY <2>1, <1>2 DEF Arming!Readable
  <2> QED BY <2>1, <2>2
<1>3. ASSUME NEW n \in 1 .. 3, text \in [1 .. n -> Arming!PoolPart] PROVE
         /\ Len(text) \in 0 .. 3 /\ DOMAIN text = 1 .. Len(text)
         /\ Arming!Readable(text) => \A i \in DOMAIN text : text[i] \in Arming!PoolPart
  <2>1. text \in Seq(Arming!PoolPart) /\ Len(text) = n
    BY <1>3
  <2> QED BY <1>3, <2>1
<1> QED BY <1>1, <1>2, <1>3 DEF Arming!PoolText

\* A name that occurs has a last part.
LEMMA LastPart ==
  ASSUME NEW text \in Arming!PoolText, NEW n \in Arming!Named(text)
  PROVE  \E i \in DOMAIN text : text[i].name = n /\ \A j \in i + 1 .. Len(text) : text[j].name # n
<1>1. Len(text) \in 0 .. 3 /\ DOMAIN text = 1 .. Len(text)
  BY PartsOf
<1>2. PICK i \in DOMAIN text : text[i].name = n
  BY DEF Arming!Named
<1>3. CASE Len(text) = 1
  BY <1>1, <1>2, <1>3
<1>4. CASE Len(text) = 2
  BY <1>1, <1>2, <1>4
<1>5. CASE Len(text) = 3
  BY <1>1, <1>2, <1>5
<1> QED BY <1>1, <1>2, <1>3, <1>4, <1>5

\* poolsFromEnv gives a name the size of its last part.
LEMMA LastSizeWins ==
  ASSUME NEW text \in Arming!PoolText, NEW n \in Arming!Named(text)
  PROVE  \E i \in DOMAIN text :
           /\ text[i].name = n /\ \A j \in i + 1 .. Len(text) : text[j].name # n
           /\ Arming!poolsFromEnv(text)[n] = text[i].size
<1> DEFINE Last(p) == \E i \in DOMAIN text : /\ text[i] = p /\ p.name = n
                                             /\ \A j \in i + 1 .. Len(text) : text[j].name # n
           Parts == {text[i] : i \in DOMAIN text}
<1>1. \E p \in Parts : Last(p)
  BY LastPart
<1>2. PICK q : q = (CHOOSE p \in Parts : Last(p))
  OBVIOUS
<1>3. Last(q)
  BY <1>1, <1>2
<1>4. Arming!poolsFromEnv(text)[n] = q.size
  BY <1>2 DEF Arming!poolsFromEnv
<1> QED BY <1>3, <1>4

\* No two parts of a name are both the last.
LEMMA OneLast ==
  ASSUME NEW text \in Arming!PoolText, NEW i \in DOMAIN text, NEW h \in DOMAIN text, text[i].name = text[h].name,
         \A j \in i + 1 .. Len(text) : text[j].name # text[i].name,
         \A j \in h + 1 .. Len(text) : text[j].name # text[i].name
  PROVE  i = h
<1>1. Len(text) \in 0 .. 3 /\ DOMAIN text = 1 .. Len(text)
  BY PartsOf
<1> QED BY <1>1

\* Pools that were read and fit are the last sizes named.
LEMMA PoolsFit ==
  ASSUME NEW text \in Arming!PoolText, text # <<>>, Arming!Readable(text), Arming!Feasible(Arming!poolsFromEnv(text))
  PROVE  \E m, i \in DOMAIN text :
           /\ text[m].name = "M" /\ text[i].name = "I"
           /\ Arming!poolsFromEnv(text)["M"] = text[m].size /\ Arming!poolsFromEnv(text)["I"] = text[i].size
           /\ \A h \in DOMAIN text :
                (text[h].name = "H" /\ \A j \in h + 1 .. Len(text) : text[j].name # "H")
                  => text[m].size + text[i].size <= text[h].size
<1>1. "M" \in Arming!Named(text) /\ "I" \in Arming!Named(text)
  BY DEF Arming!Readable
<1>2. PICK m \in DOMAIN text : text[m].name = "M" /\ Arming!poolsFromEnv(text)["M"] = text[m].size
  BY <1>1, LastSizeWins
<1>3. PICK i \in DOMAIN text : text[i].name = "I" /\ Arming!poolsFromEnv(text)["I"] = text[i].size
  BY <1>1, LastSizeWins
<1>4. ASSUME NEW h \in DOMAIN text, text[h].name = "H", \A j \in h + 1 .. Len(text) : text[j].name # "H"
      PROVE  text[m].size + text[i].size <= text[h].size
  <2>1. "H" \in Arming!Named(text)
    BY <1>4 DEF Arming!Named
  <2>2. PICK g \in DOMAIN text : /\ text[g].name = "H" /\ \A j \in g + 1 .. Len(text) : text[j].name # "H"
                               /\ Arming!poolsFromEnv(text)["H"] = text[g].size
    BY <2>1, LastSizeWins
  <2>3. g = h
    BY <1>4, <2>2, OneLast
  <2>4. "H" \in DOMAIN Arming!poolsFromEnv(text)
    BY <2>1 DEF Arming!poolsFromEnv
  <2>5. Arming!poolsFromEnv(text)["M"] + Arming!poolsFromEnv(text)["I"] <= Arming!poolsFromEnv(text)["H"]
    BY <2>4 DEF Arming!Feasible
  <2> QED BY <1>2, <1>3, <2>2, <2>3, <2>5
<1> QED BY <1>2, <1>3, <1>4

\* Every step of the launch keeps what it has established.
LEMMA ArmingKept ==
  ASSUME ArmingIInv, [Arming!ArmingStep]_(Arming!armingVars)
  PROVE  ArmingIInv'
<1>1. CASE Arming!resolveRegionConfig
  BY <1>1 DEF Arming!resolveRegionConfig, ArmingIInv, Arming!asks, Armed
<1>2. CASE Arming!BuildTransport
  BY <1>2 DEF Arming!BuildTransport, ArmingIInv, Arming!asks, Armed
<1>3. CASE Arming!BuildPeer
  <2>1. PICK k \in Kernels, a \in SUBSET Arming!ArmModule :
          /\ kernel' = k /\ askedFor' = a
          /\ \/ launch' = "refused"
             \/ (a = {} \/ (Arming!Supports(k) /\ Arming!Coherent(a))) /\ landed' \in SUBSET a /\ launch' = "proof"
    BY <1>3 DEF Arming!BuildPeer
  <2>2. UNCHANGED <<pools, profile>> /\ launch = "transport"
    BY <1>3 DEF Arming!BuildPeer
  <2>3. k \in Nat \X Nat \X Nat
    BY <2>1, ToolsAssumption
  <2> QED BY <2>1, <2>2, <2>3 DEF ArmingIInv, Armed
<1>4. CASE Arming!ProveArmed
  BY <1>4 DEF Arming!ProveArmed, ArmingIInv, Arming!asks, Armed
<1>5. CASE UNCHANGED Arming!armingVars
  BY <1>5 DEF Arming!armingVars, ArmingIInv, Armed
<1> QED BY <1>1, <1>2, <1>3, <1>4, <1>5 DEF Arming!ArmingStep

\* A version that supports the options is the pin or later.
LEMMA PinOrLater ==
  ASSUME NEW k \in Nat \X Nat \X Nat, Arming!Supports(k)
  PROVE  10000 * k[1] + 100 * k[2] + k[3] >= 46701
<1>1. k[1] \in Nat /\ k[2] \in Nat /\ k[3] \in Nat
  OBVIOUS
<1>2. CASE k[1] > 4
  BY <1>1, <1>2
<1>3. CASE k[1] = 4 /\ k[2] > 67
  BY <1>1, <1>3
<1>4. CASE k[1] = 4 /\ k[2] = 67 /\ k[3] >= 1
  BY <1>1, <1>4
<1> QED BY <1>2, <1>3, <1>4 DEF Arming!Supports

\* What a launch has established when it joins is what was asked for.
LEMMA EstablishedIsAsked == ArmingIInv => Arming!JoinsOnlyAsAsked
<1> SUFFICES ASSUME ArmingIInv, launch = "joined" PROVE Arming!JoinsOnlyAsAsked
  BY DEF Arming!JoinsOnlyAsAsked
<1>1. landed = askedFor
  BY DEF ArmingIInv
<1>2. askedFor # {} => 10000 * kernel[1] + 100 * kernel[2] + kernel[3] >= 46701
  BY PinOrLater DEF ArmingIInv, Armed
<1>3. "maintain" \in landed => "guard" \in landed /\ "gate" \in landed
  BY <1>1 DEF ArmingIInv, Armed, Arming!Coherent
<1>4. pools \in Arming!PoolText /\ Arming!Readable(pools) /\ profile = Arming!poolsFromEnv(pools) /\ Arming!Feasible(Arming!poolsFromEnv(pools))
  BY DEF ArmingIInv
<1> QED BY <1>1, <1>2, <1>3, <1>4, PoolsFit DEF Arming!JoinsOnlyAsAsked


\* No relay joins unproved, unsupported, incoherent or with pools that do not
\* fit, whatever pool sizes and kernels there are.
THEOREM JoinsAsAsked == ToolSpec => []JoinsOnlyAsAsked
<1>1. ToolInit => ArmingIInv
  BY DEF ToolInit, Arming!ArmingInit, ArmingIInv, Arming!PoolText
<1>2. [ToolNext]_toolVars => [Arming!ArmingStep]_(Arming!armingVars)
  BY DEF ToolNext, toolVars, Others, armingVs, Arming!armingVars
<1>3. ArmingIInv /\ [ToolNext]_toolVars => ArmingIInv'
  BY <1>2, ArmingKept
<1>4. ArmingIInv => JoinsOnlyAsAsked
  BY EstablishedIsAsked DEF JoinsOnlyAsAsked
<1> QED BY <1>1, <1>3, <1>4, PTL DEF ToolSpec

-----------------------------------------------------------------------------
(* Hosting.  A topic whose calls met nothing has one call at a time, and    *)
(* the peer that call began on stays the current one until it is over.      *)

CallRecord ==
  [verb : {"none", "host", "unhost"}, topic : Topic \cup {"none"},
   step : {"idle", "ensure", "peer", "list"}, peer : Nat, found : BOOLEAN]

HostTypeOK ==
  /\ made \in Nat /\ session \in Nat /\ onPeer \in SUBSET Topic /\ kept \in SUBSET Topic
  /\ HOSTED \in SUBSET Topic
  /\ call \in [Hosts!Callers -> CallRecord]
  /\ rebuild \in {"idle", "close", "connect", "rehost"} /\ before \in SUBSET Topic
  /\ down \in BOOLEAN /\ mixed \in SUBSET Topic

\* What the newest session's peer hosts and was not asked to let go.
Held == onPeer \ kept

\* The newest session's peer hosts nothing once there is no session, and only
\* the rebuild that hosts again makes calls of its own.
OnePeer ==
  /\ session # 0 => session = made
  /\ session = 0 => onPeer = {} /\ kept = {}
  /\ \A c \in Hosts!Callers : call[c].step = "idle" <=> call[c].topic = "none"
  /\ \A c \in Hosts!Callers : call[c].step # "idle" => call[c].verb \in {"host", "unhost"}
  /\ call["reconnect"].step # "idle" => rebuild = "rehost"

\* The one call on a topic, by how far it is.
Stands(c, t) ==
  /\ c # "reconnect" => rebuild = "idle"
  /\ down => c = "reconnect" /\ call[c].step = "ensure"
  /\ call[c].step = "ensure" => (t \in HOSTED <=> t \in Held)
  /\ call[c].step = "peer" =>
       /\ session # 0 /\ call[c].peer = made
       /\ t \in HOSTED <=> t \in Held
       /\ call[c].verb = "host" <=> t \notin HOSTED
  /\ call[c].step = "list" =>
       /\ call[c].verb = "host" => t \notin HOSTED /\ (call[c].found <=> t \in Held)
       /\ call[c].verb = "unhost" => t \notin Held

\* A topic nothing met on: its calls came one by one.
Unmixed(t) ==
  /\ \A c, d \in Hosts!Callers : call[c].topic = t /\ call[d].topic = t => c = d
  /\ \A c \in Hosts!Callers : call[c].topic = t => Stands(c, t)
  /\ ~Hosts!Busy(t) => (t \in HOSTED <=> t \in Held)

HostIInv == HostTypeOK /\ OnePeer /\ \A t \in Topic \ mixed : Unmixed(t)

\* What ensureSession() does to the session.
LEMMA EnsuredKeeps ==
  ASSUME HostTypeOK, OnePeer, Hosts!Ensured
  PROVE  /\ made' \in Nat /\ session' \in Nat /\ onPeer' = onPeer
         /\ session' # 0 /\ session' = made' /\ (session # 0 => made' = made)
<1>1. CASE session # 0
  BY <1>1 DEF HostTypeOK, OnePeer, Hosts!Ensured
<1>2. CASE session = 0
  <2>1. made' = made + 1 /\ session' = made' /\ onPeer' = {}
    BY <1>2 DEF Hosts!Ensured
  <2> QED BY <1>2, <2>1 DEF HostTypeOK, OnePeer
<1> QED BY <1>1, <1>2

\* A topic whose own calls, listing and hosting stay as they are stays unmixed,
\* as long as the session does, or no call on it is under way.
LEMMA UnmixedStays ==
  ASSUME HostTypeOK, NEW t \in Topic, Unmixed(t),
         \A c \in Hosts!Callers : call'[c].topic = t \/ call[c].topic = t => call'[c] = call[c],
         (t \in HOSTED' <=> t \in HOSTED), (t \in Held' <=> t \in Held),
         \A c \in Hosts!Callers : call[c].topic = t =>
            /\ rebuild' = rebuild /\ (down' => down)
            /\ call[c].step = "peer" => session' # 0 /\ made' = made
  PROVE  Unmixed(t)'
<1>1. \A c \in Hosts!Callers : call'[c].topic = t => Stands(c, t)'
  BY DEF Unmixed, Stands
<1>2. \A c, d \in Hosts!Callers : call'[c].topic = t /\ call'[d].topic = t => c = d
  BY DEF Unmixed
<1>3. Hosts!Busy(t)' <=> Hosts!Busy(t)
  BY DEF Hosts!Busy
<1> QED BY <1>1, <1>2, <1>3 DEF Unmixed

\* A step of a call changes no other call.
LEMMA OnlyThisCall ==
  ASSUME HostTypeOK, NEW c \in Hosts!Callers, NEW r, call' = [call EXCEPT ![c] = r]
  PROVE  call'[c] = r /\ \A d \in Hosts!Callers : d # c => call'[d] = call[d]
  BY DEF HostTypeOK

\* The answer to a call ends it.
LEMMA NoCallIsOne ==
  /\ Hosts!NoCall \in CallRecord /\ Hosts!NoCall.step = "idle" /\ Hosts!NoCall.topic = "none"
  BY DEF Hosts!NoCall, CallRecord

Begun(v, t) == [Hosts!NoCall EXCEPT !.verb = v, !.topic = t, !.step = "ensure"]

\* A call that begins.
LEMMA BeginsOne ==
  ASSUME NEW v \in {"host", "unhost"}, NEW t \in Topic
  PROVE  /\ Begun(v, t) \in CallRecord /\ Begun(v, t).step = "ensure"
         /\ Begun(v, t).topic = t /\ Begun(v, t).verb = v
  BY DEF Hosts!NoCall, CallRecord, Begun

\* A call on a topic begins.
LEMMA CallsKeeps ==
  ASSUME HostIInv, NEW c \in Caller, NEW v \in {"host", "unhost"}, NEW t \in Topic, Hosts!Calls(c, v, t)
  PROVE  HostIInv'
<1> USE ToolsAssumption DEF Held
<1> DEFINE r == Begun(v, t)
<1>0. HostTypeOK /\ OnePeer /\ c \in Hosts!Callers /\ c # "reconnect"
  BY DEF HostIInv, Hosts!Callers
<1>1. /\ call[c].step = "idle" /\ ~down /\ call' = [call EXCEPT ![c] = r]
      /\ mixed' = IF Hosts!Busy(t) \/ rebuild # "idle" THEN mixed \cup {t} ELSE mixed
      /\ UNCHANGED <<session, made, onPeer, kept, HOSTED, rebuild, before, down>>
  BY DEF Hosts!Calls, Begun
<1>2. r \in CallRecord /\ r.step = "ensure" /\ r.topic = t /\ r.verb = v
  BY BeginsOne
<1> HIDE DEF r
<1>3. call'[c] = r /\ \A d \in Hosts!Callers : d # c => call'[d] = call[d]
  BY <1>0, <1>1, OnlyThisCall
<1>4. HostTypeOK'
  BY <1>0, <1>1, <1>2 DEF HostTypeOK
<1>5. OnePeer'
  BY <1>0, <1>1, <1>2, <1>3 DEF OnePeer
<1>6. ASSUME NEW u \in Topic \ mixed' PROVE Unmixed(u)'
  <2>0. u \notin mixed /\ Unmixed(u) /\ call[c].topic # u
    BY <1>0, <1>1, <1>6 DEF HostIInv, OnePeer
  <2>1. CASE u # t
    BY <1>0, <1>1, <1>2, <1>3, <2>0, <2>1, UnmixedStays DEF OnePeer, HostTypeOK, Unmixed, Stands
  <2>2. CASE u = t
    <3>1. ~Hosts!Busy(t) /\ rebuild = "idle"
      BY <1>1, <1>6, <2>2
    <3>2. \A d \in Hosts!Callers : call'[d].topic = t => d = c
      BY <1>3, <3>1 DEF Hosts!Busy
    <3>3. t \in HOSTED <=> t \in Held
      BY <2>0, <2>2, <3>1 DEF Unmixed
    <3>4. Stands(c, t)'
      BY <1>0, <1>1, <1>2, <1>3, <3>1, <3>3 DEF Stands
    <3>5. Hosts!Busy(t)'
      BY <1>0, <1>2, <1>3 DEF Hosts!Busy
    <3> QED BY <2>2, <3>2, <3>4, <3>5 DEF Unmixed
  <2> QED BY <2>1, <2>2
<1> QED BY <1>4, <1>5, <1>6 DEF HostIInv

\* A call is refused, or finds a session and what there is to do.
LEMMA ChecksKeeps ==
  ASSUME HostIInv, NEW c \in Hosts!Callers, Hosts!Checks(c)
  PROVE  HostIInv'
<1> USE ToolsAssumption DEF Held
<1> DEFINE t == call[c].topic
<1>0. HostTypeOK /\ OnePeer /\ call[c] \in CallRecord /\ call[c].step = "ensure"
      /\ t \in Topic /\ call[c].verb \in {"host", "unhost"}
  BY DEF HostIInv, HostTypeOK, OnePeer, CallRecord, Hosts!Checks
<1>1. /\ made' \in Nat /\ session' \in Nat /\ onPeer' = onPeer
      /\ (session' # 0 => session' = made')
      /\ (session # 0 => session' # 0 /\ made' = made)
  <2>1. CASE Hosts!Ensured
    BY <1>0, <2>1, EnsuredKeeps
  <2>2. CASE UNCHANGED <<session, made, onPeer>>
    BY <1>0, <2>2 DEF HostTypeOK, OnePeer
  <2> QED BY <2>1, <2>2 DEF Hosts!Checks
<1>2. UNCHANGED <<kept, HOSTED, rebuild, before, down, mixed>>
  BY DEF Hosts!Checks
<1>3. \/ call' = [call EXCEPT ![c] = Hosts!NoCall]
      \/ /\ call' = [call EXCEPT ![c].step = "peer", ![c].peer = session']
         /\ (call[c].verb = "host") # (t \in HOSTED) /\ session' # 0 /\ session' = made' /\ ~down
  BY <1>0, EnsuredKeeps DEF Hosts!Checks, Hosts!Answers
<1>4. CASE call' = [call EXCEPT ![c] = Hosts!NoCall]
  <2>1. call'[c] = Hosts!NoCall /\ \A d \in Hosts!Callers : d # c => call'[d] = call[d]
    BY <1>0, <1>4, OnlyThisCall
  <2>2. HostTypeOK' /\ OnePeer'
    BY <1>0, <1>1, <1>2, <1>4, <2>1, NoCallIsOne DEF HostTypeOK, OnePeer
  <2>3. ASSUME NEW u \in Topic \ mixed' PROVE Unmixed(u)'
    <3>0. u \notin mixed /\ Unmixed(u)
      BY <1>2, <2>3 DEF HostIInv
    <3>1. CASE u # t
      <4>1. \A d \in Hosts!Callers : call[d].topic = u /\ call[d].step = "peer" => session # 0
        BY <3>0 DEF Unmixed, Stands
      <4> QED BY <1>0, <1>1, <1>2, <2>1, <3>0, <3>1, <4>1, NoCallIsOne, UnmixedStays
    <3>2. CASE u = t
      <4>1. (u \in HOSTED <=> u \in Held) /\ \A d \in Hosts!Callers : call[d].topic = u => d = c
        BY <1>0, <3>0, <3>2 DEF Unmixed, Stands
      <4>2. \A d \in Hosts!Callers : call'[d].topic # u
        BY <2>1, <3>2, <4>1, NoCallIsOne
      <4> QED BY <1>1, <1>2, <4>1, <4>2 DEF Unmixed, Hosts!Busy
    <3> QED BY <3>1, <3>2
  <2> QED BY <2>2, <2>3 DEF HostIInv
<1>5. CASE /\ call' = [call EXCEPT ![c].step = "peer", ![c].peer = session']
           /\ (call[c].verb = "host") # (t \in HOSTED) /\ session' # 0 /\ session' = made' /\ ~down
  <2>1. /\ call'[c] = [call[c] EXCEPT !.step = "peer", !.peer = session']
        /\ \A d \in Hosts!Callers : d # c => call'[d] = call[d]
    BY <1>0, <1>5 DEF HostTypeOK
  <2>2. /\ call'[c] \in CallRecord /\ call'[c].step = "peer" /\ call'[c].peer = session'
        /\ call'[c].topic = t /\ call'[c].verb = call[c].verb
    BY <1>0, <1>1, <2>1 DEF CallRecord
  <2>3. HostTypeOK'
    BY <1>0, <1>1, <1>2, <1>5, <2>1, <2>2 DEF HostTypeOK
  <2>4. OnePeer'
    <3>1. \A d \in Hosts!Callers : /\ call'[d].step = "idle" <=> call[d].step = "idle"
                                 /\ call'[d].topic = call[d].topic /\ call'[d].verb = call[d].verb
      BY <1>0, <2>1, <2>2
    <3>2. session' # 0
      BY <1>5
    <3>3. "reconnect" \in Hosts!Callers
      BY DEF Hosts!Callers
    <3> QED BY <1>0, <1>1, <1>2, <3>1, <3>2, <3>3 DEF OnePeer
  <2>5. ASSUME NEW u \in Topic \ mixed' PROVE Unmixed(u)'
    <3>0. u \notin mixed /\ Unmixed(u)
      BY <1>2, <2>5 DEF HostIInv
    <3>1. CASE u # t
      <4>1. \A d \in Hosts!Callers : call[d].topic = u /\ call[d].step = "peer" => session # 0
        BY <3>0 DEF Unmixed, Stands
      <4> QED BY <1>0, <1>1, <1>2, <2>1, <2>2, <3>0, <3>1, <4>1, UnmixedStays
    <3>2. CASE u = t
      <4>1. (u \in HOSTED <=> u \in Held) /\ (\A d \in Hosts!Callers : call[d].topic = u => d = c) /\ Stands(c, u)
        BY <1>0, <3>0, <3>2 DEF Unmixed, Stands
      <4>2. \A d \in Hosts!Callers : call'[d].topic = u => d = c
        BY <2>1, <4>1
      <4>3. (call[c].verb = "host") <=> u \notin HOSTED
        BY <1>5, <3>2
      <4>4. Stands(c, u)'
        BY <1>1, <1>2, <1>5, <2>2, <4>1, <4>3 DEF Stands
      <4>5. Hosts!Busy(u)'
        BY <2>2, <3>2 DEF Hosts!Busy
      <4> QED BY <4>2, <4>4, <4>5 DEF Unmixed
    <3> QED BY <3>1, <3>2
  <2> QED BY <2>3, <2>4, <2>5 DEF HostIInv
<1> QED BY <1>3, <1>4, <1>5

\* The peer hosts or unhosts, or fails to.
LEMMA PeerActsKeeps ==
  ASSUME HostIInv, NEW c \in Hosts!Callers, Hosts!PeerActs(c)
  PROVE  HostIInv'
<1> USE ToolsAssumption DEF Held
<1> DEFINE t == call[c].topic
<1>0. HostTypeOK /\ OnePeer /\ call[c] \in CallRecord /\ call[c].step = "peer"
      /\ t \in Topic /\ call[c].verb \in {"host", "unhost"}
  BY DEF HostIInv, HostTypeOK, OnePeer, CallRecord, Hosts!PeerActs
<1>1. PICK ok \in BOOLEAN :
       /\ call' = [call EXCEPT ![c].step = "list", ![c].found = ok]
       /\ IF call[c].peer # made \/ session = 0 THEN UNCHANGED <<onPeer, kept>>
          ELSE IF ok
          THEN /\ kept' = kept \ {t}
               /\ onPeer' = IF call[c].verb = "host" THEN onPeer \cup {t} ELSE onPeer \ {t}
          ELSE /\ kept' = IF call[c].verb = "unhost" THEN kept \cup {t} ELSE kept
               /\ UNCHANGED onPeer
  BY DEF Hosts!PeerActs
<1>2. UNCHANGED <<session, made, HOSTED, rebuild, before, down, mixed>>
  BY DEF Hosts!PeerActs
<1>3. /\ call'[c] = [call[c] EXCEPT !.step = "list", !.found = ok]
      /\ \A d \in Hosts!Callers : d # c => call'[d] = call[d]
  BY <1>0, <1>1 DEF HostTypeOK
<1>4. /\ call'[c] \in CallRecord /\ call'[c].step = "list" /\ (call'[c].found <=> ok)
      /\ call'[c].topic = t /\ call'[c].verb = call[c].verb
  BY <1>0, <1>3 DEF CallRecord
<1>5. call' \in [Hosts!Callers -> CallRecord]
  BY <1>0, <1>1, <1>3, <1>4 DEF HostTypeOK
<1>6. onPeer' \in SUBSET Topic /\ kept' \in SUBSET Topic
      /\ (session = 0 => onPeer' = onPeer /\ kept' = kept)
  BY <1>0, <1>1 DEF HostTypeOK
<1>7. HostTypeOK' /\ OnePeer'
  <2>1. \A d \in Hosts!Callers : /\ call'[d].step = "idle" <=> call[d].step = "idle"
                               /\ call'[d].topic = call[d].topic /\ call'[d].verb = call[d].verb
    BY <1>0, <1>3, <1>4
  <2>2. "reconnect" \in Hosts!Callers
    BY DEF Hosts!Callers
  <2>3. HostTypeOK'
    BY <1>0, <1>2, <1>5, <1>6 DEF HostTypeOK
  <2> QED BY <1>0, <1>2, <1>6, <2>1, <2>2, <2>3 DEF OnePeer
<1>8. ASSUME NEW u \in Topic \ mixed' PROVE Unmixed(u)'
  <2>0. u \notin mixed /\ Unmixed(u)
    BY <1>2, <1>8 DEF HostIInv
  <2>1. CASE u # t
    <3>1. \A d \in Hosts!Callers : call[d].topic = u /\ call[d].step = "peer" => session # 0
      BY <2>0 DEF Unmixed, Stands
    <3>2. u \in Held' <=> u \in Held
      BY <1>1, <2>1
    <3> QED BY <1>0, <1>2, <1>3, <1>4, <2>0, <2>1, <3>1, <3>2, UnmixedStays
  <2>2. CASE u = t
    <3>1. (\A d \in Hosts!Callers : call[d].topic = u => d = c) /\ Stands(c, u)
      BY <1>0, <2>0, <2>2 DEF Unmixed
    <3>2. \A d \in Hosts!Callers : call'[d].topic = u => d = c
      BY <1>3, <3>1
    <3>3. /\ session # 0 /\ call[c].peer = made /\ (u \in HOSTED <=> u \in Held)
          /\ (call[c].verb = "host" <=> u \notin HOSTED) /\ ~down
      BY <1>0, <3>1 DEF Stands
    <3>4. CASE call[c].verb = "host"
      <4>1. u \notin HOSTED /\ (ok <=> u \in Held')
        BY <1>1, <2>2, <3>3, <3>4
      <4>2. Stands(c, u)'
        BY <1>2, <1>4, <3>1, <3>3, <3>4, <4>1 DEF Stands
      <4> QED BY <1>4, <2>2, <3>2, <4>2 DEF Unmixed, Hosts!Busy
    <3>5. CASE call[c].verb = "unhost"
      <4>1. u \notin Held'
        BY <1>1, <2>2, <3>3, <3>5
      <4>2. Stands(c, u)'
        BY <1>2, <1>4, <3>1, <3>3, <3>5, <4>1 DEF Stands
      <4> QED BY <1>4, <2>2, <3>2, <4>2 DEF Unmixed, Hosts!Busy
    <3> QED BY <1>0, <3>4, <3>5
  <2> QED BY <2>1, <2>2
<1> QED BY <1>7, <1>8 DEF HostIInv

\* The list follows what the peer did.
LEMMA ListsKeeps ==
  ASSUME HostIInv, NEW c \in Hosts!Callers, Hosts!Lists(c)
  PROVE  HostIInv'
<1> USE ToolsAssumption DEF Held
<1> DEFINE t == call[c].topic
<1>0. HostTypeOK /\ OnePeer /\ call[c] \in CallRecord /\ call[c].step = "list"
      /\ t \in Topic /\ call[c].verb \in {"host", "unhost"}
  BY DEF HostIInv, HostTypeOK, OnePeer, CallRecord, Hosts!Lists
<1>1. /\ call' = [call EXCEPT ![c] = Hosts!NoCall]
      /\ HOSTED' = IF call[c].verb = "unhost" THEN HOSTED \ {t}
                   ELSE IF call[c].found THEN HOSTED \cup {t} ELSE HOSTED
      /\ UNCHANGED <<session, made, onPeer, kept, rebuild, before, down, mixed>>
  BY DEF Hosts!Lists, Hosts!Answers, Hosts!Listed
<1>2. call'[c] = Hosts!NoCall /\ \A d \in Hosts!Callers : d # c => call'[d] = call[d]
  BY <1>0, <1>1, OnlyThisCall
<1>3. HostTypeOK' /\ OnePeer'
  BY <1>0, <1>1, <1>2, NoCallIsOne DEF HostTypeOK, OnePeer
<1>4. ASSUME NEW u \in Topic \ mixed' PROVE Unmixed(u)'
  <2>0. u \notin mixed /\ Unmixed(u)
    BY <1>1, <1>4 DEF HostIInv
  <2>1. CASE u # t
    <3>1. \A d \in Hosts!Callers : call[d].topic = u /\ call[d].step = "peer" => session # 0
      BY <2>0 DEF Unmixed, Stands
    <3>2. u \in HOSTED' <=> u \in HOSTED
      BY <1>1, <2>1
    <3> QED BY <1>0, <1>1, <1>2, <2>0, <2>1, <3>1, <3>2, NoCallIsOne, UnmixedStays
  <2>2. CASE u = t
    <3>1. (\A d \in Hosts!Callers : call[d].topic = u => d = c) /\ Stands(c, u)
      BY <1>0, <2>0, <2>2 DEF Unmixed
    <3>2. \A d \in Hosts!Callers : call'[d].topic # u
      BY <1>2, <2>2, <3>1, NoCallIsOne
    <3>3. u \in HOSTED' <=> u \in Held
      BY <1>0, <1>1, <2>2, <3>1 DEF Stands
    <3> QED BY <1>1, <3>2, <3>3 DEF Unmixed, Hosts!Busy
  <2> QED BY <2>1, <2>2
<1> QED BY <1>3, <1>4 DEF HostIInv

\* reconnect() and shutdown() begin, and mark what they overlap.
LEMMA OverlapsKeeps ==
  ASSUME HostIInv, Hosts!Reconnect \/ Hosts!ShutsDown
  PROVE  HostIInv'
<1> USE DEF Held
<1>0. HostTypeOK /\ OnePeer
  BY DEF HostIInv
<1>1. /\ UNCHANGED <<session, made, onPeer, kept, HOSTED, call>>
      /\ mixed' = mixed \cup Hosts!InFlight
  BY DEF Hosts!Reconnect, Hosts!ShutsDown
<1>2. HostTypeOK'
  BY <1>0 DEF HostTypeOK, Hosts!Reconnect, Hosts!ShutsDown, Hosts!InFlight
<1>3. OnePeer'
  BY <1>0, <1>1 DEF OnePeer, Hosts!Reconnect, Hosts!ShutsDown
<1>4. ASSUME NEW u \in Topic \ mixed' PROVE Unmixed(u)'
  <2>1. u \notin mixed /\ Unmixed(u) /\ ~Hosts!Busy(u)
    BY <1>1, <1>4 DEF HostIInv, Hosts!InFlight
  <2>2. \A c \in Hosts!Callers : call[c].topic # u
    BY <2>1 DEF Hosts!Busy
  <2> QED BY <1>1, <2>1, <2>2 DEF Unmixed, Hosts!Busy
<1> QED BY <1>2, <1>3, <1>4 DEF HostIInv

\* The session is forgotten, with its list and what its peer hosted.
LEMMA ForgetsKeeps ==
  ASSUME HostIInv, Hosts!Closed \/ Hosts!Forgets
  PROVE  HostIInv'
<1> USE DEF Held
<1>0. HostTypeOK /\ OnePeer
  BY DEF HostIInv
<1>1. /\ session' = 0 /\ HOSTED' = {} /\ onPeer' = {} /\ kept' = {} /\ UNCHANGED <<made, call, before, down, mixed>>
      /\ (rebuild = "close" /\ rebuild' = "connect") \/ (down /\ rebuild' = rebuild)
  BY DEF Hosts!Closed, Hosts!Forgets
<1>2. HostTypeOK'
  BY <1>0, <1>1 DEF HostTypeOK
<1>3. OnePeer'
  BY <1>0, <1>1 DEF OnePeer
<1>4. ASSUME NEW u \in Topic \ mixed' PROVE Unmixed(u)'
  <2>0. u \notin mixed /\ Unmixed(u)
    BY <1>1, <1>4 DEF HostIInv
  <2>1. ASSUME NEW c \in Hosts!Callers, call[c].topic = u PROVE Stands(c, u)'
    <3>0. Stands(c, u) /\ call[c].step # "idle" /\ (c = "reconnect" => rebuild = "rehost")
      BY <1>0, <2>0, <2>1, ToolsAssumption DEF Unmixed, OnePeer
    <3>1. CASE rebuild = "close"
      BY <3>0, <3>1 DEF Stands
    <3>2. CASE down /\ rebuild' = rebuild
      BY <1>1, <3>0, <3>2 DEF Stands
    <3> QED BY <1>1, <3>1, <3>2
  <2> QED BY <1>1, <2>0, <2>1 DEF Unmixed, Hosts!Busy
<1> QED BY <1>2, <1>3, <1>4 DEF HostIInv

\* The rebuild goes on, or is over, and no call of its own is under way.
LEMMA RebuildKeeps ==
  ASSUME HostIInv, Hosts!Reconnected \/ Hosts!Rebuilt
  PROVE  HostIInv'
<1> USE DEF Held
<1>0. HostTypeOK /\ OnePeer /\ "reconnect" \in Hosts!Callers
  BY DEF HostIInv, Hosts!Callers
<1>1. /\ made' \in Nat /\ session' \in Nat /\ onPeer' = onPeer
      /\ (session' # 0 => session' = made')
      /\ (session # 0 => session' # 0 /\ made' = made)
  <2>1. CASE Hosts!Ensured
    BY <1>0, <2>1, EnsuredKeeps
  <2>2. CASE UNCHANGED <<session, made, onPeer>>
    BY <1>0, <2>2 DEF HostTypeOK, OnePeer
  <2> QED BY <2>1, <2>2 DEF Hosts!Reconnected, Hosts!Rebuilt
<1>2. UNCHANGED <<kept, HOSTED, call, down, mixed>> /\ before' \in SUBSET Topic
      /\ rebuild' \in {"idle", "rehost"} /\ rebuild # "idle" /\ call["reconnect"].step = "idle"
  BY <1>0 DEF Hosts!Reconnected, Hosts!Rebuilt, HostTypeOK, OnePeer
<1>3. HostTypeOK'
  BY <1>0, <1>1, <1>2 DEF HostTypeOK
<1>4. OnePeer'
  BY <1>0, <1>1, <1>2 DEF OnePeer
<1>5. ASSUME NEW u \in Topic \ mixed' PROVE Unmixed(u)'
  <2>0. u \notin mixed /\ Unmixed(u)
    BY <1>2, <1>5 DEF HostIInv
  <2>1. \A c \in Hosts!Callers : call[c].topic # u
    <3> SUFFICES ASSUME NEW c \in Hosts!Callers, call[c].topic = u PROVE FALSE
      OBVIOUS
    <3>1. Stands(c, u) /\ call[c].step # "idle"
      BY <1>0, <2>0, ToolsAssumption DEF Unmixed, OnePeer
    <3> QED BY <1>2, <3>1 DEF Stands
  <2> QED BY <1>1, <1>2, <2>0, <2>1 DEF Unmixed, Hosts!Busy
<1> QED BY <1>3, <1>4, <1>5 DEF HostIInv

\* The rebuild hosts a topic again, which no other call is about.
LEMMA RehostKeeps ==
  ASSUME HostIInv, NEW t \in Topic, Hosts!Rehost(t)
  PROVE  HostIInv'
<1> USE ToolsAssumption DEF Held
<1> DEFINE r == Begun("host", t)
           c == "reconnect"
<1>0. HostTypeOK /\ OnePeer /\ c \in Hosts!Callers
  BY DEF HostIInv, Hosts!Callers
<1>1. /\ rebuild = "rehost" /\ call[c].step = "idle" /\ call' = [call EXCEPT ![c] = r]
      /\ before' \in SUBSET Topic
      /\ UNCHANGED <<session, made, onPeer, kept, HOSTED, rebuild, down, mixed>>
  BY <1>0 DEF Hosts!Rehost, Begun, HostTypeOK
<1>2. r \in CallRecord /\ r.step = "ensure" /\ r.topic = t /\ r.verb = "host"
  BY BeginsOne
<1> HIDE DEF r
<1>3. call'[c] = r /\ \A d \in Hosts!Callers : d # c => call'[d] = call[d]
  BY <1>0, <1>1, OnlyThisCall
<1>4. HostTypeOK'
  BY <1>0, <1>1, <1>2 DEF HostTypeOK
<1>5. OnePeer'
  BY <1>0, <1>1, <1>2, <1>3 DEF OnePeer
<1>6. ASSUME NEW u \in Topic \ mixed' PROVE Unmixed(u)'
  <2>0. u \notin mixed /\ Unmixed(u)
    BY <1>1, <1>6 DEF HostIInv
  <2>1. \A d \in Hosts!Callers : call[d].topic # u
    <3> SUFFICES ASSUME NEW d \in Hosts!Callers, call[d].topic = u PROVE FALSE
      OBVIOUS
    <3>1. Stands(d, u) /\ call[d].step # "idle"
      BY <1>0, <2>0 DEF Unmixed, OnePeer
    <3> QED BY <1>1, <3>1 DEF Stands
  <2>2. \A d \in Hosts!Callers : call'[d].topic = u => d = c
    BY <1>3, <2>1
  <2>3. u \in HOSTED <=> u \in Held
    BY <2>0, <2>1 DEF Unmixed, Hosts!Busy
  <2>4. call'[c].topic = u => Stands(c, u)'
    BY <1>1, <1>2, <1>3, <2>3 DEF Stands
  <2> QED BY <1>1, <2>2, <2>3, <2>4 DEF Unmixed, Hosts!Busy
<1> QED BY <1>4, <1>5, <1>6 DEF HostIInv

\* A topic nobody is calling about is listed exactly when the current peer hosts
\* it and no unhost() of it failed since, unless calls about it overlapped, for
\* any callers, topics and sessions (mcp-session.js 540-557, 649-665, 756-767).
THEOREM TheListIsTrue == ToolSpec => []ListSaysWhatIsHosted
<1>1. ToolInit => HostIInv
  <2> SUFFICES ASSUME ToolInit PROVE HostIInv
    OBVIOUS
  <2>1. /\ session = 0 /\ made = 0 /\ onPeer = {} /\ kept = {} /\ HOSTED = {} /\ rebuild = "idle"
        /\ before = {} /\ down = FALSE /\ mixed = {}
        /\ call = [c \in Hosts!Callers |-> Hosts!NoCall]
    BY DEF ToolInit, Hosts!HostInit
  <2>2. \A c \in Hosts!Callers : call[c] = Hosts!NoCall
    BY <2>1
  <2>3. HostTypeOK
    BY <2>1, NoCallIsOne DEF HostTypeOK
  <2>4. OnePeer
    BY <2>1, <2>2, NoCallIsOne DEF OnePeer, Hosts!Callers
  <2>5. \A t \in Topic : Unmixed(t)
    BY <2>1, <2>2, NoCallIsOne, ToolsAssumption DEF Unmixed, Held
  <2> QED BY <2>3, <2>4, <2>5 DEF HostIInv
<1>2. [ToolNext]_toolVars => [Hosts!HostStep]_(Hosts!hostVars)
  BY DEF ToolNext, toolVars, Others, hostVs, Hosts!hostVars
<1>3. HostIInv /\ [Hosts!HostStep]_(Hosts!hostVars) => HostIInv'
  <2> SUFFICES ASSUME HostIInv, [Hosts!HostStep]_(Hosts!hostVars) PROVE HostIInv'
    OBVIOUS
  <2>1. CASE UNCHANGED Hosts!hostVars
    BY <2>1 DEF Hosts!hostVars, HostIInv, HostTypeOK, OnePeer, Unmixed, Stands, Held, Hosts!Busy
  <2> QED BY <2>1, CallsKeeps, ChecksKeeps, PeerActsKeeps, ListsKeeps, OverlapsKeeps,
             ForgetsKeeps, RebuildKeeps, RehostKeeps DEF Hosts!HostStep
<1>4. HostIInv => ListSaysWhatIsHosted
  BY DEF HostIInv, Unmixed, Held, ListSaysWhatIsHosted, Hosts!ListSaysWhatIsHosted
<1>5. HostIInv /\ [ToolNext]_toolVars => HostIInv'
  BY <1>2, <1>3
<1> QED BY <1>1, <1>4, <1>5, PTL DEF ToolSpec

-----------------------------------------------------------------------------
(* Locate.  The services are asked one after the other: those before the    *)
(* current one failed, those after it were not asked.                       *)

Failed == {"timeout", "refused", "useless", "broken"}

LocateTypeOK ==
  /\ asks \in Location!Settings /\ provider \in 1 .. ProviderCount + 1
  /\ reached \in {"no", "request", "body"}
  /\ answers \in [Location!Provider -> Failed \cup {"unasked", "found"}]

Asking ==
  /\ \A p \in Location!Provider : p < provider => answers[p] \in Failed
  /\ \A p \in Location!Provider : p > provider => answers[p] = "unasked"
  /\ provider \in Location!Provider => answers[provider] = IF located = "ip-geo" THEN "found" ELSE "unasked"
  /\ located = "ip-geo" => provider \in Location!Provider
  /\ located \in {"timezone", "default(auto-failed)"} => provider = ProviderCount + 1

Told ==
  /\ located = "off" <=> bridgeTo = "off"
  /\ located = "off" => provider = 1 /\ reached = "no"
  /\ reached # "no" => provider \in Location!Provider
  /\ provider # 1 \/ reached # "no" \/ located = "ip-geo" => asks.region = "auto"
  /\ bridgeTo \notin {"off", "boot"} => bridgeTo = Location!resolveBridgeUrl
  /\ bridgeTo \in {"boot", "error"} => located = "boot"

LocateIInv == LocateTypeOK /\ Asking /\ Told

\* A service that failed is behind the next one.
LEMMA NextProviderKeeps ==
  ASSUME LocateIInv, Location!Detecting, provider \in Location!Provider,
         NEW a \in Failed, Location!NextProvider(a)
  PROVE  LocateIInv'
<1>0. LocateTypeOK /\ Asking /\ Told /\ ProviderCount \in Nat
  BY ToolsAssumption DEF LocateIInv
<1>1. /\ answers' = [answers EXCEPT ![provider] = a] /\ provider' = provider + 1 /\ reached' = "no"
      /\ asks' = asks /\ located' = located /\ bridgeTo' = bridgeTo /\ located = "boot"
      /\ asks.region = "auto" /\ bridgeTo \notin {"off", "boot", "error"}
  BY DEF Location!NextProvider, Location!Detecting
<1>2. LocateTypeOK'
  BY <1>0, <1>1 DEF LocateTypeOK, Location!Provider
<1>3. answers'[provider] = a /\ \A p \in Location!Provider : p # provider => answers'[p] = answers[p]
  BY <1>0, <1>1 DEF LocateTypeOK
<1>4. \A p \in Location!Provider : p \in Int /\ (p < provider' <=> p < provider \/ p = provider)
  BY <1>0, <1>1 DEF LocateTypeOK, Location!Provider
<1>5. Asking'
  <2>1. \A p \in Location!Provider : p < provider' => answers'[p] \in Failed
    BY <1>0, <1>3, <1>4 DEF Asking
  <2>2. \A p \in Location!Provider : p > provider' => answers'[p] = "unasked"
    BY <1>0, <1>1, <1>3 DEF Asking, LocateTypeOK, Location!Provider
  <2>3. provider' \in Location!Provider => answers'[provider'] = "unasked"
    BY <1>0, <1>1, <1>3 DEF Asking, LocateTypeOK, Location!Provider
  <2> QED BY <1>1, <2>1, <2>2, <2>3 DEF Asking
<1>6. Told'
  BY <1>0, <1>1 DEF Told, Location!resolveBridgeUrl, Location!resolveNetwork
<1> QED BY <1>2, <1>5, <1>6 DEF LocateIInv

\* Every step of a start keeps the order in which services are asked, and the
\* bridge that was chosen.
LEMMA LocateKept ==
  ASSUME LocateIInv, [Location!LocateStep]_(Location!locateVars) PROVE LocateIInv'
<1>0. LocateTypeOK /\ Asking /\ Told /\ ProviderCount \in Nat
  BY ToolsAssumption DEF LocateIInv
<1> USE DEF Location!resolveBridgeUrl, Location!resolveNetwork
<1>1. CASE UNCHANGED Location!locateVars
  BY <1>0, <1>1 DEF Location!locateVars, LocateIInv, LocateTypeOK, Asking, Told
<1>2. CASE Location!Configured
  BY <1>0, <1>2 DEF Location!Configured, LocateIInv, LocateTypeOK, Asking, Told
<1>3. CASE Location!ChooseBridge
  <2>1. bridgeTo' = Location!resolveBridgeUrl /\ bridgeTo' \notin {"off", "boot"}
    <3>1. asks.flag \in Location!Names /\ asks.env \in Location!Names
      BY <1>0 DEF LocateTypeOK, Location!Settings
    <3> QED BY <1>3, <3>1 DEF Location!ChooseBridge, Location!Names
  <2> QED BY <1>0, <1>3, <2>1 DEF Location!ChooseBridge, LocateIInv, LocateTypeOK, Asking, Told
<1>4. CASE Location!ResolveRegion
  <2>1. located' \in {"RELAY_REGION", "exit", "latlng", "default"}
    BY <1>4 DEF Location!ResolveRegion
  <2> QED BY <1>0, <1>4, <2>1 DEF Location!ResolveRegion, LocateIInv, LocateTypeOK, Asking, Told
<1>5. CASE Location!AskProvider
  BY <1>0, <1>5 DEF Location!AskProvider, Location!Detecting, LocateIInv, LocateTypeOK, Asking, Told
<1>6. reached # "no" => provider \in Location!Provider
  BY <1>0 DEF Told
<1>7. CASE Location!NoAnswer \/ Location!BadBody
  <2>1. PICK a \in Failed : Location!NextProvider(a)
    BY <1>7 DEF Location!NoAnswer, Location!BadBody, Failed
  <2> QED BY <1>6, <1>7, <2>1, NextProviderKeeps DEF Location!NoAnswer, Location!BadBody
<1>8. CASE Location!Headers
  BY <1>0, <1>8 DEF Location!Headers, Location!Detecting, LocateIInv, LocateTypeOK, Asking, Told
<1>9. CASE Location!Found
  BY <1>0, <1>6, <1>9 DEF Location!Found, Location!Detecting, LocateIInv, LocateTypeOK, Asking, Told, Location!Provider, Failed
<1>10. CASE Location!TimeZone
  BY <1>0, <1>10 DEF Location!TimeZone, Location!Detecting, Location!AllFailed, LocateIInv, LocateTypeOK, Asking, Told, Location!Provider
<1> QED BY <1>1, <1>2, <1>3, <1>4, <1>5, <1>7, <1>8, <1>9, <1>10 DEF Location!LocateStep

\* A relay joins the network it was told, and asks a location service only when
\* told to, the services in turn, however many there are.
THEOREM GoesAsTold == ToolSpec => []GoesWhereItWasTold
<1>1. ToolInit => LocateIInv
  <2> SUFFICES ASSUME ToolInit PROVE LocateIInv
    OBVIOUS
  <2>1. Location!LocateInit
    BY DEF ToolInit
  <2> QED BY SMTT(30), <2>1, ToolsAssumption DEF Location!LocateInit, LocateIInv, LocateTypeOK, Asking, Told,
             Location!Settings, Location!Names, Location!Provider
<1>2. [ToolNext]_toolVars => [Location!LocateStep]_(Location!locateVars)
  BY DEF ToolNext, toolVars, Others, locateVs, Location!locateVars
<1>3. LocateIInv /\ [ToolNext]_toolVars => LocateIInv'
  BY <1>2, LocateKept
<1>4. LocateIInv => GoesWhereItWasTold
  <2> SUFFICES ASSUME LocateIInv PROVE Location!GoesWhereItWasTold
    BY DEF GoesWhereItWasTold
  <2>0. LocateTypeOK /\ Asking /\ Told /\ ProviderCount \in Nat
    BY ToolsAssumption DEF LocateIInv
  <2>1. \A p \in Location!Provider : p \in 1 .. ProviderCount
    BY DEF Location!Provider
  <2>2. (\E p \in Location!Provider : answers[p] # "unasked") \/ reached # "no" => asks.region = "auto"
    <3> SUFFICES ASSUME NEW p \in Location!Provider, answers[p] # "unasked" PROVE asks.region = "auto"
      BY <2>0 DEF Told
    <3>1. p < provider \/ (p = provider /\ located = "ip-geo")
      BY <2>0, <2>1 DEF Asking, LocateTypeOK
    <3> QED BY <2>0, <2>1, <3>1 DEF Told
  <2>3. located = "ip-geo" => \E p \in Location!Provider : answers[p] = "found"
                             /\ \A q \in 1 .. (p - 1) : answers[q] \notin {"found", "unasked"}
    <3> SUFFICES ASSUME located = "ip-geo"
                 PROVE \A q \in 1 .. (provider - 1) : answers[q] \notin {"found", "unasked"}
      BY <2>0 DEF Asking
    <3>1. \A q \in 1 .. (provider - 1) : q \in Location!Provider /\ q < provider
      BY <2>0 DEF LocateTypeOK, Location!Provider
    <3> QED BY <2>0, <3>1 DEF Asking, Failed
  <2>4. located \in {"timezone", "default(auto-failed)"} =>
          \A p \in Location!Provider : answers[p] \notin {"found", "unasked"}
    <3>1. \A p \in Location!Provider : p < ProviderCount + 1
      BY <2>0, <2>1
    <3> QED BY <2>0, <3>1 DEF Asking, Failed
  <2>5. asks.flag \in Location!Names /\ asks.env \in Location!Names
    BY <2>0 DEF LocateTypeOK, Location!Settings
  <2>6. bridgeTo \notin {"off", "boot", "url"} /\ asks.flag # "none" => bridgeTo \in {asks.flag, "error"}
    BY <2>0, <2>5 DEF Told, Location!resolveBridgeUrl, Location!resolveNetwork
  <2>7. bridgeTo \notin {"off", "boot", "url"} /\ asks.flag = "none" /\ asks.env \in {"prod", "testnet"}
          => bridgeTo = asks.env
    BY <2>0, <2>5 DEF Told, Location!resolveBridgeUrl, Location!resolveNetwork
  <2>8. bridgeTo = "error" => located = "boot"
    BY <2>0 DEF Told
  <2> QED BY <2>2, <2>3, <2>4, <2>6, <2>7, <2>8 DEF Location!GoesWhereItWasTold
<1> QED BY <1>1, <1>3, <1>4, PTL DEF ToolSpec

-----------------------------------------------------------------------------
(* The inbox.  A firing counted anywhere, in the schedule state or in a     *)
(* clock's copy of it, has its line; and whatever a copy of the cursor will *)
(* pass has been shown.                                                     *)

InboxLine == [kind : {"msg"} \cup Task, at : Nat]
PassRecord == [stage : {"off", "firing"}, at : Nat, left : SUBSET Task, last : [Task -> Nat]]
CursorRecord == [line : Nat, acked : [Task -> Nat]]
ReadRecord == [stage : {"off", "cursor", "print"}, mine : CursorRecord, upTo : Nat]

InboxTypeOK ==
  /\ minute \in Nat /\ inbox \in Seq(InboxLine) /\ fired \in [Task -> Nat]
  /\ pass \in [Clock -> PassRecord] /\ cursor \in CursorRecord
  /\ reading \in [DigestRun -> ReadRecord]

\* A firing at a minute has a line of that minute or later.
LineIn(lines, t, at) == at # 0 => \E i \in DOMAIN lines : lines[i].kind = t /\ lines[i].at >= at

EveryFiringHasItsLine ==
  /\ \A t \in Task : LineIn(inbox, t, fired[t])
  /\ \A c \in Clock : pass[c].at <= minute /\ \A t \in Task : LineIn(inbox, t, pass[c].last[t])

PassedIsShown ==
  /\ 1 .. cursor.line \subseteq shown
  /\ \A r \in DigestRun : /\ 1 .. reading[r].mine.line \subseteq shown
                          /\ reading[r].stage = "print" => 1 .. reading[r].upTo \subseteq shown

MinuteCounts == minute >= 1

InboxIInv == InboxTypeOK /\ MinuteCounts /\ EveryFiringHasItsLine /\ PassedIsShown

\* A line appended to the inbox leaves the others where they are.
LEMMA LineAppended ==
  ASSUME InboxTypeOK, NEW l \in InboxLine, inbox' = Append(inbox, l)
  PROVE  /\ inbox' \in Seq(InboxLine)
         /\ \A t, at : LineIn(inbox, t, at) => LineIn(inbox', t, at)
         /\ \A at \in Nat : at <= l.at => LineIn(inbox', l.kind, at)
<1>1. /\ inbox' \in Seq(InboxLine) /\ DOMAIN inbox = 1 .. Len(inbox) /\ DOMAIN inbox' = 1 .. Len(inbox) + 1
      /\ Len(inbox) \in Nat
      /\ \A i \in 1 .. Len(inbox) : inbox'[i] = inbox[i]
      /\ inbox'[Len(inbox) + 1] = l
  BY DEF InboxTypeOK
<1>2. Len(inbox) + 1 \in DOMAIN inbox' /\ \A i \in DOMAIN inbox : i \in DOMAIN inbox' /\ inbox'[i] = inbox[i]
  BY <1>1
<1>3. \A t, at : LineIn(inbox, t, at) => LineIn(inbox', t, at)
  BY <1>2 DEF LineIn
<1>4. l.at \in Nat
  BY DEF InboxLine
<1>5. \A at \in Nat : at <= l.at => LineIn(inbox', l.kind, at)
  BY <1>1, <1>2, <1>4 DEF LineIn
<1> QED BY <1>1, <1>3, <1>5

\* What a clock does keeps every firing with its line.
LEMMA ClockKeeps ==
  ASSUME InboxIInv, NEW c \in Clock,
         Reminders!PassBegins(c) \/ Reminders!PassEnds(c) \/ \E t \in Task : Reminders!fire(c, t)
  PROVE  InboxIInv'
<1>0. InboxTypeOK /\ EveryFiringHasItsLine /\ PassedIsShown /\ minute \in Nat /\ fired \in [Task -> Nat] /\ pass[c] \in PassRecord
  BY DEF InboxIInv, InboxTypeOK
<1>1. UNCHANGED <<minute, cursor, reading, shown>>
  BY DEF Reminders!PassBegins, Reminders!PassEnds, Reminders!fire
<1>2. PassedIsShown'
  BY <1>0, <1>1 DEF PassedIsShown
<1>3. ASSUME NEW p \in PassRecord, pass' = [pass EXCEPT ![c] = p], inbox' \in Seq(InboxLine), fired' \in [Task -> Nat],
             \A t, at : LineIn(inbox, t, at) => LineIn(inbox', t, at),
             p.at <= minute, \A t \in Task : LineIn(inbox', t, p.last[t]),
             \A t \in Task : LineIn(inbox', t, fired'[t])
      PROVE  InboxIInv'
  <2>1. pass'[c] = p /\ \A d \in Clock : d # c => pass'[d] = pass[d]
    BY <1>0, <1>3 DEF InboxTypeOK
  <2>2. InboxTypeOK'
    BY <1>0, <1>1, <1>3 DEF InboxTypeOK
  <2>3. \A d \in Clock : pass'[d].at <= minute'
    BY <1>0, <1>1, <1>3, <2>1 DEF EveryFiringHasItsLine
  <2>4. \A d \in Clock : \A t \in Task : LineIn(inbox', t, pass'[d].last[t])
    BY <1>0, <1>3, <2>1 DEF EveryFiringHasItsLine
  <2>5. EveryFiringHasItsLine'
    BY <1>3, <2>3, <2>4 DEF EveryFiringHasItsLine
  <2> QED BY <1>1, <1>2, <2>2, <2>5 DEF InboxIInv, MinuteCounts
<1>4. inbox' = inbox => (inbox' \in Seq(InboxLine) /\ \A t, at : LineIn(inbox, t, at) => LineIn(inbox', t, at))
  BY <1>0 DEF InboxTypeOK, LineIn
<1>5. CASE Reminders!PassBegins(c)
  <2> DEFINE p == [stage |-> "firing", at |-> minute, left |-> Task, last |-> fired]
  <2>1. p \in PassRecord /\ p.at = minute /\ p.last = fired
    BY <1>0 DEF PassRecord
  <2>2. pass' = [pass EXCEPT ![c] = p] /\ fired' = fired /\ inbox' = inbox
    BY <1>5 DEF Reminders!PassBegins
  <2> HIDE DEF p
  <2>3. \A t \in Task : LineIn(inbox', t, p.last[t]) /\ LineIn(inbox', t, fired'[t])
    BY <1>0, <1>4, <2>1, <2>2 DEF EveryFiringHasItsLine
  <2>4. p.at <= minute /\ fired' \in [Task -> Nat] /\ inbox' \in Seq(InboxLine)
        /\ \A t, at : LineIn(inbox, t, at) => LineIn(inbox', t, at)
    BY <1>0, <1>4, <2>1, <2>2
  <2> QED BY <1>3, <2>1, <2>2, <2>3, <2>4
<1>6. CASE Reminders!PassEnds(c)
  <2> DEFINE p == Reminders!Asleep
  <2>1. p \in PassRecord /\ p.at = 1 /\ \A t \in Task : p.last[t] = 0
    BY DEF PassRecord, Reminders!Asleep
  <2>2. pass' = [pass EXCEPT ![c] = p] /\ inbox' = inbox /\ pass[c].stage = "firing"
    BY <1>6 DEF Reminders!PassEnds
  <2>3. fired' = fired \/ fired' = pass[c].last
    BY <1>6 DEF Reminders!PassEnds
  <2> HIDE DEF p
  <2>4. fired' \in [Task -> Nat] /\ \A t \in Task : LineIn(inbox, t, fired'[t])
    BY <1>0, <2>3 DEF EveryFiringHasItsLine, PassRecord
  <2>5. \A t \in Task : LineIn(inbox', t, fired'[t]) /\ LineIn(inbox', t, p.last[t])
    BY <1>4, <2>1, <2>2, <2>4 DEF LineIn
  <2>6. p.at <= minute
    BY <1>0, <2>1 DEF InboxIInv, MinuteCounts
  <2> QED BY <1>3, <1>4, <2>1, <2>2, <2>4, <2>5, <2>6
<1>7. ASSUME NEW t \in Task, Reminders!fire(c, t) PROVE InboxIInv'
  <2>1. UNCHANGED fired
    BY <1>7 DEF Reminders!fire
  <2>2. CASE Reminders!Due(pass[c], t)
    <3> DEFINE l == [kind |-> t, at |-> minute]
               p == [pass[c] EXCEPT !.left = @ \ {t}, !.last[t] = pass[c].at]
    <3>1. inbox' = Append(inbox, l) /\ pass' = [pass EXCEPT ![c] = p]
      BY <1>7, <2>2 DEF Reminders!fire
    <3>2. l \in InboxLine /\ l.kind = t /\ l.at = minute
      BY <1>0 DEF InboxLine
    <3>3. p \in PassRecord /\ p.at = pass[c].at /\ p.last[t] = pass[c].at /\ \A u \in Task : u # t => p.last[u] = pass[c].last[u]
      BY <1>0 DEF PassRecord
    <3> HIDE DEF l, p
    <3>4. /\ inbox' \in Seq(InboxLine) /\ \A u, at : LineIn(inbox, u, at) => LineIn(inbox', u, at)
          /\ \A at \in Nat : at <= minute => LineIn(inbox', t, at)
      BY <1>0, <3>1, <3>2, LineAppended
    <3>5. pass[c].at \in Nat /\ pass[c].at <= minute
      BY <1>0 DEF PassRecord, EveryFiringHasItsLine
    <3>6. \A u \in Task : LineIn(inbox, u, pass[c].last[u]) /\ LineIn(inbox, u, fired[u])
      BY <1>0 DEF EveryFiringHasItsLine
    <3>7. \A u \in Task : LineIn(inbox', u, p.last[u])
      BY <3>3, <3>4, <3>5, <3>6
    <3>8. \A u \in Task : LineIn(inbox', u, fired'[u])
      BY <2>1, <3>4, <3>6
    <3> QED BY <1>0, <1>3, <2>1, <3>1, <3>3, <3>4, <3>5, <3>7, <3>8
  <2>3. CASE ~Reminders!Due(pass[c], t)
    <3> DEFINE p == [pass[c] EXCEPT !.left = @ \ {t}]
    <3>1. inbox' = inbox /\ pass' = [pass EXCEPT ![c] = p]
      BY <1>7, <2>3 DEF Reminders!fire
    <3>2. p \in PassRecord /\ p.at = pass[c].at /\ p.last = pass[c].last
      BY <1>0 DEF PassRecord
    <3> HIDE DEF p
    <3>3. p.at <= minute /\ \A u \in Task : LineIn(inbox', u, p.last[u]) /\ LineIn(inbox', u, fired'[u])
      BY <1>0, <1>4, <2>1, <3>1, <3>2 DEF EveryFiringHasItsLine
    <3> QED BY <1>0, <1>3, <1>4, <2>1, <3>1, <3>2, <3>3
  <2> QED BY <2>2, <2>3
<1> QED BY <1>5, <1>6, <1>7

\* What a digest does passes no line that was not shown.
LEMMA DigestKeeps ==
  ASSUME InboxIInv, NEW r \in DigestRun,
         \/ Reminders!ReadCursor(r) \/ Reminders!Digest(r) \/ Reminders!Advance(r) \/ Reminders!Leave(r)
         \/ \E t \in Task : Reminders!Ack(r, t)
  PROVE  InboxIInv'
<1>0. /\ InboxTypeOK /\ EveryFiringHasItsLine /\ PassedIsShown /\ minute \in Nat /\ minute >= 1
      /\ reading[r] \in ReadRecord /\ cursor \in CursorRecord /\ Len(inbox) \in Nat
  BY DEF InboxIInv, InboxTypeOK, MinuteCounts
<1>1. UNCHANGED <<minute, inbox, fired, pass>>
  BY DEF Reminders!ReadCursor, Reminders!Digest, Reminders!Advance, Reminders!Leave, Reminders!Ack, Reminders!WriteCursor
<1>2. EveryFiringHasItsLine'
  BY <1>0, <1>1 DEF EveryFiringHasItsLine, LineIn
<1>3. ASSUME NEW m \in ReadRecord, reading' = [reading EXCEPT ![r] = m], cursor' \in CursorRecord,
             shown \subseteq shown', 1 .. cursor'.line \subseteq shown', 1 .. m.mine.line \subseteq shown',
             m.stage = "print" => 1 .. m.upTo \subseteq shown'
      PROVE  InboxIInv'
  <2>1. reading'[r] = m /\ \A d \in DigestRun : d # r => reading'[d] = reading[d]
    BY <1>0, <1>3 DEF InboxTypeOK
  <2>2. InboxTypeOK'
    BY <1>0, <1>1, <1>3 DEF InboxTypeOK
  <2>3. \A d \in DigestRun : /\ 1 .. reading'[d].mine.line \subseteq shown'
                             /\ reading'[d].stage = "print" => 1 .. reading'[d].upTo \subseteq shown'
    BY <1>0, <1>3, <2>1 DEF PassedIsShown
  <2>4. PassedIsShown'
    BY <1>3, <2>3 DEF PassedIsShown
  <2> QED BY <1>0, <1>1, <1>2, <2>2, <2>4 DEF InboxIInv, MinuteCounts
<1>4. /\ Reminders!NoRead \in ReadRecord /\ Reminders!NoRead.stage # "print"
      /\ 1 .. Reminders!NoRead.mine.line \subseteq {}
  BY DEF Reminders!NoRead, Reminders!Closed0, ReadRecord, CursorRecord
<1>5. 1 .. cursor.line \subseteq shown /\ 1 .. reading[r].mine.line \subseteq shown
      /\ (reading[r].stage = "print" => 1 .. reading[r].upTo \subseteq shown)
  BY <1>0 DEF PassedIsShown
<1>6. CASE Reminders!ReadCursor(r)
  <2> DEFINE m == [stage |-> "cursor", mine |-> cursor, upTo |-> 0]
  <2>1. reading' = [reading EXCEPT ![r] = m] /\ cursor' = cursor /\ shown' = shown
    BY <1>6 DEF Reminders!ReadCursor
  <2>2. m \in ReadRecord /\ m.stage = "cursor" /\ m.mine = cursor
    BY <1>0 DEF ReadRecord
  <2> HIDE DEF m
  <2> QED BY <1>0, <1>3, <1>5, <2>1, <2>2
<1>7. CASE Reminders!Digest(r)
  <2> DEFINE m == [reading[r] EXCEPT !.stage = "print", !.upTo = Len(inbox)]
  <2>1. /\ reading' = [reading EXCEPT ![r] = m] /\ cursor' = cursor
        /\ shown' = shown \cup (reading[r].mine.line + 1 .. Len(inbox))
    BY <1>7 DEF Reminders!Digest
  <2>2. m \in ReadRecord /\ m.mine = reading[r].mine /\ m.upTo = Len(inbox)
    BY <1>0 DEF ReadRecord
  <2>3. reading[r].mine.line \in Nat
    BY <1>0 DEF ReadRecord, CursorRecord
  <2>4. 1 .. Len(inbox) \subseteq shown'
    BY <1>0, <1>5, <2>1, <2>3
  <2>5. shown \subseteq shown'
    BY <2>1
  <2> HIDE DEF m
  <2> QED BY <1>0, <1>3, <1>5, <2>1, <2>2, <2>4, <2>5
<1>8. ASSUME NEW k \in CursorRecord, Reminders!WriteCursor(r, k), 1 .. k.line \subseteq shown PROVE InboxIInv'
  <2>1. reading' = [reading EXCEPT ![r] = Reminders!NoRead] /\ cursor' = k /\ shown' = shown
    BY <1>8 DEF Reminders!WriteCursor
  <2> QED BY <1>3, <1>4, <1>8, <2>1
<1>9. CASE Reminders!Advance(r)
  <2> DEFINE k == [reading[r].mine EXCEPT !.line = reading[r].upTo]
  <2>1. reading[r].stage = "print" /\ Reminders!WriteCursor(r, k)
    BY <1>9 DEF Reminders!Advance
  <2>2. reading[r].mine \in CursorRecord /\ reading[r].upTo \in Nat
    BY <1>0 DEF ReadRecord
  <2>3. k \in CursorRecord /\ k.line = reading[r].upTo
    BY <2>2 DEF CursorRecord
  <2> HIDE DEF k
  <2> QED BY <1>5, <1>8, <2>1, <2>3
<1>10. ASSUME NEW t \in Task, Reminders!Ack(r, t) PROVE InboxIInv'
  <2> DEFINE k == [reading[r].mine EXCEPT !.acked[t] = minute]
  <2>1. Reminders!WriteCursor(r, k)
    BY <1>10 DEF Reminders!Ack
  <2>2. reading[r].mine \in CursorRecord
    BY <1>0 DEF ReadRecord
  <2>3. k \in CursorRecord /\ k.line = reading[r].mine.line
    BY <1>0, <2>2 DEF CursorRecord
  <2> HIDE DEF k
  <2> QED BY <1>5, <1>8, <2>1, <2>3
<1>11. CASE Reminders!Leave(r)
  <2>1. reading' = [reading EXCEPT ![r] = Reminders!NoRead] /\ cursor' = cursor /\ shown' = shown
    BY <1>11 DEF Reminders!Leave
  <2> QED BY <1>0, <1>3, <1>4, <1>5, <2>1
<1> QED BY <1>6, <1>7, <1>9, <1>10, <1>11

\* Every step of the inbox keeps it.
LEMMA InboxKept ==
  ASSUME InboxIInv, [Reminders!InboxStep]_(Reminders!inboxVars) PROVE InboxIInv'
<1>0. InboxTypeOK /\ EveryFiringHasItsLine /\ PassedIsShown /\ minute \in Nat
  BY DEF InboxIInv, InboxTypeOK
<1>1. CASE UNCHANGED Reminders!inboxVars
  BY <1>1 DEF Reminders!inboxVars, InboxIInv, InboxTypeOK, EveryFiringHasItsLine, PassedIsShown, LineIn, MinuteCounts
<1>2. CASE Reminders!MinutePasses
  <2>1. minute' = minute + 1 /\ UNCHANGED <<inbox, fired, pass, cursor, reading, shown>>
    BY <1>2 DEF Reminders!MinutePasses
  <2>2. \A c \in Clock : pass[c].at \in Nat
    BY <1>0 DEF InboxTypeOK, PassRecord
  <2>3. InboxTypeOK' /\ PassedIsShown'
    BY <1>0, <2>1 DEF InboxTypeOK, PassedIsShown
  <2>4. EveryFiringHasItsLine'
    BY <1>0, <2>1, <2>2 DEF EveryFiringHasItsLine, LineIn
  <2> QED BY <1>0, <2>1, <2>3, <2>4 DEF InboxIInv, MinuteCounts
<1>3. ASSUME NEW topic \in Reminders!Board, Reminders!onArrival(topic) PROVE InboxIInv'
  <2> DEFINE l == [kind |-> "msg", at |-> minute]
  <2>1. inbox' = Append(inbox, l) /\ UNCHANGED <<minute, fired, pass, cursor, reading, shown>>
    BY <1>3 DEF Reminders!onArrival
  <2>2. l \in InboxLine
    BY <1>0 DEF InboxLine
  <2> HIDE DEF l
  <2>3. inbox' \in Seq(InboxLine) /\ \A t, at : LineIn(inbox, t, at) => LineIn(inbox', t, at)
    BY <1>0, <2>1, <2>2, LineAppended
  <2>4. InboxTypeOK' /\ PassedIsShown'
    BY <1>0, <2>1, <2>3 DEF InboxTypeOK, PassedIsShown
  <2>5. EveryFiringHasItsLine'
    BY <1>0, <2>1, <2>3 DEF EveryFiringHasItsLine
  <2> QED BY <2>1, <2>4, <2>5 DEF InboxIInv, MinuteCounts
<1>4. ASSUME NEW c \in Clock, Reminders!PassBegins(c) \/ Reminders!PassEnds(c) \/ \E t \in Task : Reminders!fire(c, t)
      PROVE  InboxIInv'
  BY <1>4, ClockKeeps
<1>5. ASSUME NEW r \in DigestRun,
             \/ Reminders!ReadCursor(r) \/ Reminders!Digest(r) \/ Reminders!Advance(r) \/ Reminders!Leave(r)
             \/ \E t \in Task : Reminders!Ack(r, t)
      PROVE  InboxIInv'
  BY <1>5, DigestKeeps
<1> QED BY <1>1, <1>2, <1>3, <1>4, <1>5 DEF Reminders!InboxStep

\* A firing that has its line is outstanding until it is acked.
LEMMA NothingWaitsUnseen == InboxIInv => Reminders!NothingIsLost
<1> SUFFICES ASSUME InboxIInv PROVE Reminders!NothingIsLost
  OBVIOUS
<1>0. InboxTypeOK /\ EveryFiringHasItsLine /\ PassedIsShown
  BY DEF InboxIInv
<1>1. ASSUME NEW t \in Task, fired[t] # 0
      PROVE  /\ \E i \in DOMAIN inbox : inbox[i].kind = t /\ inbox[i].at >= fired[t]
             /\ cursor.acked[t] < fired[t] => t \in Reminders!outstanding
  <2>1. PICK i \in DOMAIN inbox : inbox[i].kind = t /\ inbox[i].at >= fired[t]
    BY <1>0, <1>1 DEF EveryFiringHasItsLine, LineIn
  <2>2. inbox[i].at \in Nat /\ fired[t] \in Nat /\ cursor.acked[t] \in Nat
    <3>1. inbox[i] \in InboxLine
      BY <1>0 DEF InboxTypeOK
    <3>2. cursor.acked \in [Task -> Nat]
      BY <1>0 DEF InboxTypeOK, CursorRecord
    <3> QED BY <1>0, <3>1, <3>2 DEF InboxTypeOK, InboxLine
  <2> QED BY <2>1, <2>2 DEF Reminders!outstanding
<1> QED BY <1>0, <1>1 DEF Reminders!NothingIsLost, PassedIsShown

\* The inbox begins empty.
LEMMA InboxBegins == Reminders!InboxInit => InboxIInv
<1> SUFFICES ASSUME Reminders!InboxInit PROVE InboxIInv
  OBVIOUS
<1>1. /\ Reminders!Closed0 \in CursorRecord /\ Reminders!Closed0.line = 0
      /\ Reminders!Asleep \in PassRecord /\ Reminders!Asleep.at = 1 /\ \A t \in Task : Reminders!Asleep.last[t] = 0
      /\ Reminders!NoRead \in ReadRecord /\ Reminders!NoRead.mine.line = 0 /\ Reminders!NoRead.stage = "off"
  BY DEF Reminders!Closed0, Reminders!Asleep, Reminders!NoRead, CursorRecord, PassRecord, ReadRecord
<1>2. InboxTypeOK
  BY <1>1 DEF Reminders!InboxInit, InboxTypeOK
<1>3. EveryFiringHasItsLine
  BY <1>1 DEF Reminders!InboxInit, EveryFiringHasItsLine, LineIn
<1>4. PassedIsShown
  BY <1>1 DEF Reminders!InboxInit, PassedIsShown
<1>5. minute = 1
  BY DEF Reminders!InboxInit
<1> QED BY <1>2, <1>3, <1>4, <1>5 DEF InboxIInv, MinuteCounts
-----------------------------------------------------------------------------
(* The watcher of a board.  What its state file holds was handled to the    *)
(* end, and while the file can hold every post made it forgets none, so     *)
(* that a post that woke the agent is known to whoever starts from the      *)
(* file.  A post that was not taken in hand in this life woke the agent in  *)
(* earlier lives only.                                                      *)

Distinct(s) == \A i, j \in DOMAIN s : s[i] = s[j] => i = j
Dealt(p) == woken[p] > 0 \/ p \in seeded \cup skipped

WatcherTypeOK ==
  /\ board \in 0 .. PostCount /\ seen \in SUBSET Council!Post
  /\ seenMsgIds \in Seq(Council!Post) /\ onDisk \in Seq(Council!Post)
  /\ Distinct(seenMsgIds) /\ Distinct(onDisk)
  /\ woken \in [Council!Post -> Nat] /\ up \in {"down", "boot", "on"}
  /\ handling \in [post : Council!Handling, step : {"none", "capture", "state", "wake"}, wake : BOOLEAN]

\* The post in hand, and what is written of the others.
InHand ==
  /\ handling.step = "none" <=> handling = Council!NotHandling
  /\ handling.step # "none" => /\ up # "down" /\ handling.post \in seen
                               /\ ~handling.wake => handling.post \in seeded
  /\ up = "down" => seen = {} /\ seenMsgIds = <<>>

WrittenIsDealtWith ==
  /\ Council!Ids(seenMsgIds) \subseteq seen
  /\ \A p \in seen : p = handling.post \/ Dealt(p)
  /\ \A p \in Council!Ids(onDisk) : Dealt(p) \/ (handling.step = "wake" /\ handling.post = p)

\* While no id is forgotten.
NoneForgotten ==
  board <= SEEN_CAP =>
    /\ seen \subseteq Council!Ids(seenMsgIds)
    /\ up # "down" => Council!Ids(onDisk) \subseteq seen
    /\ \A p \in Council!Post :
         woken[p] > 0 => woken[p] = 1 /\ p \in Council!Ids(onDisk) /\ p # handling.post
    /\ handling.step = "wake" => handling.post \in Council!Ids(onDisk)

OfTheBoard == seen \subseteq 1 .. board /\ Council!Ids(onDisk) \subseteq 1 .. board

CouncilIInv == WatcherTypeOK /\ InHand /\ WrittenIsDealtWith /\ NoneForgotten /\ OfTheBoard

OnceALife ==
  died \in Nat /\ \A p \in Council!Post : /\ woken[p] <= died + 1
                                          /\ p \notin seen \/ p = handling.post => woken[p] <= died

\* No more ids than posts.
LEMMA NoMoreIdsThanPosts ==
  ASSUME NEW n \in Nat, NEW s \in Seq(Council!Post), Distinct(s), Council!Ids(s) \subseteq 1 .. n
  PROVE  Len(s) <= n
<1> SUFFICES ASSUME Len(s) > n PROVE FALSE
  BY SMTT(30)
<1>0. Len(s) \in Nat /\ DOMAIN s = 1 .. Len(s)
  OBVIOUS
<1>1. IsFiniteSet(1 .. Len(s)) /\ Cardinality(1 .. Len(s)) = Len(s)
  BY <1>0, FS_Interval
<1>2. IsFiniteSet(1 .. n) /\ Cardinality(1 .. n) = n
  BY FS_Interval
<1>3. s \in [1 .. Len(s) -> 1 .. n]
  <2>1. \A i \in 1 .. Len(s) : s[i] \in 1 .. n
    BY <1>0 DEF Council!Ids
  <2>2. s \in [1 .. Len(s) -> Council!Post]
    OBVIOUS
  <2> QED BY <2>1, <2>2
<1>4. \E i, j \in 1 .. Len(s) : i # j /\ s[i] = s[j]
  BY <1>0, <1>1, <1>2, <1>3, FS_PigeonHole
<1> QED BY <1>0, <1>4 DEF Distinct

\* What writeState() keeps of the ids: some of them, and all that fit.
LEMMA CappedKeeps ==
  ASSUME NEW s \in Seq(Council!Post), Distinct(s)
  PROVE  /\ Council!Capped(s) \in Seq(Council!Post) /\ Distinct(Council!Capped(s))
         /\ Council!Ids(Council!Capped(s)) \subseteq Council!Ids(s)
         /\ \A n \in Nat : Council!Ids(s) \subseteq 1 .. n /\ n <= SEEN_CAP => Council!Capped(s) = s
<1>0. SEEN_CAP \in Nat /\ Len(s) \in Nat
  BY ToolsAssumption
<1>1. CASE Len(s) > SEEN_CAP
  <2> DEFINE b == Len(s) - SEEN_CAP
             t == SubSeq(s, b + 1, Len(s))
  <2>1. b \in Nat /\ Council!Capped(s) = t
    BY <1>0, <1>1 DEF Council!Capped
  <2>2. t \in Seq(Council!Post) /\ DOMAIN t = 1 .. SEEN_CAP /\ \A i \in DOMAIN t : t[i] = s[i + b]
    BY <1>0, <1>1
  <2>3. \A i \in DOMAIN t : i + b \in DOMAIN s
    BY <1>0, <1>1, <2>2
  <2> HIDE DEF t
  <2>4. Distinct(t)
    <3> SUFFICES ASSUME NEW i \in DOMAIN t, NEW j \in DOMAIN t, t[i] = t[j] PROVE i = j
      BY DEF Distinct
    <3>1. i + b = j + b
      BY <2>2, <2>3 DEF Distinct
    <3> QED BY <1>0, <2>1, <2>2, <3>1
  <2>5. Council!Ids(t) \subseteq Council!Ids(s)
    BY <2>2, <2>3 DEF Council!Ids
  <2>6. ASSUME NEW n \in Nat, Council!Ids(s) \subseteq 1 .. n PROVE ~(n <= SEEN_CAP)
    <3>1. Len(s) <= n
      BY <2>6, NoMoreIdsThanPosts
    <3> QED BY <1>0, <1>1, <3>1
  <2> QED BY <2>1, <2>2, <2>4, <2>5, <2>6
<1>2. CASE ~(Len(s) > SEEN_CAP)
  BY <1>2 DEF Council!Capped
<1> QED BY <1>1, <1>2

\* An id that is new to the list.
LEMMA IdAppended ==
  ASSUME NEW s \in Seq(Council!Post), Distinct(s), NEW p \in Council!Post, p \notin Council!Ids(s)
  PROVE  /\ Append(s, p) \in Seq(Council!Post) /\ Distinct(Append(s, p))
         /\ Council!Ids(Append(s, p)) = Council!Ids(s) \cup {p}
<1> DEFINE t == Append(s, p)
<1>1. /\ t \in Seq(Council!Post) /\ DOMAIN s = 1 .. Len(s) /\ DOMAIN t = 1 .. Len(s) + 1 /\ Len(s) \in Nat
      /\ \A i \in 1 .. Len(s) : t[i] = s[i]
      /\ t[Len(s) + 1] = p
  OBVIOUS
<1> HIDE DEF t
<1>2. \A i \in DOMAIN t : i \in DOMAIN s \/ i = Len(s) + 1
  BY <1>1
<1>3. \A i \in DOMAIN s : i \in DOMAIN t /\ t[i] = s[i] /\ s[i] # p
  BY <1>1 DEF Council!Ids
<1>4. Distinct(t)
  BY <1>1, <1>2, <1>3 DEF Distinct
<1>5. Council!Ids(t) = Council!Ids(s) \cup {p}
  <2>1. ASSUME NEW q \in Council!Ids(t) PROVE q \in Council!Ids(s) \cup {p}
    BY <1>1, <1>2, <1>3, <2>1 DEF Council!Ids
  <2>2. ASSUME NEW q \in Council!Ids(s) \cup {p} PROVE q \in Council!Ids(t)
    <3>1. Len(s) + 1 \in DOMAIN t
      BY <1>1
    <3> QED BY <1>1, <1>3, <2>2, <3>1 DEF Council!Ids
  <2> QED BY <2>1, <2>2
<1> QED BY <1>1, <1>4, <1>5 DEF t

\* A post that was not seen is taken in hand.
LEMMA TakeKeeps ==
  ASSUME CouncilIInv, up # "down", handling = Council!NotHandling,
         NEW p \in Council!Post, p \notin seen, NEW wake \in BOOLEAN, Council!Take(p, wake),
         UNCHANGED <<board, onDisk, woken, skipped>>, p \in 1 .. board, up' \in {"boot", "on"},
         seeded \subseteq seeded', ~wake => p \in seeded'
  PROVE  CouncilIInv'
<1>0. WatcherTypeOK /\ InHand /\ WrittenIsDealtWith /\ NoneForgotten /\ OfTheBoard
  BY DEF CouncilIInv
<1>1. /\ seen' = seen \cup {p} /\ seenMsgIds' = Append(seenMsgIds, p)
      /\ handling' = [post |-> p, step |-> "capture", wake |-> wake]
  BY DEF Council!Take
<1>2. /\ handling'.post = p /\ handling'.step = "capture" /\ handling'.wake = wake
      /\ handling' \in [post : Council!Handling, step : {"none", "capture", "state", "wake"}, wake : BOOLEAN]
      /\ handling' # Council!NotHandling
  BY <1>1, ToolsAssumption DEF Council!Handling, Council!Post, Council!NotHandling
<1>3. p \notin Council!Ids(seenMsgIds)
  BY <1>0 DEF WrittenIsDealtWith
<1>4. /\ seenMsgIds' \in Seq(Council!Post) /\ Distinct(seenMsgIds)' /\ Council!Ids(seenMsgIds') = Council!Ids(seenMsgIds) \cup {p}
  BY <1>0, <1>1, <1>3, IdAppended DEF WatcherTypeOK, Distinct
<1>5. WatcherTypeOK'
  BY <1>0, <1>1, <1>2, <1>4 DEF WatcherTypeOK, Distinct
<1>6. InHand'
  BY <1>0, <1>1, <1>2 DEF InHand
<1>7. handling.post = 0 /\ handling.step = "none" /\ \A q \in Council!Post : q # 0
  BY ToolsAssumption DEF Council!NotHandling, Council!Post
<1>8. \A q : Dealt(q) => Dealt(q)'
  BY DEF Dealt
<1>9. WrittenIsDealtWith'
  <2>1. \A q \in seen' : q = handling'.post \/ Dealt(q)'
    BY <1>0, <1>1, <1>2, <1>7, <1>8 DEF WrittenIsDealtWith, WatcherTypeOK
  <2>2. \A q \in Council!Ids(onDisk)' : Dealt(q)'
    BY <1>0, <1>7, <1>8 DEF WrittenIsDealtWith, Council!Ids
  <2>3. Council!Ids(seenMsgIds)' \subseteq seen'
    BY <1>0, <1>1, <1>4 DEF WrittenIsDealtWith, Council!Ids
  <2> QED BY <2>1, <2>2, <2>3 DEF WrittenIsDealtWith
<1>10. NoneForgotten'
  <2> SUFFICES ASSUME board <= SEEN_CAP
      PROVE /\ seen' \subseteq Council!Ids(seenMsgIds') /\ Council!Ids(onDisk) \subseteq seen'
            /\ \A q \in Council!Post : woken[q] > 0 => woken[q] = 1 /\ q \in Council!Ids(onDisk) /\ q # p
    BY <1>2 DEF NoneForgotten, Council!Ids
  <2> QED BY <1>0, <1>1, <1>4 DEF NoneForgotten
<1>11. OfTheBoard'
  BY <1>0, <1>1 DEF OfTheBoard, Council!Ids
<1> QED BY <1>5, <1>6, <1>9, <1>10, <1>11 DEF CouncilIInv

\* The capture, its failure, the state and the wake line of the post in hand.
LEMMA HandlingKeeps ==
  ASSUME CouncilIInv, Council!Capture \/ Council!WriteState \/ Council!Wake
  PROVE  CouncilIInv'
<1>0. WatcherTypeOK /\ InHand /\ WrittenIsDealtWith /\ NoneForgotten /\ OfTheBoard
  BY DEF CouncilIInv
<1>p. PICK p : p = handling.post
  OBVIOUS
<1>1. /\ handling.step \in {"capture", "state", "wake"} /\ UNCHANGED <<board, up, seen, seeded>>
      /\ handling # Council!NotHandling
  BY DEF Council!Capture, Council!WriteState, Council!Wake, Council!memory, Council!tallies, Council!NotHandling
<1>2. up # "down" /\ p \in seen /\ p \in Council!Post /\ p # 0 /\ (~handling.wake => p \in seeded)
  <2>1. up # "down" /\ p \in seen /\ (~handling.wake => p \in seeded)
    BY <1>p, <1>0, <1>1 DEF InHand
  <2>2. seen \subseteq Council!Post
    BY <1>0 DEF WatcherTypeOK
  <2>3. \A q \in Council!Post : q # 0
    <3>1. PostCount \in Nat
      BY ToolsAssumption
    <3> QED BY <3>1 DEF Council!Post
  <2> QED BY <2>1, <2>2, <2>3
<1>3. Council!NotHandling \in [post : Council!Handling, step : {"none", "capture", "state", "wake"}, wake : BOOLEAN]
      /\ Council!NotHandling.step = "none" /\ Council!NotHandling.post = 0 /\ \A q \in Council!Post : q # 0
  BY ToolsAssumption DEF Council!NotHandling, Council!Handling, Council!Post
<1>4. CASE Council!Capture
  <2>1. UNCHANGED <<seenMsgIds, onDisk, woken>> /\ handling.step = "capture" /\ skipped \subseteq skipped'
    BY <1>4 DEF Council!Capture, Council!memory
  <2>2. \A q : Dealt(q) => Dealt(q)'
    BY <1>p, <1>1, <2>1 DEF Dealt
  <2>5. OfTheBoard'
    BY <1>0, <1>1, <2>1 DEF OfTheBoard, Council!Ids
  <2>3. CASE handling' = [handling EXCEPT !.step = "state"]
    <3>1. /\ handling'.post = p /\ handling'.step = "state" /\ handling'.wake = handling.wake
          /\ handling' \in [post : Council!Handling, step : {"none", "capture", "state", "wake"}, wake : BOOLEAN]
      BY <1>p, <1>0, <2>3 DEF WatcherTypeOK
    <3>2. handling' # Council!NotHandling
      BY <1>p, <1>3, <3>1
    <3>3. WatcherTypeOK' /\ InHand'
      BY <1>p, <1>0, <1>1, <1>2, <2>1, <3>1, <3>2 DEF WatcherTypeOK, InHand, Distinct
    <3>4. WrittenIsDealtWith'
      BY <1>p, <1>0, <1>1, <2>1, <2>2, <3>1 DEF WrittenIsDealtWith, Council!Ids
    <3>5. NoneForgotten'
      BY <1>p, <1>0, <1>1, <2>1, <3>1 DEF NoneForgotten, Council!Ids
    <3> QED BY <2>5, <3>3, <3>4, <3>5 DEF CouncilIInv
  <2>4. CASE handling' = Council!NotHandling /\ skipped' = skipped \cup {p}
    <3>1. handling'.post = 0 /\ handling'.step = "none" /\ Dealt(p)'
      BY <1>p, <1>3, <2>4 DEF Dealt
    <3>2. WatcherTypeOK'
      BY <1>p, <1>0, <1>1, <1>3, <2>1, <2>4 DEF WatcherTypeOK, Distinct
    <3>3. InHand'
      BY <1>p, <1>0, <1>1, <1>2, <2>1, <2>4, <3>1 DEF InHand
    <3>4. WrittenIsDealtWith'
      BY <1>p, <1>0, <1>1, <2>1, <2>2, <3>1 DEF WrittenIsDealtWith, Council!Ids
    <3>5. NoneForgotten'
      BY <1>p, <1>0, <1>1, <1>3, <2>1, <3>1 DEF NoneForgotten, Council!Ids
    <3> QED BY <2>5, <3>2, <3>3, <3>4, <3>5 DEF CouncilIInv
  <2> QED BY <1>p, <1>4, <2>3, <2>4 DEF Council!Capture
<1>5. CASE Council!WriteState
  <2> DEFINE t == Council!Capped(seenMsgIds)
  <2>1. /\ seenMsgIds' = t /\ onDisk' = t /\ handling.step = "state" /\ UNCHANGED <<woken, skipped>>
        /\ handling' = IF handling.wake THEN [handling EXCEPT !.step = "wake"] ELSE Council!NotHandling
    BY <1>5 DEF Council!WriteState, Council!tallies
  <2>2. /\ t \in Seq(Council!Post) /\ Distinct(t) /\ Council!Ids(t) \subseteq Council!Ids(seenMsgIds)
        /\ board <= SEEN_CAP => t = seenMsgIds
    <3>0. board \in Nat
      BY <1>0, ToolsAssumption DEF WatcherTypeOK
    <3>1. Council!Ids(seenMsgIds) \subseteq 1 .. board
      BY <1>0 DEF WrittenIsDealtWith, OfTheBoard
    <3>2. seenMsgIds \in Seq(Council!Post) /\ Distinct(seenMsgIds)
      BY <1>0 DEF WatcherTypeOK
    <3>3. \A n \in Nat : Council!Ids(seenMsgIds) \subseteq 1 .. n /\ n <= SEEN_CAP => t = seenMsgIds
      BY <3>2, CappedKeeps
    <3>4. t \in Seq(Council!Post) /\ Distinct(t) /\ Council!Ids(t) \subseteq Council!Ids(seenMsgIds)
      BY <3>2, CappedKeeps
    <3> QED BY <3>0, <3>1, <3>3, <3>4
  <2> HIDE DEF t
  <2>3. \A q : Dealt(q) <=> Dealt(q)'
    BY <1>p, <1>1, <2>1 DEF Dealt
  <2>4. /\ handling' \in [post : Council!Handling, step : {"none", "capture", "state", "wake"}, wake : BOOLEAN]
        /\ \/ handling.wake /\ handling'.step = "wake" /\ handling'.post = p /\ handling'.wake /\ handling' # Council!NotHandling
           \/ ~handling.wake /\ handling' = Council!NotHandling
    <3>1. CASE handling.wake
      <4>1. /\ handling' \in [post : Council!Handling, step : {"none", "capture", "state", "wake"}, wake : BOOLEAN]
            /\ handling'.step = "wake" /\ handling'.post = p /\ handling'.wake = handling.wake
        BY <1>p, <1>0, <2>1, <3>1 DEF WatcherTypeOK
      <4> QED BY <1>p, <1>3, <3>1, <4>1
    <3>2. CASE ~handling.wake
      BY <1>p, <1>3, <2>1, <3>2
    <3> QED BY <1>p, <3>1, <3>2
  <2>5. WatcherTypeOK'
    BY <1>p, <1>0, <1>1, <2>1, <2>2, <2>4 DEF WatcherTypeOK, Distinct
  <2>6. InHand'
    BY <1>p, <1>0, <1>1, <1>2, <1>3, <2>1, <2>4 DEF InHand
  <2>7. ~handling.wake => Dealt(p)
    BY <1>p, <1>2 DEF Dealt
  <2>8. Council!Ids(t) \subseteq seen /\ \A q \in seen : q = p \/ Dealt(q)
    BY <1>p, <1>0, <2>2 DEF WrittenIsDealtWith
  <2>9. \A q \in seen : Dealt(q)' \/ (handling'.step = "wake" /\ handling'.post = q)
    BY <1>p, <2>3, <2>4, <2>7, <2>8
  <2>10. WrittenIsDealtWith'
    <3>1. Council!Ids(seenMsgIds)' = Council!Ids(t) /\ Council!Ids(onDisk)' = Council!Ids(t)
      BY <1>p, <2>1 DEF Council!Ids
    <3> QED BY <1>p, <1>1, <2>8, <2>9, <3>1 DEF WrittenIsDealtWith
  <2>11. NoneForgotten'
    <3> SUFFICES ASSUME board <= SEEN_CAP
        PROVE /\ seen \subseteq Council!Ids(t) /\ Council!Ids(t) \subseteq seen
              /\ \A q \in Council!Post : woken[q] > 0 => woken[q] = 1 /\ q \in Council!Ids(t) /\ q # handling'.post
              /\ handling'.step = "wake" => handling'.post \in Council!Ids(t)
      BY <1>p, <1>1, <2>1 DEF NoneForgotten, Council!Ids
    <3>1. seen = Council!Ids(t)
      BY <1>p, <1>0, <2>2 DEF NoneForgotten, WrittenIsDealtWith
    <3>2. handling'.post \in {p, 0}
      BY <1>p, <1>3, <2>4
    <3> QED BY <1>p, <1>0, <1>2, <1>3, <2>4, <3>1, <3>2 DEF NoneForgotten
  <2>12. OfTheBoard'
    BY <1>0, <1>1, <2>1, <2>8 DEF OfTheBoard, Council!Ids
  <2> QED BY <2>5, <2>6, <2>10, <2>11, <2>12 DEF CouncilIInv
<1>6. CASE Council!Wake
  <2>1. /\ woken' = [woken EXCEPT ![p] = @ + 1] /\ handling' = Council!NotHandling /\ handling.step = "wake"
        /\ UNCHANGED <<seenMsgIds, onDisk, skipped>>
    BY <1>p, <1>6 DEF Council!Wake, Council!memory, Council!tallies
  <2>2. /\ woken \in [Council!Post -> Nat] /\ woken' \in [Council!Post -> Nat]
        /\ woken'[p] = woken[p] + 1 /\ \A q \in Council!Post : q # p => woken'[q] = woken[q]
    BY <1>p, <1>0, <1>2, <2>1 DEF WatcherTypeOK
  <2>3. WatcherTypeOK' /\ InHand'
    BY <1>p, <1>0, <1>1, <1>3, <2>1, <2>2 DEF WatcherTypeOK, InHand, Distinct
  <2>4. Dealt(p)' /\ \A q \in Council!Post : Dealt(q) => Dealt(q)'
    BY <1>p, <1>1, <1>2, <2>1, <2>2 DEF Dealt
  <2>5. Council!Ids(onDisk) \subseteq Council!Post /\ seen \subseteq Council!Post
    BY <1>p, <1>0 DEF WatcherTypeOK, Council!Ids
  <2>6. WrittenIsDealtWith'
    BY <1>p, <1>0, <1>1, <1>3, <2>1, <2>4, <2>5 DEF WrittenIsDealtWith, Council!Ids
  <2>7. NoneForgotten'
    <3> SUFFICES ASSUME board <= SEEN_CAP
        PROVE /\ seen \subseteq Council!Ids(seenMsgIds) /\ Council!Ids(onDisk) \subseteq seen
              /\ \A q \in Council!Post : woken'[q] > 0 => woken'[q] = 1 /\ q \in Council!Ids(onDisk)
      BY <1>p, <1>1, <1>3, <2>1 DEF NoneForgotten, Council!Ids
    <3>1. woken[p] = 0 /\ p \in Council!Ids(onDisk)
      BY <1>p, <1>0, <1>2, <2>1, <2>2 DEF NoneForgotten
    <3> QED BY <1>p, <1>0, <1>2, <2>2, <3>1 DEF NoneForgotten
  <2>8. OfTheBoard'
    BY <1>0, <1>1, <2>1 DEF OfTheBoard, Council!Ids
  <2> QED BY <2>3, <2>6, <2>7, <2>8 DEF CouncilIInv
<1> QED BY <1>4, <1>5, <1>6

\* A start, a death and an exit.
LEMMA StartAndEndKeep ==
  ASSUME CouncilIInv, Council!Start \/ Council!Die \/ Council!Leaves
  PROVE  CouncilIInv'
<1>0. WatcherTypeOK /\ InHand /\ WrittenIsDealtWith /\ NoneForgotten /\ OfTheBoard
  BY DEF CouncilIInv
<1>1. /\ Council!NotHandling \in [post : Council!Handling, step : {"none", "capture", "state", "wake"}, wake : BOOLEAN]
      /\ Council!NotHandling.step = "none" /\ Council!NotHandling.post = 0 /\ \A q \in Council!Post : q # 0
  BY ToolsAssumption DEF Council!NotHandling, Council!Handling, Council!Post
<1>2. Distinct(<<>>) /\ Council!Ids(<<>>) = {} /\ <<>> \in Seq(Council!Post)
  BY DEF Distinct, Council!Ids
<1>3. CASE Council!Start
  <2>1. /\ up = "down" /\ seenMsgIds' = onDisk /\ seen' = Council!Ids(onDisk) /\ up' \in {"boot", "on"}
        /\ UNCHANGED <<board, onDisk, woken, handling, seeded, skipped>>
    BY <1>3 DEF Council!Start, Council!tallies
  <2>2. handling = Council!NotHandling
    BY <1>0, <2>1 DEF InHand, WatcherTypeOK
  <2>3. Council!Ids(onDisk) \subseteq Council!Post
    BY <1>0 DEF WatcherTypeOK, Council!Ids
  <2>4. WatcherTypeOK' /\ InHand'
    BY <1>0, <1>1, <2>1, <2>2, <2>3 DEF WatcherTypeOK, InHand, Distinct
  <2>5. \A q : Dealt(q) <=> Dealt(q)'
    BY <2>1 DEF Dealt
  <2>6. WrittenIsDealtWith'
    BY <1>0, <1>1, <2>1, <2>2, <2>5 DEF WrittenIsDealtWith, Council!Ids
  <2>7. NoneForgotten'
    BY <1>0, <2>1 DEF NoneForgotten, Council!Ids
  <2>8. OfTheBoard'
    BY <1>0, <2>1 DEF OfTheBoard, Council!Ids
  <2> QED BY <2>4, <2>6, <2>7, <2>8 DEF CouncilIInv
<1>4. CASE Council!Die
  <2>1. /\ up' = "down" /\ seen' = {} /\ seenMsgIds' = <<>> /\ handling' = Council!NotHandling
        /\ UNCHANGED <<board, onDisk, woken, seeded>> /\ skipped \subseteq skipped'
        /\ handling # Council!NotHandling => handling.post \in skipped'
    BY <1>4 DEF Council!Die
  <2>2. WatcherTypeOK' /\ InHand'
    BY <1>0, <1>1, <1>2, <2>1 DEF WatcherTypeOK, InHand, Distinct
  <2>3. \A q : Dealt(q) => Dealt(q)'
    BY <2>1 DEF Dealt
  <2>4. \A q \in Council!Ids(onDisk) : Dealt(q)'
    <3> SUFFICES ASSUME NEW q \in Council!Ids(onDisk), handling.step = "wake", handling.post = q PROVE Dealt(q)'
      BY <1>0, <2>3 DEF WrittenIsDealtWith
    <3> QED BY <1>1, <2>1 DEF Dealt
  <2>5. WrittenIsDealtWith'
    BY <1>2, <2>1, <2>4 DEF WrittenIsDealtWith, Council!Ids
  <2>6. NoneForgotten'
    <3> SUFFICES ASSUME board <= SEEN_CAP
        PROVE \A q \in Council!Post : woken[q] > 0 => woken[q] = 1 /\ q \in Council!Ids(onDisk)
      BY <1>1, <2>1 DEF NoneForgotten, Council!Ids
    <3> QED BY <1>0 DEF NoneForgotten
  <2>7. OfTheBoard'
    BY <1>0, <2>1 DEF OfTheBoard, Council!Ids
  <2> QED BY <2>2, <2>5, <2>6, <2>7 DEF CouncilIInv
<1>5. CASE Council!Leaves
  <2> DEFINE t == Council!Capped(seenMsgIds)
  <2>1. /\ up # "down" /\ handling = Council!NotHandling /\ onDisk' = t
        /\ up' = "down" /\ seen' = {} /\ seenMsgIds' = <<>>
        /\ UNCHANGED <<board, woken, handling, seeded, skipped>>
    BY <1>5 DEF Council!Leaves
  <2>2. /\ t \in Seq(Council!Post) /\ Distinct(t) /\ Council!Ids(t) \subseteq Council!Ids(seenMsgIds)
        /\ board <= SEEN_CAP => t = seenMsgIds
    <3>0. board \in Nat
      BY <1>0, ToolsAssumption DEF WatcherTypeOK
    <3>1. Council!Ids(seenMsgIds) \subseteq 1 .. board
      BY <1>0 DEF WrittenIsDealtWith, OfTheBoard
    <3>2. seenMsgIds \in Seq(Council!Post) /\ Distinct(seenMsgIds)
      BY <1>0 DEF WatcherTypeOK
    <3>3. \A n \in Nat : Council!Ids(seenMsgIds) \subseteq 1 .. n /\ n <= SEEN_CAP => t = seenMsgIds
      BY <3>2, CappedKeeps
    <3>4. t \in Seq(Council!Post) /\ Distinct(t) /\ Council!Ids(t) \subseteq Council!Ids(seenMsgIds)
      BY <3>2, CappedKeeps
    <3> QED BY <3>0, <3>1, <3>3, <3>4
  <2> HIDE DEF t
  <2>3. WatcherTypeOK' /\ InHand'
    BY <1>0, <1>1, <1>2, <2>1, <2>2 DEF WatcherTypeOK, InHand, Distinct
  <2>4. \A q \in Council!Ids(t) : Dealt(q)'
    <3>1. \A q \in Council!Ids(t) : q \in seen /\ q # 0
      BY <1>0, <1>1, <2>2 DEF WrittenIsDealtWith, WatcherTypeOK
    <3>2. \A q \in Council!Ids(t) : Dealt(q)
      BY <1>0, <1>1, <2>1, <3>1 DEF WrittenIsDealtWith
    <3> QED BY <2>1, <3>2 DEF Dealt
  <2>5. Council!Ids(onDisk)' = Council!Ids(t) /\ Council!Ids(seenMsgIds)' = {}
    BY <1>2, <2>1 DEF Council!Ids
  <2>6. WrittenIsDealtWith'
    BY <2>1, <2>4, <2>5 DEF WrittenIsDealtWith
  <2>7. NoneForgotten'
    <3> SUFFICES ASSUME board <= SEEN_CAP
        PROVE \A q \in Council!Post : woken[q] > 0 => woken[q] = 1 /\ q \in Council!Ids(t)
      BY <1>1, <2>1, <2>5 DEF NoneForgotten
    <3> QED BY <1>0, <2>1, <2>2 DEF NoneForgotten
  <2>8. OfTheBoard'
    BY <1>0, <2>1, <2>2, <2>5 DEF OfTheBoard, WrittenIsDealtWith
  <2> QED BY <2>3, <2>6, <2>7, <2>8 DEF CouncilIInv
<1> QED BY <1>3, <1>4, <1>5

\* Every step of the watcher keeps it.
LEMMA CouncilKept ==
  ASSUME CouncilIInv, [Council!CouncilStep]_(Council!watchVars) PROVE CouncilIInv'
<1>0. WatcherTypeOK /\ InHand /\ WrittenIsDealtWith /\ NoneForgotten /\ OfTheBoard
  BY DEF CouncilIInv
<1>1. CASE UNCHANGED Council!watchVars
  BY <1>0, <1>1 DEF Council!watchVars, CouncilIInv, WatcherTypeOK, InHand, WrittenIsDealtWith, NoneForgotten, OfTheBoard,
     Distinct, Dealt, Council!Ids
<1>2. CASE Council!PostMade
  <2>1. board' \in 0 .. PostCount /\ UNCHANGED <<seen, seenMsgIds, onDisk, woken, handling, up, seeded, skipped>>
    <3>1. board' = board + 1 /\ board < PostCount /\ UNCHANGED <<seen, seenMsgIds, onDisk, woken, handling, up, seeded, skipped>>
      BY <1>2 DEF Council!PostMade, Council!memory, Council!tallies
    <3>2. board \in 0 .. PostCount /\ PostCount \in Nat
      BY <1>0, ToolsAssumption DEF WatcherTypeOK
    <3> QED BY <3>1, <3>2
  <2>2. board \in Nat /\ board' = board + 1 /\ SEEN_CAP \in Nat
    BY <1>0, <1>2, ToolsAssumption DEF WatcherTypeOK, Council!PostMade
  <2>3. WatcherTypeOK' /\ InHand' /\ WrittenIsDealtWith'
    BY <1>0, <2>1 DEF WatcherTypeOK, InHand, WrittenIsDealtWith, Distinct, Dealt, Council!Ids
  <2>4. board' <= SEEN_CAP => board <= SEEN_CAP
    BY <2>2
  <2>5. NoneForgotten'
    BY <1>0, <2>1, <2>4 DEF NoneForgotten, Council!Ids
  <2>6. 1 .. board \subseteq 1 .. board'
    BY <2>2
  <2>7. OfTheBoard'
    BY <1>0, <2>1, <2>6 DEF OfTheBoard, Council!Ids
  <2> QED BY <2>3, <2>5, <2>7 DEF CouncilIInv
<1>3. CASE Council!BackupPull
  <2>1. up # "down" /\ up' = "on" /\ handling = Council!NotHandling
        /\ UNCHANGED <<board, onDisk, woken, skipped>>
    BY <1>3 DEF Council!BackupPull
  <2>2. CASE board > 0 /\ board \notin seen
    <3>1. Council!Take(board, up = "on") /\ seeded' = IF up = "boot" THEN seeded \cup {board} ELSE seeded
      BY <1>3, <2>2 DEF Council!BackupPull
    <3>2. board \in Council!Post /\ board \in 1 .. board
      BY <1>0, <2>1, <2>2, ToolsAssumption DEF WatcherTypeOK, Council!Post
    <3>3. seeded \subseteq seeded' /\ (~(up = "on") => board \in seeded') /\ (up = "on") \in BOOLEAN
      BY <1>0, <2>1, <3>1 DEF WatcherTypeOK
    <3> QED BY <2>1, <2>2, <3>1, <3>2, <3>3, TakeKeeps
  <2>3. CASE ~(board > 0 /\ board \notin seen)
    <3>1. UNCHANGED <<board, seen, seenMsgIds, onDisk, woken, handling, seeded, skipped>>
      BY <1>3, <2>3 DEF Council!BackupPull
    <3> QED BY <1>0, <2>1, <3>1 DEF CouncilIInv, WatcherTypeOK, InHand, WrittenIsDealtWith, NoneForgotten, OfTheBoard, Distinct, Dealt, Council!Ids
  <2> QED BY <2>2, <2>3
<1>4. ASSUME NEW p \in Council!Post, Council!SubHandsOver(p) PROVE CouncilIInv'
  <2>1. /\ up # "down" /\ handling = Council!NotHandling /\ p \notin seen /\ Council!Take(p, TRUE)
        /\ UNCHANGED <<board, onDisk, woken, up, seeded, skipped>>
    BY <1>4 DEF Council!SubHandsOver, Council!tallies
  <2>2. p \in 1 .. board /\ up' \in {"boot", "on"}
    <3>1. p <= board /\ p \in Nat /\ p >= 1 /\ board \in Nat
      BY <1>0, <1>4, ToolsAssumption DEF Council!SubHandsOver, WatcherTypeOK, Council!Post
    <3> QED BY <1>0, <2>1, <3>1 DEF WatcherTypeOK
  <2> QED BY <2>1, <2>2, TakeKeeps
<1> QED BY <1>1, <1>2, <1>3, <1>4, HandlingKeeps, StartAndEndKeep DEF Council!CouncilStep

\* In a life of the watcher a post wakes the agent once.
LEMMA LivesKept ==
  ASSUME CouncilIInv, OnceALife, [Council!CouncilStep]_(Council!watchVars) PROVE OnceALife'
<1>0. /\ died \in Nat /\ woken \in [Council!Post -> Nat] /\ InHand /\ seen \subseteq Council!Post
      /\ \A p \in Council!Post : woken[p] <= died + 1 /\ (p \notin seen \/ p = handling.post => woken[p] <= died)
  BY DEF OnceALife, CouncilIInv, WatcherTypeOK
<1>1. Council!NotHandling.post = 0 /\ Council!NotHandling.step = "none" /\ \A p \in Council!Post : p # 0
  BY ToolsAssumption DEF Council!NotHandling, Council!Post
<1>2. CASE UNCHANGED <<woken, died>> /\ seen \subseteq seen' /\ \A p \in Council!Post : p = handling'.post => p = handling.post \/ p \notin seen
  BY <1>0, <1>2 DEF OnceALife
<1>3. CASE UNCHANGED Council!watchVars
  BY <1>2, <1>3 DEF Council!watchVars
<1>4. CASE Council!PostMade
  BY <1>2, <1>4 DEF Council!PostMade, Council!memory, Council!tallies
<1>5. CASE Council!Start
  <2>1. up = "down" /\ UNCHANGED <<woken, died, handling>>
    BY <1>5 DEF Council!Start, Council!tallies
  <2>2. seen = {}
    BY <1>0, <2>1 DEF InHand
  <2> QED BY <1>0, <2>1, <2>2 DEF OnceALife
<1>6. ASSUME NEW p \in Council!Post, p \notin seen, NEW wake \in BOOLEAN, Council!Take(p, wake), UNCHANGED <<woken, died>>
      PROVE  OnceALife'
  <2>1. seen \subseteq seen' /\ handling'.post = p
    BY <1>6 DEF Council!Take
  <2> QED BY <1>2, <1>6, <2>1
<1>7. CASE Council!BackupPull
  <2>1. UNCHANGED <<woken, died>>
    BY <1>7 DEF Council!BackupPull
  <2>2. CASE board > 0 /\ board \notin seen
    <3>1. Council!Take(board, up = "on")
      BY <1>7, <2>2 DEF Council!BackupPull
    <3>2. board \in Council!Post /\ (up = "on") \in BOOLEAN
      BY <2>2, ToolsAssumption DEF CouncilIInv, WatcherTypeOK, Council!Post
    <3> QED BY <1>6, <2>1, <2>2, <3>1, <3>2
  <2>3. CASE ~(board > 0 /\ board \notin seen)
    <3>1. UNCHANGED <<seen, handling>>
      BY <1>7, <2>3 DEF Council!BackupPull
    <3> QED BY <1>2, <2>1, <3>1
  <2> QED BY <2>2, <2>3
<1>8. ASSUME NEW p \in Council!Post, Council!SubHandsOver(p) PROVE OnceALife'
  <2>1. p \notin seen /\ Council!Take(p, TRUE) /\ UNCHANGED <<woken, died>>
    BY <1>8 DEF Council!SubHandsOver, Council!tallies
  <2> QED BY <1>6, <2>1
<1>9. CASE Council!Capture \/ Council!WriteState
  <2>1. UNCHANGED <<woken, died, seen>> /\ handling'.post \in {handling.post, 0}
    <3>1. CASE Council!Capture
      BY <1>1, <3>1 DEF Council!Capture, Council!memory, CouncilIInv, WatcherTypeOK
    <3>2. CASE Council!WriteState
      BY <1>1, <3>2 DEF Council!WriteState, Council!tallies, CouncilIInv, WatcherTypeOK
    <3> QED BY <1>9, <3>1, <3>2
  <2> QED BY <1>1, <1>2, <2>1
<1>10. CASE Council!Wake
  <2>1. PICK h : h = handling.post
    OBVIOUS
  <2>2. /\ handling.step = "wake" /\ woken' = [woken EXCEPT ![h] = @ + 1] /\ handling' = Council!NotHandling
        /\ UNCHANGED <<seen, died>>
    BY <1>10, <2>1 DEF Council!Wake, Council!memory, Council!tallies
  <2>3. h \in seen /\ h \in Council!Post
    BY <1>0, <2>1, <2>2 DEF InHand
  <2>4. woken'[h] = woken[h] + 1 /\ \A p \in Council!Post : p # h => woken'[p] = woken[p]
    BY <1>0, <2>2, <2>3
  <2>5. woken[h] <= died /\ woken[h] \in Nat
    BY <1>0, <2>1, <2>3
  <2>6. woken'[h] <= died + 1
    BY <1>0, <2>4, <2>5
  <2> QED BY <1>0, <1>1, <2>2, <2>3, <2>4, <2>6 DEF OnceALife
<1>11. CASE Council!Die \/ Council!Leaves
  <2>1. died' = died + 1 /\ woken' = woken
    BY <1>11 DEF Council!Die, Council!Leaves
  <2>2. \A p \in Council!Post : woken[p] \in Nat
    BY <1>0
  <2>3. \A p \in Council!Post : woken[p] <= died + 1 /\ woken[p] <= died + 1 + 1
    BY <1>0, <2>2
  <2> QED BY <1>0, <2>1, <2>3 DEF OnceALife
<1> QED BY <1>3, <1>4, <1>5, <1>7, <1>8, <1>9, <1>10, <1>11 DEF Council!CouncilStep

\* What was handled to the end is known, and what woke the agent is not taken
\* in hand again while its id is kept.
LEMMA HandledOnce == CouncilIInv /\ OnceALife => Council!WakesOnce
<1> SUFFICES ASSUME CouncilIInv, OnceALife, NEW p \in Council!Post
             PROVE  /\ board <= SEEN_CAP => woken[p] <= 1
                    /\ woken[p] <= died + 1
                    /\ (p \in seen /\ p # handling.post) => woken[p] > 0 \/ p \in seeded \cup skipped
  BY DEF Council!WakesOnce
<1>1. woken[p] \in Nat
  BY DEF CouncilIInv, WatcherTypeOK
<1>2. board <= SEEN_CAP => woken[p] <= 1
  BY <1>1 DEF CouncilIInv, NoneForgotten
<1>3. woken[p] <= died + 1
  BY DEF OnceALife
<1> QED BY <1>2, <1>3 DEF CouncilIInv, WrittenIsDealtWith, Dealt

\* The watcher begins with no post.
LEMMA CouncilBegins == Council!CouncilInit => CouncilIInv /\ OnceALife
<1> SUFFICES ASSUME Council!CouncilInit PROVE CouncilIInv /\ OnceALife
  OBVIOUS
<1>1. /\ Council!NotHandling \in [post : Council!Handling, step : {"none", "capture", "state", "wake"}, wake : BOOLEAN]
      /\ Council!NotHandling.step = "none" /\ Council!NotHandling.post = 0
  BY ToolsAssumption DEF Council!NotHandling, Council!Handling
<1>2. Distinct(<<>>) /\ Council!Ids(<<>>) = {} /\ <<>> \in Seq(Council!Post)
  BY DEF Distinct, Council!Ids
<1>3. PostCount \in Nat
  BY ToolsAssumption
<1>4. WatcherTypeOK
  BY <1>1, <1>2, <1>3 DEF Council!CouncilInit, WatcherTypeOK
<1>5. \A p \in Council!Post : woken[p] = 0
  BY DEF Council!CouncilInit
<1>6. OfTheBoard
  BY <1>2 DEF Council!CouncilInit, OfTheBoard
<1>7. OnceALife
  BY <1>5 DEF Council!CouncilInit, OnceALife
<1> QED BY <1>1, <1>2, <1>4, <1>5, <1>6, <1>7 DEF Council!CouncilInit, CouncilIInv, InHand, WrittenIsDealtWith, NoneForgotten

\* What waits for an agent reaches it, however many clocks, digests and posts
\* there are and wherever one of them dies; a post wakes it at most once until
\* the board outgrows the ids that are kept, and at most once a life after that.
THEOREM WhatWaitsReaches == ToolSpec => []WhatWaitsIsTold
<1>1. ToolInit => InboxIInv /\ CouncilIInv /\ OnceALife
  BY InboxBegins, CouncilBegins DEF ToolInit
<1>2. [ToolNext]_toolVars => [Reminders!InboxStep]_(Reminders!inboxVars)
  BY DEF ToolNext, toolVars, Others, inboxVs, Reminders!inboxVars
<1>3. [ToolNext]_toolVars => [Council!CouncilStep]_(Council!watchVars)
  BY DEF ToolNext, toolVars, Others, councilVs, Council!watchVars
<1>4. InboxIInv /\ CouncilIInv /\ OnceALife /\ [ToolNext]_toolVars => InboxIInv' /\ CouncilIInv' /\ OnceALife'
  BY <1>2, <1>3, InboxKept, CouncilKept, LivesKept
<1>5. InboxIInv /\ CouncilIInv /\ OnceALife => WhatWaitsIsTold
  BY NothingWaitsUnseen, HandledOnce DEF WhatWaitsIsTold
<1> QED BY <1>1, <1>4, <1>5, PTL DEF ToolSpec

-----------------------------------------------------------------------------
(* Posting.  While nobody looked for the author as another script saved it, *)
(* one script at a time saves, no other having an author yet, and the file  *)
(* is whole and has the author of everybody who has one otherwise.          *)

PostTypeOK ==
  /\ doing \in [Script -> {"off", "save", "write", "connect", "warm", "hold", "report", "gone"}]
  /\ signs \in [Script -> Nat] /\ minted \in Nat /\ older \in BOOLEAN /\ raced \in BOOLEAN
  /\ via \in [Script -> {"none", "replay", "pull"}] /\ saw \in [Script -> BOOLEAN]
  /\ heldFor \in [Script -> Nat] /\ timeouts \in [Script -> {0, 1}]
  /\ said \in [Script -> {"none", "confirmed", "not disproven", "not seen"}]
  /\ idFile \in [author : Nat, whole : BOOLEAN]

\* What a script has seen, and what it says.
SaysWhatItSaw ==
  \A p \in Script :
    /\ via[p] # "none" => saw[p] \/ older
    /\ said[p] # "none" => doing[p] \in {"report", "gone"}
    /\ said[p] = "confirmed" => saw[p] \/ older
    /\ said[p] \in {"not disproven", "not seen"} => heldFor[p] >= HoldTime

Saves(p) == doing[p] \in {"save", "write"}
OneSaves == \E p \in Script : Saves(p) /\ \A q \in Script : q # p => signs[q] = 0 /\ ~Saves(q)
NobodySaves ==
  /\ idFile.whole
  /\ \A q \in Script : ~Saves(q) /\ (signs[q] = 0 \/ signs[q] = idFile.author)

PostIInv == PostTypeOK /\ SaysWhatItSaw /\ (raced \/ OneSaves \/ NobodySaves)

\* A script that goes from one stage to the next.
LEMMA AtMoves ==
  ASSUME PostTypeOK, NEW p \in Script, NEW from, NEW to, Posts!At(p, from, to)
  PROVE  doing[p] = from /\ doing'[p] = to /\ \A q \in Script : q # p => doing'[q] = doing[q]
  BY DEF Posts!At, PostTypeOK

\* A step that neither begins nor ends a saving leaves the author as he is.
LEMMA AuthorStays ==
  ASSUME raced \/ OneSaves \/ NobodySaves, UNCHANGED <<idFile, signs>>, raced => raced',
         \A q \in Script : Saves(q)' = Saves(q)
  PROVE  (raced \/ OneSaves \/ NobodySaves)'
  BY DEF OneSaves, NobodySaves

\* A script looks for its author, and saves the one it minted.
LEMMA AuthorKeeps ==
  ASSUME PostIInv, NEW p \in Script, Posts!LoadAuthor(p) \/ Posts!SaveAuthor(p)
  PROVE  PostIInv'
<1>0. PostTypeOK /\ SaysWhatItSaw /\ (raced \/ OneSaves \/ NobodySaves)
  BY DEF PostIInv
<1>1. CASE Posts!LoadAuthor(p)
  <2>1. /\ UNCHANGED <<idFile, heldFor, via, saw, timeouts, said>> /\ older' \in BOOLEAN /\ (older => older')
        /\ raced' = (raced \/ \E q \in Script : Posts!Saving(q))
    BY <1>0, <1>1 DEF Posts!LoadAuthor, PostTypeOK
  <2>2. raced' \in BOOLEAN /\ (raced => raced') /\ (~raced' => \A q \in Script : ~Saves(q))
    BY <1>0, <2>1 DEF PostTypeOK, Posts!Saving, Saves
  <2>3. PICK a \in Nat, to \in {"connect", "save"} :
          /\ Posts!At(p, "off", to) /\ signs' = [signs EXCEPT ![p] = a] /\ minted' \in Nat
          /\ to = "connect" => a = idFile.author
          /\ to = "save" => ~(idFile.whole /\ idFile.author # 0)
    <3>1. CASE idFile.whole /\ idFile.author # 0
      <4>1. Posts!At(p, "off", "connect") /\ signs' = [signs EXCEPT ![p] = idFile.author] /\ minted' = minted
        BY <1>1, <3>1 DEF Posts!LoadAuthor
      <4>2. idFile.author \in Nat /\ minted' \in Nat
        BY <1>0, <4>1 DEF PostTypeOK
      <4> QED BY <4>1, <4>2
    <3>2. CASE ~(idFile.whole /\ idFile.author # 0)
      <4>1. Posts!At(p, "off", "save") /\ minted' = minted + 1 /\ signs' = [signs EXCEPT ![p] = minted']
        BY <1>1, <3>2 DEF Posts!LoadAuthor
      <4>2. minted \in Nat /\ minted' = minted + 1
        BY <1>0, <4>1 DEF PostTypeOK
      <4>3. minted' \in Nat
        BY <4>2
      <4> QED BY <3>2, <4>1, <4>3
    <3> QED BY <3>1, <3>2
  <2>4. doing[p] = "off" /\ doing'[p] = to /\ \A q \in Script : q # p => doing'[q] = doing[q]
    BY <1>0, <2>3, AtMoves
  <2>5. signs'[p] = a /\ \A q \in Script : q # p => signs'[q] = signs[q]
    BY <1>0, <2>3 DEF PostTypeOK
  <2>6. PostTypeOK'
    <3>1. doing' \in [Script -> {"off", "save", "write", "connect", "warm", "hold", "report", "gone"}]
      BY <1>0, <2>3 DEF PostTypeOK, Posts!At
    <3> QED BY <1>0, <2>1, <2>2, <2>3, <3>1 DEF PostTypeOK
  <2>7. SaysWhatItSaw'
    BY <1>0, <2>1, <2>4 DEF SaysWhatItSaw
  <2>8. ASSUME ~raced' PROVE (OneSaves \/ NobodySaves)'
    <3>1. NobodySaves
      BY <1>0, <2>2, <2>8 DEF OneSaves
    <3>2. CASE to = "connect"
      BY <2>1, <2>3, <2>4, <2>5, <3>1, <3>2 DEF NobodySaves, Saves
    <3>3. CASE to = "save"
      BY <2>1, <2>3, <2>4, <2>5, <3>1, <3>3 DEF NobodySaves, OneSaves, Saves
    <3> QED BY <2>3, <3>2, <3>3
  <2> QED BY <2>6, <2>7, <2>8 DEF PostIInv
<1>2. CASE Posts!SaveAuthor(p)
  <2>1. UNCHANGED <<minted, signs, older, heldFor, via, saw, timeouts, said, raced>>
    BY <1>2 DEF Posts!SaveAuthor
  <2>2. PICK to \in {"write", "connect"} :
          /\ Saves(p) /\ doing'[p] = to /\ \A q \in Script : q # p => doing'[q] = doing[q]
          /\ idFile' = [author |-> signs[p], whole |-> to = "connect"]
          /\ doing' \in [Script -> {"off", "save", "write", "connect", "warm", "hold", "report", "gone"}]
    <3>1. PICK from \in {"save", "write"}, to \in {"write", "connect"} :
            Posts!At(p, from, to) /\ idFile' = [author |-> signs[p], whole |-> to = "connect"]
      BY <1>2 DEF Posts!SaveAuthor
    <3>2. doing' \in [Script -> {"off", "save", "write", "connect", "warm", "hold", "report", "gone"}]
      BY <1>0, <3>1 DEF PostTypeOK, Posts!At
    <3> QED BY <1>0, <3>1, <3>2, AtMoves DEF Saves
  <2>3. PostTypeOK'
    BY <1>0, <2>1, <2>2 DEF PostTypeOK
  <2>4. SaysWhatItSaw'
    BY <1>0, <2>1, <2>2 DEF SaysWhatItSaw, Saves
  <2>5. ASSUME ~raced PROVE (OneSaves \/ NobodySaves)'
    <3>1. \A q \in Script : q # p => signs[q] = 0 /\ ~Saves(q)
      BY <1>0, <2>2, <2>5 DEF OneSaves, NobodySaves
    <3>2. CASE to = "write"
      BY <2>1, <2>2, <3>1, <3>2 DEF OneSaves, Saves
    <3>3. CASE to = "connect"
      BY <2>1, <2>2, <3>1, <3>3 DEF NobodySaves, Saves
    <3> QED BY <2>2, <3>2, <3>3
  <2> QED BY <2>1, <2>3, <2>4, <2>5 DEF PostIInv
<1> QED BY <1>1, <1>2

\* Publishing, probing and waiting.
LEMMA HoldKeeps ==
  ASSUME PostIInv, NEW p \in Script,
         \/ Posts!Connects(p) \/ Posts!Publish(p) \/ Posts!MeshTakes(p) \/ Posts!MeshDrops(p)
         \/ Posts!ProbeSees(p, "replay") \/ Posts!ProbeSees(p, "pull")
         \/ Posts!PostReads(p) \/ Posts!BotReads(p)
  PROVE  PostIInv'
<1>0. PostTypeOK /\ SaysWhatItSaw /\ (raced \/ OneSaves \/ NobodySaves)
  BY DEF PostIInv
<1>1. CASE Posts!Connects(p) \/ Posts!Publish(p)
  <2>1. UNCHANGED <<idFile, minted, signs, older, heldFor, via, saw, timeouts, said, raced>>
    BY <1>1 DEF Posts!Connects, Posts!Publish
  <2>2. PICK from \in {"connect", "warm"}, to \in {"warm", "hold"} : Posts!At(p, from, to)
    BY <1>1 DEF Posts!Connects, Posts!Publish
  <2>3. doing[p] = from /\ doing'[p] = to /\ \A q \in Script : q # p => doing'[q] = doing[q]
    BY <1>0, <2>2, AtMoves
  <2>4. doing' \in [Script -> {"off", "save", "write", "connect", "warm", "hold", "report", "gone"}]
    BY <1>0, <2>2 DEF PostTypeOK, Posts!At
  <2>5. PostTypeOK' /\ SaysWhatItSaw'
    BY <1>0, <2>1, <2>3, <2>4 DEF PostTypeOK, SaysWhatItSaw
  <2>6. \A q \in Script : Saves(q)' = Saves(q)
    BY <2>3 DEF Saves
  <2> QED BY <1>0, <2>1, <2>5, <2>6, AuthorStays DEF PostIInv
<1>2. CASE Posts!MeshTakes(p) \/ Posts!MeshDrops(p)
  <2>1. UNCHANGED <<idFile, minted, doing, signs, older, heldFor, via, saw, timeouts, said, raced>>
    BY <1>2 DEF Posts!MeshTakes, Posts!MeshDrops
  <2> QED BY <1>0, <2>1 DEF PostIInv, PostTypeOK, SaysWhatItSaw, OneSaves, NobodySaves, Saves
<1>3. ASSUME NEW how \in {"replay", "pull"}, Posts!ProbeSees(p, how) PROVE PostIInv'
  <2>1. UNCHANGED <<idFile, minted, doing, signs, older, heldFor, timeouts, said, raced>> /\ doing[p] = "hold"
    BY <1>3 DEF Posts!ProbeSees, Posts!Holding
  <2>2. PICK mine \in BOOLEAN : (mine \/ older) /\ saw' = [saw EXCEPT ![p] = mine]
    <3>1. PICK mine \in {copy[p] \in {"publisher", "mesh"}, FALSE} :
            Posts!Seen(p, mine) /\ saw' = [saw EXCEPT ![p] = mine]
      BY <1>3 DEF Posts!ProbeSees
    <3>2. mine \in BOOLEAN
      <4>1. (copy[p] \in {"publisher", "mesh"}) \in BOOLEAN
        OBVIOUS
      <4>2. mine = FALSE \/ mine = (copy[p] \in {"publisher", "mesh"})
        BY <3>1, Zenon
      <4>3. CASE mine = FALSE
        BY <4>3
      <4>4. CASE mine = (copy[p] \in {"publisher", "mesh"})
        BY <4>1, <4>4, Zenon
      <4> QED BY <4>2, <4>3, <4>4
    <3> QED BY <3>1, <3>2 DEF Posts!Seen
  <2>3. via' = [via EXCEPT ![p] = how]
    BY <1>3 DEF Posts!ProbeSees
  <2>4. saw'[p] = mine /\ via'[p] = how /\ \A q \in Script : q # p => saw'[q] = saw[q] /\ via'[q] = via[q]
    BY <1>0, <2>2, <2>3 DEF PostTypeOK
  <2>5. PostTypeOK'
    BY <1>0, <2>1, <2>2, <2>3 DEF PostTypeOK
  <2>6. SaysWhatItSaw'
    BY <1>0, <2>1, <2>2, <2>4 DEF SaysWhatItSaw
  <2>7. (raced \/ OneSaves \/ NobodySaves)'
    BY <1>0, <2>1 DEF OneSaves, NobodySaves, Saves
  <2> QED BY <2>5, <2>6, <2>7 DEF PostIInv
<1>4. CASE Posts!PostReads(p) \/ Posts!BotReads(p)
  <2>1. /\ UNCHANGED <<idFile, minted, doing, signs, older, via, saw, said, raced>>
        /\ doing[p] = "hold" /\ heldFor' = [heldFor EXCEPT ![p] = @ + 1]
    BY <1>4 DEF Posts!PostReads, Posts!BotReads, Posts!ReadFails, Posts!Holding
  <2>2. timeouts' \in [Script -> {0, 1}]
    <3>1. PICK late \in BOOLEAN : timeouts' = [timeouts EXCEPT ![p] = IF late THEN 1 ELSE @]
      BY <1>4 DEF Posts!PostReads, Posts!BotReads, Posts!ReadFails
    <3> QED BY <1>0, <3>1 DEF PostTypeOK
  <2>3. \A q \in Script : q # p => heldFor'[q] = heldFor[q]
    BY <1>0, <2>1 DEF PostTypeOK
  <2>4. PostTypeOK'
    <3>1. heldFor \in [Script -> Nat]
      BY <1>0 DEF PostTypeOK
    <3>2. heldFor' \in [Script -> Nat]
      BY <2>1, <3>1
    <3> QED BY <1>0, <2>1, <2>2, <3>2 DEF PostTypeOK
  <2>5. SaysWhatItSaw'
    BY <1>0, <2>1, <2>3 DEF SaysWhatItSaw
  <2>6. (raced \/ OneSaves \/ NobodySaves)'
    BY <1>0, <2>1 DEF OneSaves, NobodySaves, Saves
  <2> QED BY <2>4, <2>5, <2>6 DEF PostIInv
<1> QED BY <1>1, <1>2, <1>3, <1>4

\* The report and the end.
LEMMA ReportKeeps ==
  ASSUME PostIInv, NEW p \in Script, Posts!Report(p) \/ Posts!Leaves(p)
  PROVE  PostIInv'
<1>0. PostTypeOK /\ SaysWhatItSaw /\ (raced \/ OneSaves \/ NobodySaves) /\ HoldTime \in Nat
  BY ToolsAssumption DEF PostIInv
<1>1. CASE Posts!Report(p)
  <2>1. /\ UNCHANGED <<idFile, minted, signs, older, heldFor, via, saw, timeouts, raced>>
        /\ ~Posts!Holding(p) /\ Posts!At(p, "hold", "report") /\ said' = [said EXCEPT ![p] = Posts!Said(p)]
    BY <1>1 DEF Posts!Report
  <2>2. doing[p] = "hold" /\ doing'[p] = "report" /\ \A q \in Script : q # p => doing'[q] = doing[q]
    BY <1>0, <2>1, AtMoves
  <2>3. doing' \in [Script -> {"off", "save", "write", "connect", "warm", "hold", "report", "gone"}]
    BY <1>0, <2>1 DEF PostTypeOK, Posts!At
  <2>4. /\ Posts!Said(p) \in {"confirmed", "not disproven", "not seen"}
        /\ Posts!Said(p) = "confirmed" => via[p] # "none"
        /\ Posts!Said(p) # "confirmed" => via[p] = "none"
    BY DEF Posts!Said
  <2>5. via[p] = "none" => heldFor[p] >= HoldTime
    <3>1. heldFor[p] \in Nat
      BY <1>0 DEF PostTypeOK
    <3> QED BY <1>0, <2>1, <2>2, <3>1 DEF Posts!Holding
  <2>6. /\ said'[p] = Posts!Said(p) /\ \A q \in Script : q # p => said'[q] = said[q]
    BY <1>0, <2>1 DEF PostTypeOK
  <2>7. PostTypeOK'
    BY <1>0, <2>1, <2>3, <2>4 DEF PostTypeOK
  <2>8. SaysWhatItSaw'
    BY <1>0, <2>1, <2>2, <2>4, <2>5, <2>6 DEF SaysWhatItSaw
  <2>9. \A q \in Script : Saves(q)' = Saves(q)
    BY <2>2 DEF Saves
  <2> QED BY <1>0, <2>1, <2>7, <2>8, <2>9, AuthorStays DEF PostIInv
<1>2. CASE Posts!Leaves(p)
  <2>1. /\ UNCHANGED <<idFile, minted, signs, older, heldFor, via, saw, timeouts, said>>
        /\ doing' = [doing EXCEPT ![p] = "gone"] /\ doing[p] # "off" /\ raced' = (raced \/ Posts!Saving(p))
    BY <1>2 DEF Posts!Leaves
  <2>2. doing'[p] = "gone" /\ \A q \in Script : q # p => doing'[q] = doing[q]
    BY <1>0, <2>1 DEF PostTypeOK
  <2>3. PostTypeOK'
    BY <1>0, <2>1 DEF PostTypeOK, Posts!Saving
  <2>4. SaysWhatItSaw'
    BY <1>0, <2>1, <2>2 DEF SaysWhatItSaw
  <2>5. (raced \/ OneSaves \/ NobodySaves)'
    <3>1. CASE Saves(p)
      BY <2>1, <3>1 DEF Saves, Posts!Saving
    <3>2. CASE ~Saves(p)
      <4>1. \A q \in Script : Saves(q)' = Saves(q)
        BY <2>2, <3>2 DEF Saves
      <4> QED BY <1>0, <2>1, <4>1, AuthorStays
    <3> QED BY <3>1, <3>2
  <2> QED BY <2>3, <2>4, <2>5 DEF PostIInv
<1> QED BY <1>1, <1>2

\* Every step of the scripts keeps it.
LEMMA PostKept ==
  ASSUME PostIInv, [Posts!PostStep]_(Posts!postVars) PROVE PostIInv'
<1>1. CASE UNCHANGED Posts!postVars
  BY <1>1 DEF Posts!postVars, PostIInv, PostTypeOK, SaysWhatItSaw, OneSaves, NobodySaves, Saves
<1>2. CASE Posts!PostStep
  BY <1>2, AuthorKeeps, HoldKeeps, ReportKeeps DEF Posts!PostStep
<1> QED BY <1>1, <1>2

\* The scripts begin with no author and nothing said.
LEMMA PostBegins == Posts!PostInit => PostIInv
<1> SUFFICES ASSUME Posts!PostInit PROVE PostIInv
  OBVIOUS
<1>1. PostTypeOK
  BY DEF Posts!PostInit, Posts!All, PostTypeOK
<1>2. SaysWhatItSaw
  BY DEF Posts!PostInit, Posts!All, SaysWhatItSaw
<1>3. NobodySaves
  BY DEF Posts!PostInit, Posts!All, NobodySaves, Saves
<1> QED BY <1>1, <1>2, <1>3 DEF PostIInv

\* What the scripts say is so.
LEMMA SaidIsSo == PostIInv => Posts!PostsAreTrue
<1> SUFFICES ASSUME PostIInv PROVE Posts!PostsAreTrue
  OBVIOUS
<1>0. PostTypeOK /\ SaysWhatItSaw /\ (raced \/ OneSaves \/ NobodySaves)
  BY DEF PostIInv
<1>1. ASSUME NEW p \in Script, NEW q \in Script, ~raced, signs[p] # 0, signs[q] # 0 PROVE signs[p] = signs[q]
  BY <1>0, <1>1 DEF OneSaves, NobodySaves
<1> QED BY <1>0, <1>1 DEF Posts!PostsAreTrue, SaysWhatItSaw

-----------------------------------------------------------------------------
(* The one-shots: the peer is woven before it is used, and the report is    *)
(* open until the verb is through or something threw.                       *)
ShotIInv ==
  /\ phase \in {"off", "wire", "warm", "weave", "wait", "settle", "verb", "linger", "leave", "end"}
  /\ elapsed \in Nat /\ outcome \in [ok : {"open", "yes", "no", "unreached", "threw"}, found : {"null", "true", "false"}]
  /\ phase \in {"wait", "settle", "verb", "linger"} => woven \in {"done", "failed"}
  /\ phase \notin {"leave", "end"} => outcome.found = "null"
  /\ phase \notin {"linger", "leave", "end"} => outcome.ok = "open"
  /\ outcome.found = "false" => readTruth = "nothing" /\ elapsed < ReadShort
  /\ outcome.found = "true" => readTruth = "message"
  /\ phase = "weave" => woven = "asked"
  /\ phase \in {"off", "wire", "warm"} => woven = "no"
  /\ phase # "off" => front \in {"cli", "ops"}
  /\ phase = "end" /\ inMesh => outcome.ok = "threw" /\ (woven \in {"no", "asked"} \/ front = "cli")

\* Every step of a one-shot keeps it.
LEMMA ShotKept ==
  ASSUME ShotIInv, [Shot!ShotStep]_(Shot!shotVars) PROVE ShotIInv'
<1>0. /\ \A o, f : [ok |-> o, found |-> f].ok = o /\ [ok |-> o, found |-> f].found = f
      /\ ReadShort \in Nat
  BY ToolsAssumption
<1>1. CASE UNCHANGED Shot!shotVars
  BY <1>1 DEF Shot!shotVars, ShotIInv
<1>2. ASSUME NEW f \in {"cli", "ops"}, NEW v \in {"pub", "pull", "sub"}, Shot!MintIdentities(f, v) PROVE ShotIInv'
  BY <1>2 DEF Shot!MintIdentities, ShotIInv
<1>3. CASE Shot!Throws
  <2>0. phase # "off" /\ front \in {"cli", "ops"} /\ ShotIInv
    BY <1>3 DEF Shot!Throws, ShotIInv
  <2>1. /\ phase' = "end" /\ outcome' = [ok |-> "threw", found |-> "null"]
        /\ UNCHANGED <<front, verb, woven, elapsed, readTruth>>
    BY <1>3 DEF Shot!Throws, Shot!Ends
  <2>2. inMesh' => woven' \in {"no", "asked"} \/ front' = "cli"
    <3>1. CASE phase \in {"wire", "warm", "weave"}
      BY <2>1, <3>1 DEF ShotIInv
    <3>2. CASE phase = "verb" /\ front = "ops"
      BY <1>3, <2>0, <3>2 DEF Shot!Throws
    <3>3. CASE phase = "verb" /\ front # "ops"
      BY <2>0, <2>1, <3>3
    <3> QED BY <1>3, <3>1, <3>2, <3>3 DEF Shot!Throws
  <2>3. outcome'.ok = "threw" /\ outcome'.found = "null" /\ outcome' \in [ok : {"open", "yes", "no", "unreached", "threw"}, found : {"null", "true", "false"}]
    BY <2>1
  <2> QED BY <2>0, <2>1, <2>2, <2>3 DEF ShotIInv
<1>4. CASE Shot!Wires \/ Shot!Neighbours \/ Shot!Warmed \/ Shot!Weaves \/ Shot!MeshReady \/ Shot!Settled
  BY <1>4 DEF Shot!Wires, Shot!Neighbours, Shot!Warmed, Shot!Weaves, Shot!MeshReady, Shot!Settled, ShotIInv
<1>5. CASE Shot!NeverReady \/ Shot!Publishes \/ Shot!Listens
  BY <1>0, <1>5 DEF Shot!NeverReady, Shot!Publishes, Shot!Listens, Shot!Ends, ShotIInv
<1>6. CASE Shot!TimeOfRead \/ Shot!Hears \/ Shot!Lingered \/ Shot!Leaves
  BY <1>6 DEF Shot!TimeOfRead, Shot!Hears, Shot!Lingered, Shot!Leaves, ShotIInv
<1>7. CASE Shot!Reads
  <2>1. PICK t \in {"message", "nothing", "failure"} :
          /\ readTruth' = t
          /\ IF Shot!Inconclusive(t) THEN Shot!Ends("no", "null")
             ELSE Shot!Ends("yes", IF t = "message" THEN "true" ELSE "false")
    BY <1>7 DEF Shot!Reads
  <2>2. phase = "verb" /\ phase' = "leave" /\ UNCHANGED <<front, woven, inMesh, elapsed>>
    BY <1>7 DEF Shot!Reads
  <2>3. CASE Shot!Inconclusive(t)
    BY <1>0, <2>1, <2>2, <2>3 DEF Shot!Ends, ShotIInv
  <2>4. CASE ~Shot!Inconclusive(t)
    <3>1. t = "message" \/ (t = "nothing" /\ elapsed < ReadShort)
      BY <1>0, <2>1, <2>4 DEF Shot!Inconclusive, ShotIInv
    <3>2. outcome' = [ok |-> "yes", found |-> IF t = "message" THEN "true" ELSE "false"]
      BY <2>1, <2>4 DEF Shot!Ends
    <3> QED BY <1>0, <2>1, <2>2, <3>1, <3>2 DEF ShotIInv
  <2> QED BY <2>3, <2>4
<1> QED BY <1>1, <1>2, <1>3, <1>4, <1>5, <1>6, <1>7 DEF Shot!ShotStep

\* A script and a one-shot say of a message what they saw, and a one-shot leaves
\* the mesh unless it threw in startRelay() or in the verb of cli.js, however
\* many scripts run and however long they hold.
THEOREM ReportsTellTheTruth == ToolSpec => []ReportsAreTrue
<1>1. ToolInit => PostIInv /\ ShotIInv
  <2> SUFFICES ASSUME ToolInit PROVE PostIInv /\ ShotIInv
    OBVIOUS
  <2>1. Posts!PostInit /\ Shot!ShotInit
    BY DEF ToolInit
  <2> QED BY <2>1, PostBegins DEF Shot!ShotInit, ShotIInv
<1>2. [ToolNext]_toolVars => [Posts!PostStep]_(Posts!postVars)
  BY DEF ToolNext, toolVars, Others, postVs, Posts!postVars
<1>3. [ToolNext]_toolVars => [Shot!ShotStep]_(Shot!shotVars)
  BY DEF ToolNext, toolVars, Others, shotVs, Shot!shotVars
<1>4. PostIInv /\ ShotIInv /\ [ToolNext]_toolVars => PostIInv' /\ ShotIInv'
  BY <1>2, <1>3, PostKept, ShotKept
<1>5. PostIInv /\ ShotIInv => ReportsAreTrue
  BY SaidIsSo DEF ReportsAreTrue, Shot!OneShotIsHonest, ShotIInv
<1> QED BY <1>1, <1>4, <1>5, PTL DEF ToolSpec

-----------------------------------------------------------------------------
(* Reading back.  While a confirmation runs, its end lies within the drain's *)
(* budget, and no attempt is given more than what is left of it; an entry is *)
(* removed from the list in the step that reports it, unless the budget is   *)
(* spent.                                                                    *)

NoneTwice(s) == \A i, j \in DOMAIN s : s[i] = s[j] => i = j
InList(s) == {s[i] : i \in DOMAIN s}

ReadTypeOK ==
  /\ held \in SUBSET MsgId /\ inflight \in Seq(MsgId) /\ todo \in Seq(MsgId)
  /\ clock \in Nat /\ since \in Nat /\ budget \in Nat
  /\ confirmed \in SUBSET MsgId /\ unconfirmed \in SUBSET MsgId

EachOnce == NoneTwice(inflight) /\ NoneTwice(todo) /\ InList(todo) \cap (confirmed \cup unconfirmed) = {}

WithinBudget ==
  /\ clock <= DrainBudget
  /\ budget > 0 => todo # <<>> /\ since <= clock /\ clock <= since + budget /\ since + budget <= DrainBudget

ReadIInv ==
  /\ ReadTypeOK /\ EachOnce /\ WithinBudget
  /\ Reads!PullTellsTheTruth /\ Reads!DrainKeepsItsBudget

\* What is left of a list without repetitions is without the first of it.
LEMMA RestOfList ==
  ASSUME NEW s \in Seq(MsgId), NoneTwice(s), s # <<>>
  PROVE  /\ Head(s) \in InList(s) /\ Tail(s) \in Seq(MsgId) /\ NoneTwice(Tail(s)) /\ Head(s) \in MsgId
         /\ InList(Tail(s)) \subseteq InList(s) \ {Head(s)}
<1>1. Len(s) \in Nat \ {0} /\ DOMAIN s = 1 .. Len(s) /\ Head(s) = s[1] /\ 1 \in DOMAIN s /\ s[1] \in MsgId
  OBVIOUS
<1>2. PICK t : t = Tail(s)
  OBVIOUS
<1>3. t \in Seq(MsgId) /\ DOMAIN t = 1 .. Len(s) - 1
  BY <1>1, <1>2
<1>4. \A i \in DOMAIN t : i \in Nat /\ i + 1 \in DOMAIN s /\ i + 1 # 1 /\ t[i] = s[i + 1]
  BY <1>1, <1>2, <1>3
<1>5. NoneTwice(t)
  <2> SUFFICES ASSUME NEW i \in DOMAIN t, NEW j \in DOMAIN t, t[i] = t[j] PROVE i = j
    BY DEF NoneTwice
  <2>1. i + 1 = j + 1
    BY <1>4 DEF NoneTwice
  <2> QED BY <1>4, <2>1
<1>6. InList(t) \subseteq InList(s)
  BY <1>4 DEF InList
<1>7. Head(s) \notin InList(t)
  <2> SUFFICES ASSUME NEW i \in DOMAIN t, t[i] = s[1] PROVE FALSE
    BY <1>1 DEF InList
  <2>1. i + 1 = 1
    BY <1>1, <1>4 DEF NoneTwice
  <2> QED BY <1>4, <2>1
<1> QED BY <1>1, <1>2, <1>3, <1>5, <1>6, <1>7 DEF InList

\* An entry at its place, and the list without it.
LEMMA EntryRemoved ==
  ASSUME NEW s \in Seq(MsgId), NoneTwice(s), NEW i \in DOMAIN s
  PROVE  /\ Reads!Without(s, i) \in Seq(MsgId) /\ NoneTwice(Reads!Without(s, i))
         /\ InList(Reads!Without(s, i)) \subseteq InList(s) \ {s[i]}
<1>1. Len(s) \in Nat /\ i \in 1 .. Len(s) /\ DOMAIN s = 1 .. Len(s) /\ \A k \in 1 .. Len(s) : s[k] \in MsgId
  OBVIOUS
<1>2. PICK a, b : a = SubSeq(s, 1, i - 1) /\ b = SubSeq(s, i + 1, Len(s))
  OBVIOUS
<1>3. a \in Seq(MsgId) /\ Len(a) = i - 1 /\ \A k \in 1 .. (i - 1) : a[k] = s[k]
  BY <1>1, <1>2
<1>4. b \in Seq(MsgId) /\ Len(b) = Len(s) - i /\ \A k \in 1 .. (Len(s) - i) : b[k] = s[k + i]
  BY <1>1, <1>2
<1>5. PICK t : t = a \o b
  OBVIOUS
<1>6. t \in Seq(MsgId) /\ Len(t) = Len(s) - 1 /\ DOMAIN t = 1 .. (Len(s) - 1)
  <2>1. Len(a) + Len(b) = Len(s) - 1 /\ Len(s) - 1 \in Nat
    BY <1>1, <1>3, <1>4
  <2>2. a \in Seq(MsgId) /\ b \in Seq(MsgId)
    BY <1>3, <1>4
  <2>3. a \o b \in Seq(MsgId)
    BY <2>2
  <2>4. Len(a \o b) = Len(a) + Len(b)
    BY <2>2
  <2>5. t \in Seq(MsgId) /\ Len(t) = Len(s) - 1
    BY <1>5, <2>1, <2>3, <2>4
  <2> QED BY <2>5
<1> DEFINE at(k) == IF k < i THEN k ELSE k + 1
<1>7. \A k \in DOMAIN t : t[k] = s[at(k)]
  <2> SUFFICES ASSUME NEW k \in 1 .. (Len(s) - 1) PROVE t[k] = s[at(k)]
    BY <1>6
  <2>1. CASE k < i
    BY <1>1, <1>3, <1>4, <1>5, <2>1
  <2>2. CASE ~(k < i)
    <3>1. t[k] = b[k - Len(a)] /\ k - Len(a) \in 1 .. (Len(s) - i) /\ k - Len(a) + i = k + 1
      BY <1>1, <1>3, <1>4, <1>5, <2>2
    <3> QED BY <1>4, <2>2, <3>1
  <2> QED BY <2>1, <2>2
<1>8. \A k \in DOMAIN t : k \in Nat /\ at(k) \in DOMAIN s /\ at(k) # i
  BY <1>1, <1>6
<1>9. \A k, l \in DOMAIN t : at(k) = at(l) => k = l
  BY <1>1, <1>6
<1> HIDE DEF at
<1>10. NoneTwice(t)
  BY <1>7, <1>8, <1>9 DEF NoneTwice
<1>11. InList(t) \subseteq InList(s) \ {s[i]}
  BY <1>7, <1>8 DEF InList, NoneTwice
<1> QED BY <1>2, <1>5, <1>6, <1>10, <1>11 DEF Reads!Without

\* Deleting an entry leaves a list without it.
LEMMA EntryDeleted ==
  ASSUME ReadTypeOK, NoneTwice(inflight), NEW m, Reads!delete(m)
  PROVE  inflight' \in Seq(MsgId) /\ NoneTwice(inflight') /\ InList(inflight') \subseteq InList(inflight) \ {m}
<1>1. Reads!Listed = InList(inflight) /\ inflight \in Seq(MsgId)
  BY DEF Reads!Listed, InList, ReadTypeOK
<1>2. CASE m \in InList(inflight)
  <2>1. PICK i : i = CHOOSE k \in DOMAIN inflight : inflight[k] = m
    OBVIOUS
  <2>2. i \in DOMAIN inflight /\ inflight[i] = m
    BY <1>2, <2>1 DEF InList
  <2>3. inflight' = Reads!Without(inflight, i)
    BY <1>1, <1>2, <2>1 DEF Reads!delete
  <2> QED BY <1>1, <2>2, <2>3, EntryRemoved
<1>3. CASE m \notin InList(inflight)
  BY <1>1, <1>3 DEF Reads!delete
<1> QED BY <1>2, <1>3

\* An entry that is settled is removed from both lists.
LEMMA SettledRemoves ==
  ASSUME ReadIInv, budget > 0, Reads!Settled
  PROVE  /\ todo' \in Seq(MsgId) /\ inflight' \in Seq(MsgId) /\ NoneTwice(todo') /\ NoneTwice(inflight')
         /\ InList(todo') \subseteq InList(todo) \ {Head(todo)}
         /\ InList(inflight') \subseteq InList(inflight) \ {Head(todo)}
         /\ Head(todo) \in InList(todo) /\ Head(todo) \in MsgId /\ budget' = 0
<1>1. todo # <<>> /\ todo \in Seq(MsgId) /\ NoneTwice(todo) /\ NoneTwice(inflight) /\ ReadTypeOK
  BY DEF ReadIInv, WithinBudget, EachOnce, ReadTypeOK
<1>2. todo' = Tail(todo) /\ budget' = 0 /\ Reads!delete(Head(todo))
  BY DEF Reads!Settled
<1> QED BY <1>1, <1>2, RestOfList, EntryDeleted

\* A publish, and its arrival at the holder.
LEMMA PublishKeeps ==
  ASSUME ReadIInv, NEW m \in MsgId, Reads!Publish(m) \/ Reads!Reaches(m)
  PROVE  ReadIInv'
<1>0. ReadTypeOK /\ EachOnce /\ WithinBudget /\ Reads!PullTellsTheTruth /\ Reads!DrainKeepsItsBudget
  BY DEF ReadIInv
<1>1. Reads!Listed = InList(inflight) /\ Reads!Listed' = InList(inflight')
  BY DEF Reads!Listed, InList
<1>2. CASE Reads!Publish(m)
  <2>1. m \notin InList(inflight) \cup confirmed \cup unconfirmed /\ inflight' = Append(inflight, m)
        /\ UNCHANGED <<held, todo, clock, since, budget, confirmed, unconfirmed, wanted, truth, found>>
    BY <1>1, <1>2 DEF Reads!Publish, Reads!pullVars
  <2>2. /\ inflight \in Seq(MsgId) /\ Len(inflight) \in Nat /\ DOMAIN inflight = 1 .. Len(inflight)
        /\ inflight' \in Seq(MsgId) /\ DOMAIN inflight' = 1 .. (Len(inflight) + 1)
        /\ inflight'[Len(inflight) + 1] = m /\ \A i \in 1 .. Len(inflight) : inflight'[i] = inflight[i]
    BY <1>0, <2>1 DEF ReadTypeOK
  <2>3. \A i \in 1 .. Len(inflight) : inflight[i] # m
    BY <2>1, <2>2 DEF InList
  <2>4. NoneTwice(inflight')
    BY <1>0, <2>2, <2>3 DEF NoneTwice, EachOnce
  <2>5. InList(inflight') \subseteq InList(inflight) \cup {m}
    BY <2>2 DEF InList
  <2>6. ReadTypeOK' /\ WithinBudget' /\ Reads!PullTellsTheTruth'
    BY <1>0, <2>1, <2>2 DEF ReadTypeOK, WithinBudget, Reads!PullTellsTheTruth
  <2>7. EachOnce'
    BY <1>0, <2>1, <2>4 DEF EachOnce, NoneTwice
  <2>8. Reads!DrainKeepsItsBudget'
    BY <1>0, <1>1, <2>1, <2>5 DEF Reads!DrainKeepsItsBudget
  <2> QED BY <2>6, <2>7, <2>8 DEF ReadIInv
<1>3. CASE Reads!Reaches(m)
  <2>1. held' = held \cup {m}
        /\ UNCHANGED <<inflight, todo, clock, since, budget, confirmed, unconfirmed, wanted, truth, found>>
    BY <1>3 DEF Reads!Reaches, Reads!drainVars, Reads!pullVars
  <2>2. ReadTypeOK' /\ WithinBudget' /\ EachOnce' /\ Reads!PullTellsTheTruth'
    BY <1>0, <2>1 DEF ReadTypeOK, WithinBudget, EachOnce, NoneTwice, InList, Reads!PullTellsTheTruth
  <2>3. Reads!DrainKeepsItsBudget'
    BY <1>0, <1>1, <2>1 DEF Reads!DrainKeepsItsBudget
  <2> QED BY <2>2, <2>3 DEF ReadIInv
<1> QED BY <1>2, <1>3

\* A pull: what it says follows from what the holder did.
LEMMA PullKeeps == ASSUME ReadIInv, Reads!pullMessage PROVE ReadIInv'
<1>0. ReadTypeOK /\ EachOnce /\ WithinBudget /\ Reads!PullTellsTheTruth /\ Reads!DrainKeepsItsBudget
  BY DEF ReadIInv
<1>1. UNCHANGED <<held, inflight, todo, clock, since, budget, confirmed, unconfirmed>>
  BY DEF Reads!pullMessage, Reads!drainVars
<1>2. PICK id, env, late : /\ env \in Reads!Answer
                           /\ wanted' = id /\ truth' = env /\ found' = Reads!Report(id, env, late)
  BY DEF Reads!pullMessage
<1>3. found' = "yes" => env \notin {"silent", "fails", NoMsg} /\ (id # NoMsg => env = id)
  BY <1>2 DEF Reads!Report
<1>4. found' = "no" => env \notin {"silent", "fails"} /\ (env = NoMsg \/ env # id)
  BY <1>2 DEF Reads!Report
<1>5. Reads!PullTellsTheTruth'
  BY <1>1, <1>2, <1>3, <1>4 DEF Reads!PullTellsTheTruth, Reads!Answer
<1>6. ReadTypeOK' /\ WithinBudget' /\ EachOnce' /\ Reads!DrainKeepsItsBudget'
  BY <1>0, <1>1 DEF ReadTypeOK, WithinBudget, EachOnce, NoneTwice, InList, Reads!DrainKeepsItsBudget, Reads!Listed
<1> QED BY <1>5, <1>6 DEF ReadIInv

\* The drain takes its entries, one after the other.
LEMMA EntriesKeep == ASSUME ReadIInv, Reads!DrainStarts \/ Reads!NextEntry PROVE ReadIInv'
<1>0. ReadTypeOK /\ EachOnce /\ WithinBudget /\ Reads!PullTellsTheTruth /\ Reads!DrainKeepsItsBudget
      /\ ConfirmTime \in Nat /\ DrainBudget \in Nat
  BY ToolsAssumption DEF ReadIInv
<1>1. Reads!Listed = InList(inflight) /\ Reads!Listed' = InList(inflight')
  BY DEF Reads!Listed, InList
<1>2. CASE Reads!DrainStarts
  <2>1. todo' = inflight /\ budget = 0 /\ confirmed \cup unconfirmed = {}
        /\ UNCHANGED <<held, inflight, clock, since, budget, confirmed, unconfirmed, wanted, truth, found>>
    BY <1>2 DEF Reads!DrainStarts, Reads!pullVars
  <2>2. ReadTypeOK' /\ EachOnce' /\ WithinBudget'
    BY <1>0, <2>1 DEF ReadTypeOK, EachOnce, WithinBudget, NoneTwice
  <2>3. Reads!PullTellsTheTruth' /\ Reads!DrainKeepsItsBudget'
    BY <1>0, <1>1, <2>1 DEF Reads!PullTellsTheTruth, Reads!DrainKeepsItsBudget
  <2> QED BY <2>2, <2>3 DEF ReadIInv
<1>3. ASSUME Reads!NextEntry PROVE ReadIInv'
  <2>1. todo # <<>> /\ budget = 0
        /\ UNCHANGED <<held, inflight, clock, confirmed, wanted, truth, found>>
    BY <1>3 DEF Reads!NextEntry, Reads!pullVars
  <2>2. /\ Head(todo) \in InList(todo) /\ Tail(todo) \in Seq(MsgId) /\ NoneTwice(Tail(todo)) /\ Head(todo) \in MsgId
        /\ InList(Tail(todo)) \subseteq InList(todo) \ {Head(todo)}
    BY <1>0, <2>1, RestOfList DEF EachOnce, ReadTypeOK
  <2>3. Reads!PullTellsTheTruth'
    BY <1>0, <2>1 DEF Reads!PullTellsTheTruth
  <2>4. CASE clock >= DrainBudget
    <3>1. todo' = Tail(todo) /\ unconfirmed' = unconfirmed \cup {Head(todo)} /\ UNCHANGED <<since, budget>>
      BY <1>3, <2>4 DEF Reads!NextEntry
    <3>2. clock = DrainBudget /\ clock \in Nat
      BY <1>0, <2>4 DEF WithinBudget, ReadTypeOK
    <3>3. ReadTypeOK' /\ WithinBudget'
      BY <1>0, <2>1, <2>2, <3>1 DEF ReadTypeOK, WithinBudget
    <3>4. NoneTwice(todo') /\ NoneTwice(inflight')
      BY <1>0, <2>1, <2>2, <3>1 DEF EachOnce
    <3>5. InList(todo') \cap (confirmed' \cup unconfirmed') = {} /\ confirmed' \cap unconfirmed' = {}
      BY <1>0, <2>1, <2>2, <3>1 DEF EachOnce, Reads!DrainKeepsItsBudget
    <3>6. Reads!DrainKeepsItsBudget'
      BY <1>0, <1>1, <2>1, <3>2, <3>5 DEF Reads!DrainKeepsItsBudget
    <3> QED BY <2>3, <3>3, <3>4, <3>5, <3>6 DEF ReadIInv, EachOnce
  <2>5. CASE ~(clock >= DrainBudget)
    <3>1. since' = clock /\ budget' = Reads!Lesser(DrainBudget - clock, ConfirmTime) /\ UNCHANGED <<todo, unconfirmed>>
      BY <1>3, <2>5 DEF Reads!NextEntry
    <3>2. clock \in Nat /\ budget' \in Nat /\ clock + budget' <= DrainBudget
      BY <1>0, <2>5, <3>1 DEF ReadTypeOK, Reads!Lesser
    <3>3. ReadTypeOK' /\ WithinBudget'
      BY <1>0, <2>1, <3>1, <3>2 DEF ReadTypeOK, WithinBudget
    <3>4. EachOnce'
      BY <1>0, <2>1, <3>1 DEF EachOnce
    <3>5. Reads!DrainKeepsItsBudget'
      BY <1>0, <1>1, <2>1, <3>1 DEF Reads!DrainKeepsItsBudget
    <3> QED BY <2>3, <3>3, <3>4, <3>5 DEF ReadIInv
  <2> QED BY <2>4, <2>5
<1> QED BY <1>2, <1>3

\* An attempt, and the end of the time an entry had.
LEMMA AttemptKeeps == ASSUME ReadIInv, Reads!Attempt \/ Reads!OutOfTime PROVE ReadIInv'
<1>0. ReadTypeOK /\ EachOnce /\ WithinBudget /\ Reads!PullTellsTheTruth /\ Reads!DrainKeepsItsBudget
      /\ StepTime \in Nat /\ DrainBudget \in Nat
  BY ToolsAssumption DEF ReadIInv
<1>1. Reads!Listed = InList(inflight) /\ Reads!Listed' = InList(inflight')
  BY DEF Reads!Listed, InList
<1>2. budget > 0 /\ UNCHANGED <<held, since, wanted, truth, found>>
  BY DEF Reads!Attempt, Reads!OutOfTime, Reads!pullVars
<1>3. Reads!PullTellsTheTruth'
  BY <1>0, <1>2 DEF Reads!PullTellsTheTruth
<1>4. /\ clock \in Nat /\ since \in Nat /\ budget \in Nat /\ since <= clock
      /\ clock <= since + budget /\ since + budget <= DrainBudget
  BY <1>0, <1>2 DEF WithinBudget, ReadTypeOK
<1>5. \A m \in InList(inflight) \cap unconfirmed : clock = DrainBudget
  BY <1>0, <1>1 DEF Reads!DrainKeepsItsBudget
<1>6. ASSUME Reads!Settled, clock' \in Nat, clock' <= DrainBudget, clock <= clock',
             \/ confirmed' = confirmed \cup {Head(todo)} /\ unconfirmed' = unconfirmed /\ Head(todo) \in held
             \/ confirmed' = confirmed /\ unconfirmed' = unconfirmed \cup {Head(todo)}
      PROVE  ReadIInv'
  <2>1. /\ todo' \in Seq(MsgId) /\ inflight' \in Seq(MsgId) /\ NoneTwice(todo') /\ NoneTwice(inflight')
        /\ InList(todo') \subseteq InList(todo) \ {Head(todo)}
        /\ InList(inflight') \subseteq InList(inflight) \ {Head(todo)}
        /\ Head(todo) \in InList(todo) /\ Head(todo) \in MsgId /\ budget' = 0
    BY <1>2, <1>6, SettledRemoves
  <2>2. Head(todo) \notin confirmed \cup unconfirmed
    BY <1>0, <2>1 DEF EachOnce
  <2>3. ReadTypeOK' /\ WithinBudget'
    BY <1>0, <1>2, <1>6, <2>1 DEF ReadTypeOK, WithinBudget
  <2>4. InList(todo') \cap (confirmed' \cup unconfirmed') = {} /\ confirmed' \cap unconfirmed' = {}
    BY <1>0, <1>6, <2>1, <2>2 DEF EachOnce, Reads!DrainKeepsItsBudget
  <2>5. confirmed' \subseteq held' /\ InList(inflight') \cap confirmed' = {}
    BY <1>0, <1>1, <1>2, <1>6, <2>1 DEF Reads!DrainKeepsItsBudget
  <2>6. ASSUME NEW m \in InList(inflight') \cap unconfirmed' PROVE clock' = DrainBudget
    <3>1. m \in InList(inflight) \cap unconfirmed
      BY <1>6, <2>1, <2>6
    <3>2. clock = DrainBudget
      BY <1>5, <3>1
    <3> QED BY <1>0, <1>6, <3>2
  <2>7. Reads!DrainKeepsItsBudget'
    BY <1>1, <1>6, <2>4, <2>5, <2>6 DEF Reads!DrainKeepsItsBudget
  <2> QED BY <1>3, <2>1, <2>3, <2>4, <2>7 DEF ReadIInv, EachOnce
<1>7. CASE Reads!OutOfTime
  <2>1. Reads!Settled /\ confirmed' = confirmed /\ unconfirmed' = unconfirmed \cup {Head(todo)} /\ clock' = clock
    BY <1>7 DEF Reads!OutOfTime
  <2>2. clock' \in Nat /\ clock' <= DrainBudget /\ clock <= clock'
    BY <1>0, <1>4, <2>1
  <2> QED BY <1>6, <2>1, <2>2
<1>8. CASE Reads!Attempt
  <2>0. clock < since + budget /\ unconfirmed' = unconfirmed
    BY <1>8 DEF Reads!Attempt
  <2>1. PICK d \in 0 .. Reads!Lesser(StepTime, Reads!Remaining), readBack \in BOOLEAN :
          /\ readBack => Head(todo) \in held
          /\ clock' = clock + d
          /\ IF readBack THEN Reads!Settled /\ confirmed' = confirmed \cup {Head(todo)}
             ELSE UNCHANGED <<todo, budget, inflight, confirmed>>
    BY <1>8 DEF Reads!Attempt
  <2>2. d \in Nat /\ d <= budget - (clock - since)
    BY <1>0, <1>4, <2>1 DEF Reads!Lesser, Reads!Remaining
  <2>3. clock' \in Nat /\ clock <= clock' /\ clock' <= since + budget /\ clock' <= DrainBudget
    BY <1>0, <1>4, <2>1, <2>2
  <2>4. CASE readBack
    BY <1>6, <2>0, <2>1, <2>3, <2>4
  <2>5. CASE ~readBack
    <3>1. UNCHANGED <<todo, budget, inflight, confirmed, unconfirmed, held, since>>
      BY <1>2, <2>0, <2>1, <2>5
    <3>2. ReadTypeOK' /\ WithinBudget'
      BY <1>0, <1>2, <1>4, <2>3, <3>1 DEF ReadTypeOK, WithinBudget
    <3>3. EachOnce'
      BY <1>0, <3>1 DEF EachOnce
    <3>4. InList(inflight') \cap unconfirmed' = {}
      <4> SUFFICES ASSUME NEW m \in InList(inflight) \cap unconfirmed PROVE FALSE
        BY <3>1
      <4>1. clock = DrainBudget
        BY <1>5
      <4> QED BY <1>0, <1>4, <2>0, <4>1
    <3>5. Reads!DrainKeepsItsBudget'
      BY <1>0, <1>1, <2>3, <3>1, <3>4 DEF Reads!DrainKeepsItsBudget
    <3> QED BY <1>3, <3>2, <3>3, <3>5 DEF ReadIInv
  <2> QED BY <2>4, <2>5
<1> QED BY <1>7, <1>8

\* A read says only what the holder answered, and the drain before a close
\* keeps its budget, however many publishes wait and however slow the holder.
THEOREM ReadsTellTheTruth == ToolSpec => []ReadsAreHonest
<1>1. ToolInit => ReadIInv
  <2> SUFFICES ASSUME Reads!ReadInit PROVE ReadIInv
    BY DEF ToolInit
  <2>1. <<>> \in Seq(MsgId) /\ NoneTwice(<<>>) /\ InList(<<>>) = {} /\ DrainBudget \in Nat
    BY ToolsAssumption DEF NoneTwice, InList
  <2>2. ReadTypeOK /\ EachOnce /\ WithinBudget
    BY <2>1 DEF Reads!ReadInit, ReadTypeOK, EachOnce, WithinBudget
  <2>3. Reads!Listed = {}
    BY <2>1 DEF Reads!ReadInit, Reads!Listed, InList
  <2> QED BY <2>1, <2>2, <2>3 DEF Reads!ReadInit, ReadIInv, Reads!PullTellsTheTruth, Reads!DrainKeepsItsBudget
<1>2. [ToolNext]_toolVars => [Reads!ReadStep]_(Reads!readVars)
  BY DEF ToolNext, toolVars, Others, readVs, Reads!readVars, Reads!drainVars, Reads!pullVars
<1>3. ASSUME ReadIInv, UNCHANGED Reads!readVars PROVE ReadIInv'
  BY <1>3 DEF Reads!readVars, Reads!drainVars, Reads!pullVars, ReadIInv, ReadTypeOK, EachOnce, NoneTwice, InList,
              WithinBudget, Reads!PullTellsTheTruth, Reads!DrainKeepsItsBudget, Reads!Listed
<1>4. ReadIInv /\ [ToolNext]_toolVars => ReadIInv'
  BY <1>2, <1>3, PublishKeeps, PullKeeps, EntriesKeep, AttemptKeeps DEF Reads!ReadStep
<1>5. ReadIInv => ReadsAreHonest
  BY DEF ReadIInv, ReadsAreHonest
<1> QED BY <1>1, <1>4, <1>5, PTL DEF ToolSpec

=============================================================================
