------------------------- MODULE WatchReseat_proofs -------------------------
(***************************************************************************)
(* Theorems of WatchReseat for every set of messages and of reconnects.    *)
(*                                                                         *)
(* The argument.  Whatever reconnects overlap or fail, a record holds a    *)
(* message at most once, counts it once, and holds all it has seen but     *)
(* what a poll or the cap took: the deliveries and the re-seat both keep   *)
(* that.  And where no reconnect failed or met another, the records that   *)
(* can still be read have seen all there was: the one the reconnect set    *)
(* out from, and the one its watch() subscribes.                           *)
(***************************************************************************)
EXTENDS WatchReseat, FiniteSetTheorems, WellFoundedInduction, TLAPS

-----------------------------------------------------------------------------
\* What a record is, whoever can read it: a message waits in it once, was seen,
\* and was counted when it was first seen.
Recorded(w) ==
  /\ w \in [buffer : Seq(Id), seen : SUBSET Id, seenOrder : {<<>>}, total : Nat,
            replayed : {0}, drained : {0}, dropped : {0}]
  /\ \A i, j \in DOMAIN w.buffer : w.buffer[i] = w.buffer[j] => i = j
  /\ Elems(w.buffer) \subseteq w.seen
  /\ IsFiniteSet(w.seen) /\ w.total = Cardinality(w.seen)

Records ==
  /\ rec \in [Rec -> Watch]
  /\ \A o \in Rec : Recorded(rec[o])

\* What a record has seen and no longer holds was handed out or evicted.
Kept == \A o \in Rec : rec[o].seen \subseteq gone \cup Elems(rec[o].buffer)

Typed ==
  /\ TypeOK
  /\ session # None => session \in up
  /\ \A r \in Reconnect : stage[r] = "resub" => held[r] # None

\* The watch a reconnect leaves behind it, and the one it finds: the table's
\* record is fed by the one peer there is, and has seen all there was.
Seated ==
  /\ table # None /\ session # None /\ up = {session}
  /\ fed = {<<table, session>>}
  /\ Got = rec[table].seen

\* Where a reconnect is that met no other and no failure.
Leaving(r) == Seated /\ on[r] = session /\ ref[r] = table

Between(r) ==
  /\ session = None /\ up = {} /\ table = None /\ fed = {}
  /\ ref[r] # None /\ Got = rec[ref[r]].seen

Arriving(r) ==
  /\ session = r /\ up = {r} /\ ref[r] # None
  /\ stage[r] = "watch" /\ table = None => fed = {} /\ Got = rec[ref[r]].seen
  /\ stage[r] = "sub" =>
       /\ table = None /\ fed = {<<Fresh(r), r>>}
       /\ Got = rec[ref[r]].seen \cup rec[Fresh(r)].seen
  /\ table # None =>
       /\ phase[r] = "seat" /\ Got = rec[ref[r]].seen \cup rec[table].seen
       /\ fed = IF stage[r] = "resub" THEN {} ELSE {<<table, r>>}
  /\ stage[r] \in {"resub", "settle"} => table # None
  /\ stage[r] = "resub" => held[r] = <<table, r>>

Alone ==
  /\ \A r, q \in Active : r = q
  /\ Active = {} => Seated
  /\ \A r \in Active :
       /\ stage[r] = "closing" => Leaving(r)
       /\ stage[r] = "connect" => Between(r)
       /\ stage[r] \in {"watch", "sub", "resub", "settle"} => Arriving(r)

IInv == Typed /\ Records /\ Kept /\ (clean => Alone)

-----------------------------------------------------------------------------
(* Induction on the natural numbers, from the well-foundedness of < *)

Before == {p \in Nat \X Nat : p[1] < p[2]}

\* < on the naturals, as a relation.
LEMMA BeforeIsWellFounded == IsWellFoundedOn(Before, Nat)
<1>1. IsWellFoundedOn(OpToRel(<, Nat), Nat)
  BY NatLessThanWellFounded
<1>2. OpToRel(<, Nat) = Before
  BY DEF OpToRel, Before
<1> QED BY <1>1, <1>2

\* A set of naturals with 0 and with every successor holds them all: of the
\* numbers it would lack there is a least.
LEMMA Counting ==
  ASSUME NEW S \in SUBSET Nat, 0 \in S, \A n \in S : n + 1 \in S
  PROVE  S = Nat
<1> SUFFICES ASSUME Nat \ S # {} PROVE FALSE
  OBVIOUS
<1> DEFINE T == Nat \ S
<1>1. PICK x \in T : \A y \in T : ~ (<<y, x>> \in Before)
  <2>1. T \subseteq Nat /\ T # {}
    OBVIOUS
  <2> HIDE DEF T
  <2> QED BY <2>1, BeforeIsWellFounded, WFMin
<1>2. x \in Nat \ {0}
  OBVIOUS
<1>3. x - 1 \in Nat /\ <<x - 1, x>> \in Before
  BY <1>2 DEF Before
<1>4. x - 1 \in S
  BY <1>1, <1>3
<1>5. (x - 1) + 1 \in S
  BY <1>4
<1> QED BY <1>2, <1>5

-----------------------------------------------------------------------------
(* What buffer.filter() returns *)

\* One step of the filter.
Filter(s, have, f, i) ==
  IF i = 0 THEN <<>> ELSE IF s[i] \in have THEN f[i - 1] ELSE Append(f[i - 1], s[i])

\* A prefix that has been filtered.
Filtered(s, have, f, n) == \A i \in 0 .. n : f[i] = Filter(s, have, f, i)

\* The filter of every prefix exists.
LEMMA FilterExists ==
  ASSUME NEW s, NEW have, NEW m \in Nat
  PROVE  \E f : f = [i \in 0 .. m |-> Filter(s, have, f, i)]
<1> DEFINE Q(n) == \E f : f = [i \in 0 .. n |-> Filter(s, have, f, i)]
           S == {n \in Nat : Q(n)}
<1>1. 0 \in S
  <2> DEFINE f == [i \in 0 .. 0 |-> <<>>]
  <2>1. f = [i \in 0 .. 0 |-> Filter(s, have, f, i)]
    BY DEF Filter
  <2>2. Q(0)
    BY <2>1
  <2> QED BY <2>2
<1>2. ASSUME NEW n \in S PROVE n + 1 \in S
  <2>1. PICK f : f = [i \in 0 .. n |-> Filter(s, have, f, i)]
    BY <1>2
  <2> DEFINE last == IF s[n + 1] \in have THEN f[n] ELSE Append(f[n], s[n + 1])
             g == [i \in 0 .. n + 1 |-> IF i = n + 1 THEN last ELSE f[i]]
  <2>2. ASSUME NEW i \in 0 .. n + 1 PROVE g[i] = Filter(s, have, g, i)
    <3>1. CASE i = n + 1
      <4>1. i # 0 /\ i - 1 = n /\ g[i - 1] = f[n] /\ g[i] = last
        BY <3>1
      <4> QED BY <4>1, <3>1 DEF Filter
    <3>2. CASE i \in 0 .. n
      <4>1. f[i] = Filter(s, have, f, i)
        BY <2>1, <3>2
      <4>2. g[i] = f[i] /\ (i # 0 => i - 1 \in 0 .. n /\ g[i - 1] = f[i - 1])
        BY <3>2
      <4> HIDE DEF g, last
      <4> QED BY <4>1, <4>2 DEF Filter
    <3> QED BY <3>1, <3>2
  <2>3. g = [i \in 0 .. n + 1 |-> Filter(s, have, g, i)]
    BY <2>2
  <2> HIDE DEF g, last
  <2>4. Q(n + 1)
    BY <2>3
  <2> QED BY <2>4
<1>3. S = Nat
  <2> HIDE DEF S
  <2>1. S \subseteq Nat
    BY DEF S
  <2> QED BY <1>1, <1>2, <2>1, Counting
<1> QED BY <1>3

\* The filter keeps the messages not given, in a buffer without repetitions.
LEMMA UnheldKeeps ==
  ASSUME NEW s \in Seq(Id), NEW have
  PROVE  /\ Unheld(s, have) \in Seq(Id)
         /\ Elems(Unheld(s, have)) = Elems(s) \ have
         /\ (\A i, j \in DOMAIN s : s[i] = s[j] => i = j)
              => \A i, j \in DOMAIN Unheld(s, have) :
                   Unheld(s, have)[i] = Unheld(s, have)[j] => i = j
<1> DEFINE m == Len(s)
           f == CHOOSE g : g = [i \in 0 .. m |-> Filter(s, have, g, i)]
           Once(t) == \A i, j \in DOMAIN t : t[i] = t[j] => i = j
           Upto(n) == {s[i] : i \in 1 .. n}
           S == {n \in Nat : n <= m =>
                   /\ f[n] \in Seq(Id)
                   /\ Elems(f[n]) = Upto(n) \ have
                   /\ Once(s) => Once(f[n])}
<1>1. m \in Nat /\ DOMAIN s = 1 .. m /\ \A i \in 1 .. m : s[i] \in Id
  OBVIOUS
<1>2. f = [i \in 0 .. m |-> Filter(s, have, f, i)]
  BY <1>1, FilterExists
<1>3. Unheld(s, have) = f[m]
  BY DEF Unheld, Filter
<1> HIDE DEF f, m
<1>a. \A i \in 0 .. m : f[i] = Filter(s, have, f, i)
  <2> DEFINE F(i) == Filter(s, have, f, i)
  <2>1. f = [i \in 0 .. m |-> F(i)]
    BY <1>2
  <2> HIDE DEF F
  <2>2. \A i \in 0 .. m : f[i] = F(i)
    BY <2>1
  <2> QED BY <2>2 DEF F
<1>4. 0 \in S
  <2>1. f[0] = <<>>
    BY <1>1, <1>a DEF Filter
  <2>2. f[0] \in Seq(Id) /\ DOMAIN f[0] = {}
    BY <2>1
  <2>3. Elems(f[0]) = {} /\ Upto(0) = {}
    BY <2>2 DEF Elems
  <2> QED BY <2>2, <2>3
<1>5. ASSUME NEW n \in S PROVE n + 1 \in S
  <2> SUFFICES ASSUME n + 1 <= m
               PROVE  /\ f[n + 1] \in Seq(Id)
                      /\ Elems(f[n + 1]) = Upto(n + 1) \ have
                      /\ Once(s) => Once(f[n + 1])
    OBVIOUS
  <2>0. n \in Nat /\ n <= m /\ n + 1 \in 1 .. m /\ s[n + 1] \in Id
    BY <1>1
  <2>1. f[n] \in Seq(Id) /\ Elems(f[n]) = Upto(n) \ have /\ (Once(s) => Once(f[n]))
    BY <2>0
  <2>2. Upto(n + 1) = Upto(n) \cup {s[n + 1]}
    BY <2>0
  <2>3. f[n + 1] = IF s[n + 1] \in have THEN f[n] ELSE Append(f[n], s[n + 1])
    BY <1>1, <1>a, <2>0 DEF Filter
  <2>4. CASE s[n + 1] \in have
    BY <2>1, <2>2, <2>3, <2>4
  <2>5. CASE s[n + 1] \notin have
    <3> DEFINE t == f[n]
    <3>1. f[n + 1] = Append(t, s[n + 1])
      BY <2>3, <2>5
    <3>2. t \in Seq(Id) /\ Elems(t) = Upto(n) \ have /\ (Once(s) => Once(t))
      BY <2>1
    <3> HIDE DEF t
    <3>3. /\ f[n + 1] \in Seq(Id) /\ DOMAIN f[n + 1] = 1 .. Len(t) + 1 /\ Len(t) \in Nat
          /\ DOMAIN t = 1 .. Len(t)
          /\ \A i \in 1 .. Len(t) : f[n + 1][i] = t[i]
          /\ f[n + 1][Len(t) + 1] = s[n + 1]
      BY <3>1, <3>2, <2>0
    <3>4. Elems(f[n + 1]) = Elems(t) \cup {s[n + 1]}
      BY SMTT(30), <3>3 DEF Elems
    <3>5. ASSUME Once(s) PROVE Once(f[n + 1])
      <4>1. s[n + 1] \notin Upto(n)
        BY <3>5, <1>1, <2>0
      <4>2. \A i \in DOMAIN t : t[i] # s[n + 1]
        BY <3>2, <4>1 DEF Elems
      <4> QED BY <3>2, <3>3, <3>5, <4>2
    <3> QED BY <3>2, <3>3, <3>4, <3>5, <2>2, <2>5
  <2> QED BY <2>4, <2>5
<1>6. m \in S
  <2>1. S \subseteq Nat
    OBVIOUS
  <2> HIDE DEF S
  <2> QED BY <1>1, <1>4, <1>5, <2>1, Counting
<1>7. Upto(m) = Elems(s)
  BY <1>1 DEF Elems
<1> QED BY <1>1, <1>3, <1>6, <1>7

-----------------------------------------------------------------------------
(* What happens to a record *)

Once(s) == \A i, j \in DOMAIN s : s[i] = s[j] => i = j

\* A record of messages, its counters not yet forgotten.
Full ==
  [buffer : Seq(Id), seen : SUBSET Id, seenOrder : Seq(Id), total : Nat,
   replayed : Nat, drained : Nat, dropped : Nat]

Shape ==
  [buffer : Seq(Id), seen : SUBSET Id, seenOrder : {<<>>}, total : Nat,
   replayed : {0}, drained : {0}, dropped : {0}]

\* The records followed are full ones, and watches.
LEMMA ShapeIsFull == Shape \subseteq Full /\ Full \subseteq Watch
<1>1. Seq(Id) \subseteq Seq(Msg)
  BY DEF Msg
<1>2. <<>> \in Seq(Id)
  OBVIOUS
<1>3. ASSUME NEW x \in Shape PROVE x \in Full
  <2>1. x.seenOrder \in Seq(Id)
    BY <1>2 DEF Shape
  <2> QED BY <2>1 DEF Shape, Full
<1>4. Full \subseteq Watch
  BY <1>1 DEF Full, Watch
<1> QED BY <1>3, <1>4

\* Forgetting the counters keeps the buffer, what was seen and the total.
LEMMA FollowedKeeps ==
  ASSUME NEW x \in Full
  PROVE  /\ Followed(x) \in Shape /\ Followed(x).buffer = x.buffer
         /\ Followed(x).seen = x.seen /\ Followed(x).total = x.total
  BY DEF Full, Shape, Followed

\* A record before the message enters its buffer.
Note(w, id) == IF Known(w, id) THEN [w EXCEPT !.replayed = @ + 1] ELSE Remember(w, id)

\* An id that is noted was seen, and counts when it is new.
LEMMA Noted ==
  ASSUME NEW w \in Shape, NEW id \in Id
  PROVE  /\ Note(w, id) \in Full /\ Note(w, id).buffer = w.buffer
         /\ Note(w, id).seen = w.seen \cup {id}
         /\ Note(w, id).total = IF id \in w.seen THEN w.total ELSE w.total + 1
<1> DEFINE v == Note(w, id)
<1>0. id # NoId /\ w \in Full
  BY WatchAssumption, ShapeIsFull
<1>1. CASE id \in w.seen
  <2>1. v = [w EXCEPT !.replayed = @ + 1]
    BY <1>0, <1>1 DEF Known, Note
  <2> HIDE DEF v
  <2>2. v \in Full /\ v.buffer = w.buffer /\ v.seen = w.seen /\ v.total = w.total
    BY SMTT(30), <1>0, <2>1 DEF Full
  <2> QED BY <1>1, <2>2 DEF v
<1>2. CASE id \notin w.seen
  <2> DEFINE order == Append(w.seenOrder, id)
  <2>1. order \in Seq(Id) /\ Len(order) = 1
    <3>1. w.seenOrder = <<>>
      BY DEF Shape
    <3> QED BY <3>1
  <2>2. ~(Len(order) > SeenCap)
    BY <2>1, WatchAssumption
  <2>3. v = [w EXCEPT !.total = @ + 1, !.seenOrder = order, !.seen = @ \cup {id}]
    BY <1>0, <1>2, <2>2 DEF Remember, Known, Note
  <2>4. w.total + 1 \in Nat /\ w.seen \cup {id} \in SUBSET Id
    BY <1>0 DEF Full
  <2> HIDE DEF order, v
  <2>5. v \in Full /\ v.buffer = w.buffer /\ v.seen = w.seen \cup {id} /\ v.total = w.total + 1
    BY <1>0, <2>1, <2>3, <2>4 DEF Full
  <2> QED BY <1>2, <2>5 DEF v
<1> QED BY <1>1, <1>2

\* A message that enters goes last, and the first leaves over the cap.
LEMMA Pushed ==
  ASSUME NEW v \in Full, NEW id \in Id, Once(v.buffer), id \notin Elems(v.buffer)
  PROVE  /\ Push(v, id) \in Full /\ Push(v, id).seen = v.seen /\ Push(v, id).total = v.total
         /\ Once(Push(v, id).buffer)
         /\ Elems(Push(v, id).buffer) \subseteq Elems(v.buffer) \cup {id}
<1> DEFINE s == v.buffer
           b == Append(s, id)
<1>1. s \in Seq(Id) /\ Len(s) \in Nat /\ DOMAIN s = 1 .. Len(s)
  BY DEF Full
<1>2. /\ b \in Seq(Id) /\ Len(b) = Len(s) + 1 /\ DOMAIN b = 1 .. Len(s) + 1
      /\ \A i \in 1 .. Len(s) : b[i] = s[i]
      /\ b[Len(s) + 1] = id
  BY <1>1
<1>3. Once(b) /\ Elems(b) = Elems(s) \cup {id}
  BY <1>1, <1>2 DEF Once, Elems
<1> DEFINE t == Tail(b)
<1>4. /\ t \in Seq(Id) /\ DOMAIN t = 1 .. Len(s)
      /\ \A i \in 1 .. Len(s) : t[i] = b[i + 1]
  BY <1>1, <1>2
<1>5. Once(t) /\ Elems(t) \subseteq Elems(b)
  <2> HIDE DEF b, t, s
  <2>1. \A i \in 1 .. Len(s) : i + 1 \in DOMAIN b
    BY <1>1, <1>2
  <2> QED BY <1>1, <1>3, <1>4, <2>1 DEF Once, Elems
<1>6. Push(v, id) = IF Len(b) > BufferCap
                      THEN [v EXCEPT !.buffer = t, !.dropped = @ + 1]
                      ELSE [v EXCEPT !.buffer = b]
  BY DEF Push
<1> HIDE DEF b, t
<1>7. CASE Len(b) > BufferCap
  <2>1. Push(v, id) = [v EXCEPT !.buffer = t, !.dropped = @ + 1]
    BY <1>6, <1>7
  <2>2. v.dropped + 1 \in Nat
    BY DEF Full
  <2> DEFINE x == Push(v, id)
  <2> HIDE DEF x
  <2>3. x \in Full /\ x.buffer = t /\ x.seen = v.seen /\ x.total = v.total
    BY <1>4, <2>1, <2>2 DEF Full, x
  <2> QED BY <1>3, <1>5, <2>3 DEF x
<1>8. CASE ~(Len(b) > BufferCap)
  <2>1. Push(v, id) = [v EXCEPT !.buffer = b]
    BY <1>6, <1>8
  <2>2. Push(v, id) \in Full /\ Push(v, id).buffer = b
        /\ Push(v, id).seen = v.seen /\ Push(v, id).total = v.total
    BY <1>2, <2>1 DEF Full
  <2> QED BY <1>3, <2>2
<1> QED BY <1>7, <1>8

\* An arrival is seen, counted once, and held once.
LEMMA Delivered ==
  ASSUME NEW w, Recorded(w), NEW id \in Id
  PROVE  /\ Recorded(Followed(Deliver(w, id)))
         /\ Followed(Deliver(w, id)).seen = w.seen \cup {id}
         /\ Followed(Deliver(w, id)).buffer = Deliver(w, id).buffer
<1>0. /\ w \in Shape /\ w \in Full /\ Once(w.buffer) /\ Elems(w.buffer) \subseteq w.seen
      /\ IsFiniteSet(w.seen) /\ w.total = Cardinality(w.seen) /\ id # NoId
  BY ShapeIsFull, WatchAssumption DEF Recorded, Shape, Once
<1>1. CASE Duplicate(w, id)
  <2>1. Deliver(w, id) = w /\ id \in w.seen
    BY <1>1 DEF Deliver, Duplicate, Known
  <2>2. /\ Followed(w) \in Shape /\ Followed(w).buffer = w.buffer
        /\ Followed(w).seen = w.seen /\ Followed(w).total = w.total
    BY <1>0, FollowedKeeps
  <2>3. w.seen = w.seen \cup {id}
    BY <2>1
  <2>4. Recorded(Followed(w))
    BY <1>0, <2>2 DEF Recorded, Once, Shape
  <2> QED BY <2>1, <2>2, <2>3, <2>4
<1>2. CASE ~Duplicate(w, id)
  <2> DEFINE v == Note(w, id)
             x == Push(v, id)
  <2>1. Deliver(w, id) = x
    BY <1>2 DEF Deliver, Note
  <2>2. /\ v \in Full /\ v.buffer = w.buffer /\ v.seen = w.seen \cup {id}
        /\ v.total = IF id \in w.seen THEN w.total ELSE w.total + 1
    BY <1>0, Noted
  <2>3. id \notin Elems(w.buffer)
    BY <1>0, <1>2 DEF Duplicate, Known, Buffered, Elems
  <2> HIDE DEF v
  <2>4. /\ x \in Full /\ x.seen = v.seen /\ x.total = v.total
        /\ Once(x.buffer) /\ Elems(x.buffer) \subseteq Elems(v.buffer) \cup {id}
    BY <1>0, <2>2, <2>3, Pushed
  <2> HIDE DEF x
  <2>5. /\ Followed(x) \in Shape /\ Followed(x).buffer = x.buffer
        /\ Followed(x).seen = x.seen /\ Followed(x).total = x.total
    BY <2>4, FollowedKeeps
  <2>6. IsFiniteSet(v.seen) /\ v.total = Cardinality(v.seen)
    <3>1. CASE id \in w.seen
      <4>1. w.seen \cup {id} = w.seen
        BY <3>1
      <4> QED BY <1>0, <2>2, <3>1, <4>1
    <3>2. CASE id \notin w.seen
      BY <1>0, <2>2, <3>2, FS_AddElement
    <3> QED BY <3>1, <3>2
  <2>7. Elems(x.buffer) \subseteq v.seen
    BY <1>0, <2>2, <2>4
  <2>8. Recorded(Followed(x))
    BY <2>4, <2>5, <2>6, <2>7 DEF Recorded, Once, Shape
  <2> QED BY <2>1, <2>2, <2>4, <2>5, <2>8
<1> QED BY <1>1, <1>2

\* A poll takes the first k messages and leaves the others.
LEMMA Polled ==
  ASSUME NEW w, Recorded(w), NEW k \in 0 .. Len(w.buffer)
  PROVE  /\ Recorded(Followed(Collect(w, k)))
         /\ Followed(Collect(w, k)).seen = w.seen
         /\ Elems(w.buffer) \subseteq Elems(SubSeq(w.buffer, 1, k))
                                        \cup Elems(Followed(Collect(w, k)).buffer)
<1> DEFINE s == w.buffer
           m == Len(s)
           b == SubSeq(s, k + 1, m)
           a == SubSeq(s, 1, k)
<1>0. /\ w \in Shape /\ w \in Full /\ Once(s) /\ Elems(s) \subseteq w.seen
      /\ IsFiniteSet(w.seen) /\ w.total = Cardinality(w.seen)
  BY ShapeIsFull DEF Recorded, Shape, Once
<1>1. s \in Seq(Id) /\ m \in Nat /\ DOMAIN s = 1 .. m /\ k \in Nat /\ k <= m
  BY <1>0 DEF Shape
<1>2. /\ b \in Seq(Id) /\ DOMAIN b = 1 .. m - k
      /\ \A i \in 1 .. m - k : b[i] = s[i + k]
  BY <1>1
<1>3. DOMAIN a = 1 .. k /\ \A i \in 1 .. k : a[i] = s[i]
  BY <1>1
<1> HIDE DEF b, a, m
<1>4. Once(b) /\ Elems(b) \subseteq Elems(s)
  <2>1. \A i \in 1 .. m - k : i + k \in DOMAIN s
    BY <1>1
  <2>2. ASSUME NEW i \in DOMAIN b, NEW j \in DOMAIN b, b[i] = b[j] PROVE i = j
    <3>1. i \in Int /\ j \in Int /\ i + k \in DOMAIN s /\ j + k \in DOMAIN s /\ s[i + k] = s[j + k]
      BY <1>2, <2>1, <2>2
    <3>2. i + k = j + k
      BY <1>0, <3>1 DEF Once
    <3> QED BY <1>1, <3>1, <3>2
  <2>3. Elems(b) \subseteq Elems(s)
    BY <1>2, <2>1 DEF Elems
  <2> QED BY <2>2, <2>3 DEF Once
<1>5. Elems(s) \subseteq Elems(a) \cup Elems(b)
  <2> SUFFICES ASSUME NEW i \in 1 .. m PROVE s[i] \in Elems(a) \cup Elems(b)
    BY <1>1 DEF Elems
  <2>1. CASE i <= k
    BY <1>1, <1>3, <2>1 DEF Elems
  <2>2. CASE i > k
    <3>1. i - k \in 1 .. m - k /\ (i - k) + k = i
      BY <1>1, <2>2
    <3> QED BY <1>2, <3>1 DEF Elems
  <2> QED BY <1>1, <2>1, <2>2
<1> DEFINE x == Collect(w, k)
<1>6. x \in Full /\ x.buffer = b /\ x.seen = w.seen /\ x.total = w.total
  <2>1. x = [w EXCEPT !.buffer = b, !.drained = @ + k]
    BY DEF Collect, b, m
  <2>2. w.drained + k \in Nat
    BY <1>0, <1>1 DEF Full
  <2> HIDE DEF x
  <2> QED BY <1>0, <1>2, <2>1, <2>2 DEF Full
<1> HIDE DEF x
<1>7. /\ Followed(x) \in Shape /\ Followed(x).buffer = b
      /\ Followed(x).seen = w.seen /\ Followed(x).total = w.total
  BY <1>6, FollowedKeeps
<1>8. Recorded(Followed(x))
  BY <1>0, <1>4, <1>7 DEF Recorded, Once, Shape
<1> QED BY <1>5, <1>7, <1>8 DEF x, a

\* The re-seat puts together what two records hold, saw and counted.
LEMMA Merged ==
  ASSUME NEW n, NEW o, Recorded(n), Recorded(o)
  PROVE  /\ Recorded(Merge(n, o))
         /\ Merge(n, o).seen = n.seen \cup o.seen
         /\ Elems(Merge(n, o).buffer) = Elems(n.buffer) \cup Elems(o.buffer)
<1> DEFINE u == Unheld(o.buffer, Elems(n.buffer))
           c == u \o n.buffer
           known == Cardinality(n.seen \cup o.seen)
           x == Merge(n, o)
<1>0. /\ n \in Shape /\ Once(n.buffer) /\ Elems(n.buffer) \subseteq n.seen
      /\ IsFiniteSet(n.seen) /\ n.total = Cardinality(n.seen)
      /\ o \in Shape /\ Once(o.buffer) /\ Elems(o.buffer) \subseteq o.seen /\ IsFiniteSet(o.seen)
  BY DEF Recorded, Shape, Once
<1>1. u \in Seq(Id) /\ Elems(u) = Elems(o.buffer) \ Elems(n.buffer) /\ Once(u)
  <2>1. o.buffer \in Seq(Id)
    BY <1>0 DEF Shape
  <2> QED BY <1>0, <2>1, UnheldKeeps DEF Once
<1>2. n.buffer \in Seq(Id) /\ o.buffer \in Seq(Id)
  BY <1>0 DEF Shape
<1> HIDE DEF u
<1>3. /\ c \in Seq(Id) /\ DOMAIN c = 1 .. Len(u) + Len(n.buffer)
      /\ \A i \in 1 .. Len(u) : c[i] = u[i]
      /\ \A i \in 1 .. Len(n.buffer) : c[Len(u) + i] = n.buffer[i]
      /\ \A i \in DOMAIN c : i \notin 1 .. Len(u) =>
           i - Len(u) \in 1 .. Len(n.buffer) /\ c[i] = n.buffer[i - Len(u)]
      /\ Len(u) \in Nat /\ Len(n.buffer) \in Nat
      /\ DOMAIN u = 1 .. Len(u) /\ DOMAIN n.buffer = 1 .. Len(n.buffer)
  BY <1>1, <1>2
<1> HIDE DEF c
<1>4. Elems(c) = Elems(u) \cup Elems(n.buffer)
  <2>1. \A i \in 1 .. Len(u) : i \in DOMAIN c
    BY <1>3
  <2>2. \A i \in 1 .. Len(n.buffer) : Len(u) + i \in DOMAIN c
    BY <1>3
  <2>3. Elems(c) \subseteq Elems(u) \cup Elems(n.buffer)
    <3> SUFFICES ASSUME NEW i \in DOMAIN c PROVE c[i] \in Elems(u) \cup Elems(n.buffer)
      BY DEF Elems
    <3> QED BY <1>3 DEF Elems
  <2>4. Elems(u) \subseteq Elems(c)
    BY <1>3, <2>1 DEF Elems
  <2>5. Elems(n.buffer) \subseteq Elems(c)
    BY <1>3, <2>2 DEF Elems
  <2> QED BY <2>3, <2>4, <2>5
<1>5. Once(c)
  <2> SUFFICES ASSUME NEW i \in DOMAIN c, NEW j \in DOMAIN c, c[i] = c[j] PROVE i = j
    BY DEF Once
  <2>0. i \in Int /\ j \in Int
    BY <1>3
  <2>1. CASE i \in 1 .. Len(u) /\ j \in 1 .. Len(u)
    BY <1>1, <1>3, <2>1 DEF Once
  <2>2. CASE i \notin 1 .. Len(u) /\ j \notin 1 .. Len(u)
    <3>1. i - Len(u) = j - Len(u)
      BY <1>0, <1>3, <2>2 DEF Once
    <3> QED BY <2>0, <3>1, <1>3
  <2>3. ASSUME NEW p \in DOMAIN c, NEW q \in DOMAIN c, p \in 1 .. Len(u), q \notin 1 .. Len(u)
        PROVE  c[p] # c[q]
    <3>1. c[p] \in Elems(u) /\ c[q] \in Elems(n.buffer)
      BY <1>3, <2>3 DEF Elems
    <3> QED BY <1>1, <3>1
  <2> QED BY <2>1, <2>2, <2>3
<1>6. IsFiniteSet(n.seen \cup o.seen) /\ known \in Nat /\ n.total <= known
  <2>1. IsFiniteSet(n.seen \cup o.seen)
    BY <1>0, FS_Union
  <2>2. n.seen \subseteq n.seen \cup o.seen
    OBVIOUS
  <2> QED BY <1>0, <2>1, <2>2, FS_Subset, FS_CardinalityType
<1>7. n.total \in Nat /\ n.seen \cup o.seen \in SUBSET Id
  BY <1>0 DEF Shape
<1>8. x = [n EXCEPT !.buffer = c, !.seen = @ \cup o.seen,
                    !.total = IF @ < known THEN known ELSE @]
  BY DEF Merge, c, u
<1> HIDE DEF known, x
<1>9. x \in Shape /\ x.buffer = c /\ x.seen = n.seen \cup o.seen /\ x.total = known
  <2>1. (IF n.total < known THEN known ELSE n.total) = known
    BY <1>6, <1>7
  <2>2. x = [n EXCEPT !.buffer = c, !.seen = n.seen \cup o.seen, !.total = known]
    BY <1>0, <1>8, <2>1 DEF Shape
  <2> QED BY <1>0, <1>3, <1>6, <1>7, <2>2 DEF Shape
<1>10. Elems(c) = Elems(n.buffer) \cup Elems(o.buffer)
  BY <1>1, <1>4
<1>11. Elems(c) \subseteq n.seen \cup o.seen
  BY <1>0, <1>10
<1>12. Recorded(x)
  BY <1>5, <1>6, <1>9, <1>11 DEF Recorded, Once, Shape, known
<1> QED BY <1>9, <1>10, <1>12 DEF x

-----------------------------------------------------------------------------
(* The records, whatever reconnects meet *)

\* A peer or a record is never None, and watch() makes a record.
LEMMA Named ==
  /\ None \notin Rec /\ None \notin Peer
  /\ \A r \in Reconnect : r \in Peer
  /\ \A r \in Reconnect : Typed => Fresh(r) \in Rec
  BY ReseatAssumption DEF Rec, Peer, Fresh, Typed, TypeOK

\* The steps of a re-seat leave the histories alone, and change no record but
\* the one the table names, into which another is merged.
Merges(t, o) ==
  /\ rec' = [rec EXCEPT ![t] = Merge(rec[t], rec[o])]
  /\ UNCHANGED gone

\* What watch() returns to changes at most the record it returned.
LEMMA ReturnedMerges ==
  ASSUME Typed, NEW r \in Reconnect, NEW t \in Rec \cup {None}, Returned(r, t), UNCHANGED gone
  PROVE  UNCHANGED <<rec, gone>> \/ \E n \in Rec, o \in Rec : Merges(n, o)
<1>1. ref[r] \in Rec \cup {None}
  BY DEF Typed, TypeOK
<1>2. CASE phase[r] = "seat" /\ ref[r] # None /\ t # None
  <2>1. Merges(t, ref[r])
    BY <1>2 DEF Returned, Reseated, Merges
  <2> QED BY <1>1, <1>2, <2>1
<1>3. CASE ~(phase[r] = "seat" /\ ref[r] # None /\ t # None)
  BY <1>3 DEF Returned, Reseated
<1> QED BY <1>2, <1>3

\* Every step is an arrival, a poll, a re-seat, or leaves the records alone.
LEMMA RecordSteps ==
  ASSUME Typed, [Next]_vars
  PROVE  \/ \E o \in Rec, id \in Id : Arrive(o, id)
         \/ \E max \in 0 .. BufferCap : Poll(max)
         \/ \E n \in Rec, o \in Rec : Merges(n, o)
         \/ UNCHANGED <<rec, gone>>
<1>1. CASE UNCHANGED vars
  BY <1>1 DEF vars
<1>2. ASSUME NEW r \in Reconnect, Opens(r) PROVE UNCHANGED <<rec, gone>>
  BY <1>2 DEF Opens, Begin, Closed, Connected, ConnectFails
<1>3. ASSUME NEW r \in Reconnect, WatchStep(r)
      PROVE  UNCHANGED <<rec, gone>> \/ \E n \in Rec, o \in Rec : Merges(n, o)
  <2>1. CASE Subscribed(r)
    BY <2>1, Named, ReturnedMerges DEF Subscribed
  <2>2. CASE Settled(r) \/ WatchAgain(r)
    <3>1. table \in Rec \cup {None}
      BY DEF Typed, TypeOK
    <3> QED BY <2>2, <3>1, ReturnedMerges DEF Settled, WatchAgain
  <2>3. CASE WatchFresh(r) \/ WatchReplay(r) \/ Resubscribed(r) \/ SubRejected(r) \/ NothingToReseat(r)
    BY <2>3 DEF WatchFresh, WatchReplay, Resubscribed, SubRejected, NothingToReseat
  <2> QED BY <1>3, <2>1, <2>2, <2>3 DEF WatchStep
<1> QED BY <1>1, <1>2, <1>3 DEF Next

\* A poll takes no more than there is.
LEMMA TakenIn ==
  ASSUME NEW w, w.buffer \in Seq(Id), NEW max \in Nat
  PROVE  Taken(w, max) \in 0 .. Len(w.buffer)
  BY DEF Taken

\* Every step keeps what a record is, and nothing leaves a record but to a
\* poll or over the cap.
LEMMA RecordsKept ==
  Typed /\ Records /\ Kept /\ [Next]_vars => Records' /\ Kept' /\ gone' \in SUBSET Id
<1> SUFFICES ASSUME Typed, Records, Kept, [Next]_vars
             PROVE  Records' /\ Kept' /\ gone' \in SUBSET Id
  OBVIOUS
<1>0. gone \in SUBSET Id /\ \A o \in Rec : Elems(rec[o].buffer) \subseteq Id
  <2>1. \A o \in Rec : rec[o].buffer \in Seq(Id)
    BY DEF Records, Recorded
  <2> QED BY <2>1 DEF Typed, TypeOK, Elems
<1>a. \A w : Recorded(w) => w \in Watch
  <2>1. \A w : Recorded(w) => w \in Shape
    BY DEF Recorded, Shape
  <2> QED BY <2>1, ShapeIsFull
<1>b. ASSUME NEW n \in Rec, NEW w, rec' = [rec EXCEPT ![n] = w], Recorded(w)
      PROVE  Records' /\ rec'[n] = w /\ \A o \in Rec : o # n => rec'[o] = rec[o]
  <2>1. rec'[n] = w /\ \A o \in Rec : o # n => rec'[o] = rec[o]
    BY <1>b DEF Records
  <2>2. rec' \in [Rec -> Watch]
    BY <1>a, <1>b DEF Records
  <2> QED BY <1>b, <2>1, <2>2 DEF Records
<1>1. ASSUME NEW o \in Rec, NEW id \in Id, Arrive(o, id)
      PROVE  Records' /\ Kept' /\ gone' \in SUBSET Id
  <2> DEFINE d == Deliver(rec[o], id)
             w == Followed(d)
  <2>1. /\ Recorded(w) /\ w.seen = rec[o].seen \cup {id} /\ w.buffer = d.buffer
    BY Delivered DEF Records
  <2>2. /\ rec' = [rec EXCEPT ![o] = w]
        /\ gone' = gone \cup ((Elems(rec[o].buffer) \cup {id}) \ Elems(d.buffer))
    BY <1>1 DEF Arrive
  <2> HIDE DEF w, d
  <2>3. Records' /\ rec'[o] = w /\ \A p \in Rec : p # o => rec'[p] = rec[p]
    BY <1>b, <2>1, <2>2
  <2>4. ASSUME NEW p \in Rec PROVE rec'[p].seen \subseteq gone' \cup Elems(rec'[p].buffer)
    <3>1. CASE p = o
      BY <2>1, <2>2, <2>3, <3>1 DEF Kept
    <3>2. CASE p # o
      BY <2>2, <2>3, <3>2 DEF Kept
    <3> QED BY <3>1, <3>2
  <2> QED BY <1>0, <2>2, <2>3, <2>4 DEF Kept
<1>2. ASSUME NEW max \in 0 .. BufferCap, Poll(max)
      PROVE  Records' /\ Kept' /\ gone' \in SUBSET Id
  <2> DEFINE k == Taken(rec[table], max)
             w == Followed(Collect(rec[table], k))
             a == SubSeq(rec[table].buffer, 1, k)
  <2>0. table \in Rec
    BY <1>2 DEF Poll, Typed, TypeOK
  <2>1. rec[table].buffer \in Seq(Id) /\ Recorded(rec[table])
    BY <2>0 DEF Records, Recorded
  <2>2. k \in 0 .. Len(rec[table].buffer)
    BY <2>1, TakenIn, WatchAssumption
  <2>3. /\ rec' = [rec EXCEPT ![table] = w]
        /\ gone' = gone \cup Elems(a)
    BY <1>2 DEF Poll
  <2>4. Elems(a) \subseteq Elems(rec[table].buffer)
    BY <2>1, <2>2 DEF Elems
  <2> HIDE DEF k
  <2>5. /\ Recorded(w) /\ w.seen = rec[table].seen
        /\ Elems(rec[table].buffer) \subseteq Elems(a) \cup Elems(w.buffer)
    BY <2>1, <2>2, Polled
  <2> HIDE DEF w, a
  <2>6. Records' /\ rec'[table] = w /\ \A p \in Rec : p # table => rec'[p] = rec[p]
    BY <1>b, <2>0, <2>3, <2>5
  <2>7. ASSUME NEW p \in Rec PROVE rec'[p].seen \subseteq gone' \cup Elems(rec'[p].buffer)
    <3>1. CASE p = table
      BY <2>5, <2>3, <2>6, <3>1 DEF Kept
    <3>2. CASE p # table
      BY <2>3, <2>6, <3>2 DEF Kept
    <3> QED BY <3>1, <3>2
  <2> QED BY <1>0, <2>0, <2>3, <2>4, <2>6, <2>7 DEF Kept
<1>3. ASSUME NEW n \in Rec, NEW o \in Rec, Merges(n, o)
      PROVE  Records' /\ Kept' /\ gone' \in SUBSET Id
  <2> DEFINE w == Merge(rec[n], rec[o])
  <2>1. /\ Recorded(w) /\ w.seen = rec[n].seen \cup rec[o].seen
        /\ Elems(w.buffer) = Elems(rec[n].buffer) \cup Elems(rec[o].buffer)
    BY Merged DEF Records
  <2>2. rec' = [rec EXCEPT ![n] = w] /\ gone' = gone
    BY <1>3 DEF Merges
  <2> HIDE DEF w
  <2>3. Records' /\ rec'[n] = w /\ \A p \in Rec : p # n => rec'[p] = rec[p]
    BY <1>b, <2>1, <2>2
  <2>4. ASSUME NEW p \in Rec PROVE rec'[p].seen \subseteq gone' \cup Elems(rec'[p].buffer)
    <3>1. CASE p = n
      BY <2>1, <2>2, <2>3, <3>1 DEF Kept
    <3>2. CASE p # n
      BY <2>2, <2>3, <3>2 DEF Kept
    <3> QED BY <3>1, <3>2
  <2> QED BY <1>0, <2>2, <2>3, <2>4 DEF Kept
<1>4. CASE UNCHANGED <<rec, gone>>
  BY <1>0, <1>4 DEF Records, Kept
<1> QED BY <1>1, <1>2, <1>3, <1>4, RecordSteps

\* Every step keeps the types.
LEMMA TypedKept == Typed /\ Records /\ Kept /\ [Next]_vars => Typed'
<1> SUFFICES ASSUME Typed, Records, Kept, [Next]_vars PROVE Typed'
  OBVIOUS
<1> USE Named
<1>0. TypeOK /\ rec' \in [Rec -> Watch] /\ gone' \in SUBSET Id
  BY RecordsKept DEF Typed, Records
<1>1. CASE UNCHANGED vars
  BY <1>0, <1>1 DEF vars, Typed, TypeOK
<1>2. ASSUME NEW o \in Rec, NEW id \in Id, Arrive(o, id) PROVE Typed'
  BY <1>0, <1>2 DEF Arrive, Typed, TypeOK, peers, snapshot
<1>3. ASSUME NEW max \in 0 .. BufferCap, Poll(max) PROVE Typed'
  BY <1>0, <1>3 DEF Poll, Typed, TypeOK, peers, snapshot
<1>4. ASSUME NEW r \in Reconnect, Begin(r) PROVE Typed'
  BY <1>0, <1>4 DEF Begin, Typed, TypeOK, peers, Stages
<1>5. ASSUME NEW r \in Reconnect, Closed(r) PROVE Typed'
  BY <1>0, <1>5 DEF Closed, Typed, TypeOK, Stages
<1>6. ASSUME NEW r \in Reconnect, Connected(r) PROVE Typed'
  BY <1>0, <1>6 DEF Connected, Typed, TypeOK, snapshot, Stages
<1>7. ASSUME NEW r \in Reconnect, ConnectFails(r) PROVE Typed'
  BY <1>0, <1>7 DEF ConnectFails, Typed, TypeOK, peers, snapshot, Stages
<1>8. ASSUME NEW r \in Reconnect, NothingToReseat(r) PROVE Typed'
  BY <1>0, <1>8 DEF NothingToReseat, Typed, TypeOK, peers, snapshot, Stages
<1>9. ASSUME NEW r \in Reconnect, WatchFresh(r) PROVE Typed'
  BY <1>0, <1>9 DEF WatchFresh, Needed, Watching, Typed, TypeOK, peers, snapshot, Stages
<1>10. ASSUME NEW r \in Reconnect, NEW t \in Rec \cup {None}, Returned(r, t), stage[r] # "resub"
       PROVE  /\ stage' \in [Reconnect -> Stages] /\ phase' \in [Reconnect -> {"arm", "seat"}]
              /\ \A q \in Reconnect : stage'[q] = "resub" => stage[q] = "resub"
  BY <1>0, <1>10 DEF Returned, Reseated, TypeOK, Stages
<1>11. ASSUME NEW r \in Reconnect, Subscribed(r) PROVE Typed'
  <2>1. Returned(r, Fresh(r)) /\ stage[r] # "resub" /\ Fresh(r) \in Rec
    BY <1>11 DEF Subscribed
  <2> QED BY <1>0, <1>10, <1>11, <2>1 DEF Subscribed, Typed, TypeOK, peers, snapshot
<1>12. ASSUME NEW r \in Reconnect, Settled(r) \/ WatchAgain(r) PROVE Typed'
  <2>1. Returned(r, table) /\ stage[r] # "resub" /\ table \in Rec \cup {None}
    BY <1>0, <1>12 DEF Settled, WatchAgain, Needed, Watching, TypeOK
  <2> QED BY <1>0, <1>10, <1>12, <2>1 DEF Settled, WatchAgain, Typed, TypeOK, peers, snapshot
<1>13. ASSUME NEW r \in Reconnect, WatchReplay(r) PROVE Typed'
  <2>1. <<table, session>> \in Rec \X Peer /\ <<table, session>> # None
    <3>1. table \in Rec /\ session \in Peer
      BY <1>0, <1>13 DEF WatchReplay, Needed, Watching, TypeOK
    <3> QED BY <3>1, ReseatAssumption
  <2>2. /\ held' \in [Reconnect -> (Rec \X Peer) \cup {None}] /\ held'[r] # None
        /\ \A q \in Reconnect : q # r => held'[q] = held[q]
    BY <1>0, <1>13, <2>1 DEF WatchReplay, TypeOK
  <2>3. fed' \in SUBSET (Rec \X up)
    BY <1>0, <1>13 DEF WatchReplay, TypeOK
  <2> QED BY <1>0, <1>13, <2>2, <2>3 DEF WatchReplay, Typed, TypeOK, peers, snapshot, Stages
<1>14. ASSUME NEW r \in Reconnect, Resubscribed(r) PROVE Typed'
  <2>1. held[r] \in Rec \X Peer
    BY <1>0, <1>14 DEF Resubscribed, Typed, TypeOK
  <2>2. fed' \in SUBSET (Rec \X up)
    BY <1>0, <1>14, <2>1 DEF Resubscribed, TypeOK
  <2> QED BY <1>0, <1>14, <2>2 DEF Resubscribed, Typed, TypeOK, peers, snapshot, Stages
<1>15. ASSUME NEW r \in Reconnect, SubRejected(r) PROVE Typed'
  BY <1>0, <1>15 DEF SubRejected, Typed, TypeOK, peers, snapshot, Stages
<1> QED BY <1>1, <1>2, <1>3, <1>4, <1>5, <1>6, <1>7, <1>8, <1>9, <1>11, <1>12, <1>13, <1>14, <1>15
        DEF Next, Opens, WatchStep

-----------------------------------------------------------------------------
(* A reconnect that fails nowhere and meets no other *)

Waits == {"closing", "connect", "watch", "sub", "resub", "settle"}

\* Where the one reconnect under way is.
Underway(r) ==
  /\ stage[r] = "closing" => Leaving(r)
  /\ stage[r] = "connect" => Between(r)
  /\ stage[r] \in {"watch", "sub", "resub", "settle"} => Arriving(r)

\* When it moves on, it is still the only one, or there is none.
LEMMA MovesOn ==
  ASSUME Typed, Alone, NEW r \in Active, NEW s \in Stages, stage' = [stage EXCEPT ![r] = s]
  PROVE  /\ r \in Reconnect /\ stage[r] \in Waits /\ Underway(r)
         /\ stage'[r] = s
         /\ s \in Waits /\ Underway(r)' => Alone'
         /\ s \notin Waits /\ Seated' => Alone'
<1>1. r \in Reconnect /\ stage[r] \in Waits /\ Underway(r) /\ stage'[r] = s
  BY DEF Active, Alone, Typed, TypeOK, Stages, Waits, Underway
<1>2. \A q \in Reconnect : q # r => q \notin Active /\ q \notin Active'
  BY DEF Active, Alone, Typed, TypeOK
<1>3. CASE s \in Waits
  <2>1. Active' = {r}
    BY <1>1, <1>2, <1>3 DEF Active, Waits
  <2> QED BY <1>1, <1>3, <2>1 DEF Alone, Underway, Waits
<1>4. CASE s \notin Waits
  <2>1. Active' = {}
    BY <1>1, <1>2, <1>4 DEF Active, Waits, Stages
  <2> QED BY <1>1, <1>4, <2>1 DEF Alone
<1> QED BY <1>1, <1>3, <1>4

\* What a record has seen is part of what was got.
LEMMA GotIt == \A o \in Rec : rec[o].seen \subseteq Got
  BY DEF Got

\* A step that leaves what was seen alone changes nothing that was got.
LEMMA GotStays ==
  ASSUME \A o \in Rec : rec'[o].seen = rec[o].seen
  PROVE  Got' = Got
  BY DEF Got

\* An arrival is got.
LEMMA GotOne ==
  ASSUME NEW o \in Rec, NEW id, rec'[o].seen = rec[o].seen \cup {id},
         \A p \in Rec : p # o => rec'[p].seen = rec[p].seen
  PROVE  Got' = Got \cup {id}
  BY DEF Got

\* The records an arrival or a poll changes: one, and only an arrival has it
\* see more.
LEMMA SeesMore ==
  ASSUME Records, NEW n \in Rec, NEW w, rec' = [rec EXCEPT ![n] = w]
  PROVE  rec'[n] = w /\ \A p \in Rec : p # n => rec'[p] = rec[p]
  BY DEF Records

\* A poll takes messages that were seen.
LEMMA AloneWhenPolled ==
  ASSUME Typed, Records, Alone, NEW max \in 0 .. BufferCap, Poll(max)
  PROVE  Alone'
<1> DEFINE k == Taken(rec[table], max)
           w == Followed(Collect(rec[table], k))
<1>0. table \in Rec
  BY DEF Poll, Typed, TypeOK
<1>1. rec[table].buffer \in Seq(Id) /\ Recorded(rec[table])
  BY <1>0 DEF Records, Recorded
<1>2. k \in 0 .. Len(rec[table].buffer)
  BY <1>1, TakenIn, WatchAssumption
<1>3. rec' = [rec EXCEPT ![table] = w]
  BY DEF Poll
<1> HIDE DEF k
<1>4. w.seen = rec[table].seen
  BY <1>1, <1>2, Polled
<1> HIDE DEF w
<1>5. \A o \in Rec : rec'[o].seen = rec[o].seen
  BY <1>0, <1>3, <1>4, SeesMore
<1>6. Got' = Got
  BY <1>5, GotStays
<1>7. UNCHANGED <<table, session, up, fed, stage, phase, on, ref, held>>
  BY DEF Poll, peers, snapshot
<1>8. \A r \in Reconnect : ref[r] # None => ref[r] \in Rec
  BY DEF Typed, TypeOK
<1>9. \A r \in Reconnect : Fresh(r) \in Rec /\ Fresh(r)' = Fresh(r)
  BY <1>7, Named DEF Fresh
<1>10. Active' = Active /\ Active \subseteq Reconnect
  BY <1>7 DEF Active
<1>11. Seated => Seated'
  BY <1>5, <1>6, <1>7, <1>0 DEF Seated
<1>12. ASSUME NEW r \in Active, Underway(r) PROVE Underway(r)'
  <2>1. Leaving(r) => Leaving(r)'
    BY <1>7, <1>11 DEF Leaving
  <2>2. Between(r) => Between(r)'
    BY <1>5, <1>6, <1>7, <1>8, <1>10 DEF Between
  <2>3. Arriving(r) => Arriving(r)'
    BY <1>0, <1>5, <1>6, <1>7, <1>8, <1>9, <1>10 DEF Arriving
  <2> QED BY <1>7, <1>12, <2>1, <2>2, <2>3 DEF Underway
<1> QED BY <1>7, <1>10, <1>11, <1>12 DEF Alone, Underway

\* An arrival reaches the record that the only subscription delivers to.
LEMMA AloneWhenReached ==
  ASSUME Typed, Records, Alone, NEW o \in Rec, NEW id \in Id, Arrive(o, id)
  PROVE  Alone'
<1> DEFINE w == Followed(Deliver(rec[o], id))
<1>1. w.seen = rec[o].seen \cup {id}
  BY Delivered DEF Records
<1>2. rec' = [rec EXCEPT ![o] = w] /\ \E p \in Peer : <<o, p>> \in fed
  BY DEF Arrive
<1> HIDE DEF w
<1>3. rec'[o].seen = rec[o].seen \cup {id} /\ \A p \in Rec : p # o => rec'[p].seen = rec[p].seen
  BY <1>1, <1>2, SeesMore
<1>4. Got' = Got \cup {id}
  BY <1>3, GotOne
<1>5. UNCHANGED <<table, session, up, fed, stage, phase, on, ref, held>>
  BY DEF Arrive, peers, snapshot
<1>6. \A r \in Reconnect : ref[r] # None => ref[r] \in Rec
  BY DEF Typed, TypeOK
<1>7. \A r \in Reconnect : Fresh(r) \in Rec /\ Fresh(r)' = Fresh(r)
  BY <1>5, Named DEF Fresh
<1>8. Active' = Active /\ Active \subseteq Reconnect
  BY <1>5 DEF Active
<1>9. Seated => Seated'
  <2> SUFFICES ASSUME Seated PROVE Seated'
    OBVIOUS
  <2>1. o = table
    BY <1>2 DEF Seated
  <2> QED BY <1>3, <1>4, <1>5, <2>1 DEF Seated
<1>10. ASSUME NEW r \in Active, Underway(r) PROVE Underway(r)'
  <2>1. Leaving(r) => Leaving(r)'
    BY <1>5, <1>9 DEF Leaving
  <2>2. ~Between(r)
    BY <1>2 DEF Between
  <2>3. ASSUME Arriving(r), stage[r] \in {"watch", "sub", "resub", "settle"} PROVE Arriving(r)'
    <3>0. session = r /\ up = {r} /\ ref[r] # None /\ ref[r] \in Rec /\ r \in Reconnect
      BY <1>6, <1>8, <2>3 DEF Arriving
    <3>1. CASE stage[r] = "sub"
      <4>1. table = None /\ fed = {<<Fresh(r), r>>} /\ Got = rec[ref[r]].seen \cup rec[Fresh(r)].seen
        BY <2>3, <3>1 DEF Arriving
      <4>2. o = Fresh(r)
        BY <1>2, <4>1
      <4>3. Got' = rec'[ref[r]].seen \cup rec'[Fresh(r)].seen
        BY <1>3, <1>4, <3>0, <4>1, <4>2
      <4> QED BY <1>5, <1>7, <3>0, <3>1, <4>1, <4>3 DEF Arriving
    <3>2. CASE stage[r] # "sub"
      <4>1. table # None /\ phase[r] = "seat" /\ Got = rec[ref[r]].seen \cup rec[table].seen
            /\ fed = (IF stage[r] = "resub" THEN {} ELSE {<<table, r>>})
        BY <1>2, <2>3, <3>2 DEF Arriving
      <4>2. o = table /\ stage[r] # "resub"
        BY <1>2, <4>1
      <4>3. Got' = rec'[ref[r]].seen \cup rec'[table].seen
        BY <1>3, <1>4, <3>0, <4>1, <4>2
      <4> QED BY <1>5, <1>7, <2>3, <3>0, <3>2, <4>1, <4>2, <4>3 DEF Arriving
    <3> QED BY <3>1, <3>2
  <2> QED BY <1>5, <1>10, <2>1, <2>2, <2>3 DEF Underway
<1> QED BY <1>5, <1>8, <1>9, <1>10 DEF Alone, Underway

\* The re-seat: with the old record merged into it, the registered one has seen
\* all there was.
LEMMA AloneWhenReturned ==
  ASSUME Typed, Records, Alone, NEW r \in Active, NEW t \in Rec, Returned(r, t),
         ref[r] # None, UNCHANGED <<session, up, fed, ref, held>>, session = r, up = {r},
         fed = {<<t, r>>}, Got = rec[ref[r]].seen \cup rec[t].seen, table' = t
  PROVE  Alone'
<1>0. ref[r] \in Rec /\ None \notin Rec /\ r \in Peer /\ r # None /\ r \in Reconnect
      /\ phase[r] \in {"arm", "seat"} /\ phase \in [Reconnect -> {"arm", "seat"}]
  BY ReseatAssumption DEF Typed, TypeOK, Active, Peer
<1>1. CASE phase[r] = "seat"
  <2> DEFINE w == Merge(rec[t], rec[ref[r]])
  <2>1. stage' = [stage EXCEPT ![r] = "done"] /\ rec' = [rec EXCEPT ![t] = w]
    BY <1>0, <1>1 DEF Returned, Reseated
  <2>2. w.seen = rec[t].seen \cup rec[ref[r]].seen
    BY <1>0, Merged DEF Records
  <2> HIDE DEF w
  <2>3. rec'[t].seen = Got /\ \A p \in Rec : p # t => rec'[p].seen = rec[p].seen
    BY <2>1, <2>2, SeesMore
  <2>4. Got' = Got
    <3>1. \A p \in Rec : rec'[p].seen \subseteq Got
      BY <2>3, GotIt
    <3> QED BY <2>3, <3>1 DEF Got
  <2>5. Seated'
    BY <1>0, <2>3, <2>4 DEF Seated
  <2>6. "done" \in Stages \ Waits
    BY DEF Stages, Waits
  <2> QED BY <2>1, <2>5, <2>6, MovesOn
<1>2. CASE phase[r] # "seat"
  <2>1. stage' = [stage EXCEPT ![r] = "watch"] /\ phase' = [phase EXCEPT ![r] = "seat"] /\ rec' = rec
    BY <1>0, <1>2 DEF Returned
  <2>2. "watch" \in Stages \cap Waits
    BY DEF Stages, Waits
  <2>3. stage'[r] = "watch" /\ phase'[r] = "seat"
    BY <1>0, <2>1, <2>2, MovesOn
  <2>4. Got' = Got
    BY <2>1, GotStays
  <2>5. Arriving(r)'
    BY <1>0, <2>1, <2>3, <2>4 DEF Arriving
  <2>6. Underway(r)'
    BY <2>3, <2>5 DEF Underway
  <2> QED BY <2>1, <2>2, <2>6, MovesOn
<1> QED BY <1>1, <1>2

\* No step makes two reconnects meet, or one fail, and says nothing of it.
LEMMA AloneKept == Typed /\ Records /\ (clean => Alone) /\ [Next]_vars => (clean' => Alone')
<1> SUFFICES ASSUME Typed, Records, clean => Alone, [Next]_vars, clean' PROVE Alone'
  OBVIOUS
<1>a. clean /\ Alone
  BY DEF Next, vars, Arrive, Poll, Opens, WatchStep, Begin, Closed, Connected, ConnectFails,
         WatchFresh, Subscribed, WatchReplay, Resubscribed, Settled, WatchAgain, SubRejected,
         NothingToReseat
<1>b. None \notin Rec /\ None \notin Peer /\ \A r \in Reconnect : r \in Peer /\ Fresh(r) \in Rec
  BY Named
<1>c. Waits \subseteq Stages /\ \A r \in Reconnect : stage[r] \in Waits => r \in Active
  BY DEF Waits, Stages, Active
<1>d. TypeOK /\ stage \in [Reconnect -> Stages]
  BY DEF Typed, TypeOK
<1>1. CASE UNCHANGED vars
  BY <1>a, <1>1 DEF vars, Alone, Active, Seated, Leaving, Between, Arriving, Got, Fresh
<1>2. ASSUME NEW o \in Rec, NEW id \in Id, Arrive(o, id) PROVE Alone'
  BY <1>a, <1>2, AloneWhenReached
<1>3. ASSUME NEW max \in 0 .. BufferCap, Poll(max) PROVE Alone'
  BY <1>a, <1>3, AloneWhenPolled
<1>4. ASSUME NEW r \in Reconnect, Begin(r) PROVE Alone'
  <2>1. Active = {} /\ stage' = [stage EXCEPT ![r] = "closing"]
        /\ on' = [on EXCEPT ![r] = session] /\ ref' = [ref EXCEPT ![r] = table]
        /\ UNCHANGED <<rec, table, session, up, fed>>
    BY <1>4 DEF Begin, peers
  <2>2. Seated
    BY <1>a, <2>1 DEF Alone
  <2>3. Got' = Got
    BY <2>1, GotStays
  <2>4. Seated'
    BY <2>1, <2>2, <2>3 DEF Seated
  <2>5. on'[r] = session' /\ ref'[r] = table'
    BY <1>d, <2>1 DEF TypeOK
  <2>6. Active' = {r} /\ stage'[r] = "closing"
    BY <1>d, <2>1 DEF Active
  <2> QED BY <2>4, <2>5, <2>6 DEF Alone, Leaving
<1>5. ASSUME NEW r \in Reconnect, Closed(r) PROVE Alone'
  <2>1. stage[r] = "closing" /\ r \in Active /\ "connect" \in Waits
    BY <1>5, <1>c DEF Closed, Waits
  <2>2. Leaving(r)
    BY <1>a, <2>1 DEF Alone
  <2>3. /\ stage' = [stage EXCEPT ![r] = "connect"] /\ session' = None /\ table' = None
        /\ up' = {} /\ fed' = {} /\ ref' = ref /\ rec' = rec
    BY <1>5, <2>2 DEF Closed, Leaving, Seated
  <2>4. Got' = Got
    BY <2>3, GotStays
  <2>5. Between(r)'
    BY <2>2, <2>3, <2>4 DEF Between, Leaving, Seated
  <2>6. stage'[r] = "connect"
    BY <1>d, <2>3
  <2>7. Underway(r)'
    BY <2>5, <2>6 DEF Underway
  <2> QED BY <1>a, <1>c, <2>1, <2>3, <2>7, MovesOn
<1>6. ASSUME NEW r \in Reconnect, Connected(r) PROVE Alone'
  <2>1. stage[r] = "connect" /\ r \in Active /\ "watch" \in Waits
    BY <1>6, <1>c DEF Connected, Waits
  <2>2. Between(r)
    BY <1>a, <2>1 DEF Alone
  <2>3. /\ stage' = [stage EXCEPT ![r] = "watch"] /\ session' = r /\ up' = {r}
        /\ table' = None /\ fed' = {} /\ ref' = ref /\ rec' = rec
    BY <1>6, <2>2 DEF Connected, Between, snapshot
  <2>4. Got' = Got
    BY <2>3, GotStays
  <2>5. stage'[r] = "watch"
    BY <1>d, <2>3
  <2>6. Arriving(r)'
    BY <2>2, <2>3, <2>4, <2>5 DEF Between, Arriving
  <2>7. Underway(r)'
    BY <2>5, <2>6 DEF Underway
  <2> QED BY <1>a, <1>c, <2>1, <2>3, <2>7, MovesOn
<1>7. ASSUME NEW r \in Reconnect, ConnectFails(r) \/ SubRejected(r) PROVE FALSE
  BY <1>7 DEF ConnectFails, SubRejected
<1>8. ASSUME NEW r \in Reconnect, stage[r] \in {"watch", "sub", "resub", "settle"}
      PROVE  /\ r \in Active /\ Arriving(r) /\ session = r /\ up = {r}
             /\ ref[r] # None /\ ref[r] \in Rec /\ r # None
  <2>1. r \in Active
    BY <1>8, <1>c DEF Waits
  <2>2. Arriving(r)
    BY <1>a, <1>8, <2>1 DEF Alone
  <2> QED BY <1>b, <1>d, <2>1, <2>2 DEF Arriving, TypeOK
<1>9. ASSUME NEW r \in Reconnect, NothingToReseat(r) PROVE FALSE
  BY <1>8, <1>9 DEF NothingToReseat, Watching
<1>10. ASSUME NEW r \in Reconnect, WatchFresh(r) PROVE Alone'
  <2>1. stage[r] = "watch" /\ table = None /\ "sub" \in Waits
    BY <1>10 DEF WatchFresh, Needed, Watching, Waits
  <2>2. fed = {} /\ Got = rec[ref[r]].seen
    BY <1>8, <2>1 DEF Arriving
  <2>3. /\ stage' = [stage EXCEPT ![r] = "sub"] /\ fed' = {<<Fresh(r), r>>}
        /\ UNCHANGED <<rec, table, session, up, phase, ref>>
    BY <1>8, <1>10, <2>1, <2>2 DEF WatchFresh, peers, snapshot
  <2>4. Got' = Got /\ Fresh(r)' = Fresh(r) /\ rec[Fresh(r)].seen \subseteq Got
    BY <1>b, <2>3, GotStays, GotIt DEF Fresh
  <2>5. stage'[r] = "sub"
    BY <1>d, <2>3
  <2>6. Arriving(r)'
    BY <1>8, <2>1, <2>2, <2>3, <2>4, <2>5 DEF Arriving
  <2>7. Underway(r)'
    BY <2>5, <2>6 DEF Underway
  <2> QED BY <1>a, <1>c, <1>8, <2>1, <2>3, <2>7, MovesOn
<1>11. ASSUME NEW r \in Reconnect, Subscribed(r) PROVE Alone'
  <2>1. stage[r] = "sub" /\ table' = Fresh(r) /\ Returned(r, Fresh(r))
        /\ UNCHANGED <<session, up, fed, ref, held>>
    BY <1>11 DEF Subscribed, peers, snapshot
  <2>2. fed = {<<Fresh(r), r>>} /\ Got = rec[ref[r]].seen \cup rec[Fresh(r)].seen
    BY <1>8, <2>1 DEF Arriving
  <2> QED BY <1>a, <1>b, <1>8, <2>1, <2>2, AloneWhenReturned
<1>12. ASSUME NEW r \in Reconnect, Settled(r) \/ WatchAgain(r) PROVE Alone'
  <2>1. /\ stage[r] \in {"settle", "watch"} /\ (stage[r] # "settle" => table # None)
        /\ table' = table /\ Returned(r, table)
        /\ UNCHANGED <<session, up, fed, ref, held>>
    BY <1>12 DEF Settled, WatchAgain, Needed, Watching, peers, snapshot
  <2>2. table # None /\ table \in Rec
    BY <1>d, <1>8, <2>1 DEF Arriving, TypeOK
  <2>3. fed = {<<table, r>>} /\ Got = rec[ref[r]].seen \cup rec[table].seen
    BY <1>8, <2>1, <2>2 DEF Arriving
  <2> QED BY <1>a, <1>8, <2>1, <2>2, <2>3, AloneWhenReturned
<1>13. ASSUME NEW r \in Reconnect, WatchReplay(r) PROVE Alone'
  <2>1. stage[r] = "watch" /\ table # None /\ "resub" \in Waits
    BY <1>13 DEF WatchReplay, Needed, Watching, Waits
  <2>2. phase[r] = "seat" /\ fed = {<<table, r>>} /\ Got = rec[ref[r]].seen \cup rec[table].seen
    BY <1>8, <2>1 DEF Arriving
  <2>3. /\ stage' = [stage EXCEPT ![r] = "resub"] /\ held' = [held EXCEPT ![r] = <<table, r>>]
        /\ fed' = {} /\ UNCHANGED <<rec, table, session, up, phase, ref>>
    <3>1. \A f \in fed : f[2] = r
      BY <2>2
    <3>2. session = r
      BY <1>8, <2>1
    <3>3. fed' = {}
      BY <1>13, <3>1, <3>2 DEF WatchReplay
    <3> QED BY <1>13, <3>2, <3>3 DEF WatchReplay, peers, snapshot
  <2>4. Got' = Got /\ stage'[r] = "resub" /\ held'[r] = <<table, r>>
    BY <1>d, <2>3, GotStays DEF TypeOK
  <2>5. Arriving(r)'
    BY <1>8, <2>1, <2>2, <2>3, <2>4 DEF Arriving
  <2>6. Underway(r)'
    BY <2>4, <2>5 DEF Underway
  <2> QED BY <1>a, <1>c, <1>8, <2>1, <2>3, <2>6, MovesOn
<1>14. ASSUME NEW r \in Reconnect, Resubscribed(r) PROVE Alone'
  <2>1. stage[r] = "resub" /\ "settle" \in Waits
    BY <1>14 DEF Resubscribed, Waits
  <2>2. /\ table # None /\ phase[r] = "seat" /\ fed = {} /\ held[r] = <<table, r>>
        /\ Got = rec[ref[r]].seen \cup rec[table].seen
    BY <1>8, <2>1 DEF Arriving
  <2>3. /\ stage' = [stage EXCEPT ![r] = "settle"] /\ fed' = {<<table, r>>}
        /\ UNCHANGED <<rec, table, session, up, phase, ref>>
    BY <1>8, <1>14, <2>2 DEF Resubscribed, peers, snapshot
  <2>4. Got' = Got /\ stage'[r] = "settle"
    BY <1>d, <2>3, GotStays
  <2>5. /\ session' = r /\ up' = {r} /\ ref'[r] # None /\ table' # None /\ phase'[r] = "seat"
        /\ Got' = rec'[ref'[r]].seen \cup rec'[table'].seen /\ fed' = {<<table', r>>}
    <3>1. session' = r /\ up' = {r} /\ ref'[r] # None /\ table' # None /\ phase'[r] = "seat"
      BY <1>8, <2>1, <2>2, <2>3
    <3>2. Got' = rec'[ref'[r]].seen \cup rec'[table'].seen
      BY <2>2, <2>3, <2>4
    <3> QED BY <2>3, <3>1, <3>2
  <2>6. Arriving(r)'
    BY <2>4, <2>5 DEF Arriving
  <2>7. Underway(r)'
    BY <2>4, <2>6 DEF Underway
  <2> QED BY <1>a, <1>c, <1>8, <2>1, <2>3, <2>7, MovesOn
<1> QED BY <1>1, <1>2, <1>3, <1>4, <1>5, <1>6, <1>7, <1>9, <1>10, <1>11, <1>12, <1>13, <1>14
        DEF Next, Opens, WatchStep

-----------------------------------------------------------------------------
(* The theorems *)

\* The connected session that all starts from, with its one empty watch.
LEMMA InitIInv == Init => IInv
<1> SUFFICES ASSUME Init PROVE IInv
  OBVIOUS
<1>1. Recorded(MakeWatch) /\ MakeWatch \in Watch /\ MakeWatch.seen = {}
  <2>1. MakeWatch \in Shape
    BY DEF MakeWatch, Shape
  <2>2. MakeWatch \in Watch
    BY <2>1, ShapeIsFull
  <2>3. MakeWatch.buffer = <<>> /\ MakeWatch.seen = {} /\ MakeWatch.total = 0
    BY DEF MakeWatch
  <2>4. Elems(<<>>) = {} /\ DOMAIN <<>> = {}
    BY DEF Elems
  <2> QED BY <2>1, <2>2, <2>3, <2>4, FS_EmptySet DEF Recorded, Shape
<1>2. rec = [o \in Rec |-> MakeWatch] /\ \A o \in Rec : rec[o] = MakeWatch
  BY DEF Init
<1>3. Records /\ Kept
  BY <1>1, <1>2 DEF Records, Kept
<1>4. table \in Rec /\ session \in Peer /\ up = {session} /\ fed = {<<table, session>>}
  BY DEF Init, Rec, Peer
<1>5. rec \in [Rec -> Watch]
  BY <1>3 DEF Records
<1>6. Typed
  BY <1>4, <1>5 DEF Init, Typed, TypeOK, Stages
<1>7. Got = {} /\ rec[table].seen = {}
  BY <1>1, <1>2, <1>4 DEF Got
<1>8. Seated
  BY <1>4, <1>7, Named DEF Seated
<1>9. Active = {}
  BY DEF Init, Active
<1>10. Alone
  BY <1>8, <1>9 DEF Alone
<1> QED BY <1>3, <1>6, <1>10 DEF IInv

\* The inductive invariant of the re-seat.
LEMMA Invariance == Spec => []IInv
<1>1. IInv /\ [Next]_vars => IInv'
  BY TypedKept, RecordsKept, AloneKept DEF IInv
<1> QED BY InitIInv, <1>1, PTL DEF Spec

\* Every reachable state is well typed, for any messages, reconnects and caps.
THEOREM TypeCorrect == Spec => []TypeOK
<1>1. IInv => TypeOK
  BY DEF IInv, Typed
<1> QED BY <1>1, Invariance, PTL

\* A reconnect that succeeds on its own loses no message that nobody read: it is
\* in the watch it left, in the one it makes, or in both (mcp-session.js 649-692).
THEOREM NothingIsLost == Spec => []NothingUnreadLost
<1>1. IInv => NothingUnreadLost
  <2> SUFFICES ASSUME IInv, clean PROVE Got \subseteq gone \cup Waiting
    BY DEF NothingUnreadLost
  <2>0. Typed /\ Kept /\ Alone
    BY DEF IInv
  <2>1. ASSUME NEW o \in Rec, o \in Reachable PROVE rec[o].seen \subseteq gone \cup Waiting
    BY <2>0, <2>1 DEF Kept, Waiting
  <2>2. CASE Active = {}
    <3>1. Seated
      BY <2>0, <2>2 DEF Alone
    <3>2. table \in Rec /\ table \in Reachable
      BY <2>0, <3>1 DEF Seated, Typed, TypeOK, Reachable
    <3> QED BY <2>1, <3>1, <3>2 DEF Seated
  <2>3. ASSUME NEW r \in Active PROVE Got \subseteq gone \cup Waiting
    <3>0. r \in Reconnect /\ stage[r] \in Waits
      BY <2>0 DEF Active, Waits, Typed, TypeOK, Stages
    <3>1. ref[r] # None => ref[r] \in Rec /\ ref[r] \in Reachable
      BY <2>0, <3>0 DEF Typed, TypeOK, Reachable
    <3>2. table # None => table \in Rec /\ table \in Reachable
      BY <2>0 DEF Typed, TypeOK, Reachable
    <3>3. Fresh(r) \in Rec /\ Fresh(r) \in Reachable
      BY <2>0, <3>0, Named DEF Reachable
    <3>4. CASE stage[r] = "closing"
      <4>1. Seated
        BY <2>0, <3>4 DEF Alone, Leaving
      <4> QED BY <2>1, <3>2, <4>1 DEF Seated
    <3>5. CASE stage[r] = "connect"
      <4>1. Between(r)
        BY <2>0, <3>5 DEF Alone
      <4> QED BY <2>1, <3>1, <4>1 DEF Between
    <3>6. CASE stage[r] \in {"watch", "sub", "resub", "settle"}
      <4>1. Arriving(r)
        BY <2>0, <3>6 DEF Alone
      <4>2. CASE table # None
        BY <2>1, <3>1, <3>2, <4>1, <4>2 DEF Arriving
      <4>3. CASE table = None
        BY <2>1, <3>1, <3>3, <3>6, <4>1, <4>3 DEF Arriving
      <4> QED BY <4>2, <4>3
    <3> QED BY <3>0, <3>4, <3>5, <3>6 DEF Waits
  <2> QED BY <2>2, <2>3
<1> QED BY <1>1, Invariance, PTL

\* The watch a reconnect leaves behind it works: the new peer feeds it, nothing
\* waits in it twice, and its total is the number of messages seen.
THEOREM TheReseatWorks == Spec => []ReseatWorksOn
<1>1. IInv => ReseatWorksOn
  <2> SUFFICES ASSUME IInv PROVE ReseatWorksOn
    OBVIOUS
  <2>0. Typed /\ Records /\ (clean => Alone) /\ (table # None => table \in Rec)
    BY DEF IInv, Typed, TypeOK
  <2>1. WaitsOnce
    BY <2>0 DEF WaitsOnce, Records, Recorded
  <2>2. ASSUME clean, Active = {} PROVE Seated
    BY <2>0, <2>2 DEF Alone
  <2>3. NotDeaf
    BY <2>2 DEF NotDeaf, Seated
  <2>4. TotalSurvives
    <3> SUFFICES ASSUME clean, Active = {} PROVE rec[table].total = Cardinality(Got)
      BY DEF TotalSurvives
    <3>1. table \in Rec /\ Got = rec[table].seen
      BY <2>0, <2>2 DEF Seated
    <3>2. rec[table].total = Cardinality(rec[table].seen)
      BY <2>0, <3>1 DEF Records, Recorded
    <3> QED BY <3>1, <3>2
  <2> QED BY <2>1, <2>3, <2>4 DEF ReseatWorksOn
<1> QED BY <1>1, Invariance, PTL

=============================================================================
