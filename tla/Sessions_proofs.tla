-------------------------- MODULE Sessions_proofs --------------------------
(***************************************************************************)
(* Theorems of the MCP session: of SessionLifecycle for every set of calls *)
(* and, over its own variables, of AuthorSeat, the lock a server takes     *)
(* before it connects, for every set of pids, handles and environments.    *)
(*                                                                         *)
(* The argument for a session has two parts.  With reconnects, the seat    *)
(* and the connect in flight are consistent because a connect never starts *)
(* without a claim and never outlives the name it is known by.  Until the  *)
(* first reconnect, the session, the connect in flight and the open peer   *)
(* are one and the same connect at every moment, so there is one peer and  *)
(* shutdown() closes it: of the peers somebody holds, that is, for one     *)
(* whose startRelay() was rejected is left to nobody.                      *)
(*                                                                         *)
(* The argument for the lock.  A claim that overwrites exactly what it     *)
(* read cannot take the key from a live owner, because a live owner is     *)
(* named by the file, so the claim read the name of a live process and did *)
(* not get this far.  That needs the file to name the owner at all times,  *)
(* hence also that two claims are never between truncate and write         *)
(* together.                                                               *)
(***************************************************************************)
EXTENDS SessionLifecycle, AuthorSeat, FiniteSetTheorems, TLAPS

-----------------------------------------------------------------------------
(* The seat and the connect in flight *)

ConnectTypes ==
  /\ session \in Call \cup {None}
  /\ connecting \in Call \cup {None}
  /\ task \in [Call -> TaskStages]
  /\ open \in SUBSET Call
  /\ seat \in {"unclaimed", "held", "released"}
  /\ down \in BOOLEAN

\* No connect runs before the author key is claimed.
TaskNeedsSeat == (\E t \in Call : task[t] # "none") => seat # "unclaimed"

SeatInv == ConnectTypes /\ SeatFollowsLife /\ ConnectingIsLive /\ TaskNeedsSeat

\* No call, no seat.
LEMMA SeatBegins == Init => SeatInv
BY DEF Init, SeatInv, ConnectTypes, SeatFollowsLife, ConnectingIsLive, TaskNeedsSeat, TaskStages

\* ensureSession() leaves the seat with the connect it starts.
LEMMA EnsureKeeps ==
  ASSUME SeatInv, NEW c \in Call, EnsureSession(c), UNCHANGED down
  PROVE  SeatInv'
<1> USE LifecycleAssumption DEF SeatInv, ConnectTypes, SeatFollowsLife, ConnectingIsLive, TaskNeedsSeat, TaskStages
<1>1. CASE UNCHANGED connects
  BY <1>1 DEF connects
<1>2. CASE Connect(c)
  BY <1>2 DEF Connect, Call, EnsureSession
<1>3. QED
  BY <1>1, <1>2 DEF EnsureSession, UseSession, Join, ClaimRefused

\* Every step keeps the seat with the life of the session.
LEMMA SeatMoves == SeatInv /\ [Next]_vars => SeatInv'
<1> SUFFICES ASSUME SeatInv, [Next]_vars PROVE SeatInv'
  OBVIOUS
<1> USE LifecycleAssumption DEF SeatInv, ConnectTypes, SeatFollowsLife, ConnectingIsLive, TaskNeedsSeat, TaskStages
<1>1. ASSUME NEW t \in Call, Linked(t) PROVE SeatInv'
  <2>1. CASE Install(t)
    BY <1>1, <2>1 DEF Linked, Install, ending
  <2>2. CASE Abort(t)
    BY <1>1, <2>2 DEF Linked, Abort, ending
  <2>3. QED
    BY <1>1, <2>1, <2>2 DEF Linked
<1>2. ASSUME NEW t \in Call, Declared(t) PROVE SeatInv'
  BY <1>2 DEF Declared, ending
<1>3. ASSUME NEW t \in Call, LinkFailed(t) PROVE SeatInv'
  BY <1>3 DEF LinkFailed, LeavesPeer, ending
<1>4. ASSUME NEW t \in Call, Aborted(t) PROVE SeatInv'
  BY <1>4 DEF Aborted, ending
<1>5. ASSUME NEW c \in Publish, PublishStep(c) PROVE SeatInv'
  <2>1. CASE StartPublish(c)
    BY <2>1, EnsureKeeps DEF StartPublish, ending, Call
  <2>2. CASE UNCHANGED <<connects, ending>>
    BY <2>2 DEF connects, ending
  <2>3. QED
    BY <1>5, <2>1, <2>2 DEF PublishStep, Sign, Accepted, PublishFails, Confirmed, Land
<1>6. ASSUME NEW r \in Reconnect, ReconnectStep(r) PROVE SeatInv'
  <2>1. CASE StartReconnect(r)
    BY <2>1 DEF StartReconnect, connects, ending
  <2>2. CASE Closed(r)
    BY <2>2 DEF Closed, ending, Call
  <2>3. QED
    BY <1>6, <2>1, <2>2 DEF ReconnectStep
<1>7. CASE ShutdownStep
  <2>1. CASE Terminate
    BY <2>1 DEF Terminate
  <2>2. CASE Close
    BY <2>2 DEF Close
  <2>3. CASE UNCHANGED <<connects, down>>
    BY <2>3 DEF connects
  <2>4. QED
    BY <1>7, <2>1, <2>2, <2>3 DEF ShutdownStep, DrainOne, DrainEnds, Exit, HardExit
<1>8. CASE UNCHANGED vars
  BY <1>8 DEF vars
<1>9. QED
  BY <1>1, <1>2, <1>3, <1>4, <1>5, <1>6, <1>7, <1>8 DEF Next, ConnectStep

\* The inductive invariant of the seat holds in every reachable state.
THEOREM SeatCorrect == Spec => []SeatInv
<1>1. QED
  BY SeatBegins, SeatMoves, PTL DEF Spec

\* The seat is held while there is a peer or a connect, and not a moment into
\* the shutdown.
THEOREM SeatIsHeld == Spec => []SeatFollowsLife
<1>1. SeatInv => SeatFollowsLife
  BY DEF SeatInv
<1>2. QED
  BY <1>1, SeatCorrect, PTL

\* No settled connect answers a later call.
THEOREM ConnectingCorrect == Spec => []ConnectingIsLive
<1>1. SeatInv => ConnectingIsLive
  BY DEF SeatInv
<1>2. QED
  BY <1>1, SeatCorrect, PTL

-----------------------------------------------------------------------------
(* Nothing becomes the session once the shutdown has begun *)

\* A connect that was in flight when shutdown() began is closed, not installed.
THEOREM SessionEnds == Spec => NoSessionAfterShutdown
<1>1. ASSUME [Next]_vars PROVE down => session' \in {session, None}
  <2>1. ASSUME NEW t \in Call, ConnectStep(t) PROVE down => session' \in {session, None}
    BY <2>1 DEF ConnectStep, Linked, Install, Abort, Declared, LinkFailed, Aborted
  <2>2. ASSUME NEW c \in Publish, PublishStep(c) PROVE session' = session
    BY <2>2 DEF PublishStep, StartPublish, Sign, Accepted, PublishFails, Confirmed, Land,
       EnsureSession, UseSession, Join, Connect, ClaimRefused, connects
  <2>3. ASSUME NEW r \in Reconnect, ReconnectStep(r) PROVE session' \in {session, None}
    BY <2>3 DEF ReconnectStep, StartReconnect, Closed, connects
  <2>4. CASE ShutdownStep
    BY <2>4 DEF ShutdownStep, Terminate, DrainOne, DrainEnds, Close, Exit, HardExit, connects
  <2>5. CASE UNCHANGED vars
    BY <2>5 DEF vars
  <2>6. QED
    BY <1>1, <2>1, <2>2, <2>3, <2>4, <2>5 DEF Next
<1>2. QED
  BY <1>1, PTL DEF Spec, NoSessionAfterShutdown

-----------------------------------------------------------------------------
(* Until the first reconnect: one peer *)

CallTypes == call \in [Call -> CallStages]

\* The peers that something in the program refers to.
Held == open \ Stranded

\* The session, the connect in flight and the held peer are one connect.
OneConnect ==
  /\ session # None => Held = {session} /\ connecting = None
  /\ session = None => Held \subseteq {connecting} \cap Call
  /\ \A t \in Call : task[t] = "link" => connecting = t /\ session = None /\ Held = {}
  /\ \A t \in Call : task[t] = "abort" => connecting = t /\ session = None

\* A call starts its connect at most once, a peer belongs to a connect that was
\* started, and what works with a peer works with one that came through: a peer
\* that is held is never taken for a stranded one, nor the other way round.
WorkInv ==
  /\ on \in [Call -> Call \cup {None}]
  /\ \A c \in Call : call[c] \in {"idle", "closing"} => task[c] = "none"
  /\ \A t \in open : task[t] # "none"
  /\ session # None => task[session] \in {"declare", "over"}
  /\ \A c \in Call : call[c] \in {"sign", "warm"} =>
       on[c] \in Call /\ task[on[c]] \in {"declare", "over"}

\* Once closed, the session is gone for good.
ClosedIsGone == /\ shut # "no" => down
                /\ shut = "done" => session = None

PeerInv == SeatInv /\ CallTypes /\ WorkInv /\ (NoReconnectYet => OneConnect /\ ClosedIsGone)

\* Nothing is open at the start.
LEMMA PeerInit == Init => PeerInv
BY SeatBegins DEF Init, PeerInv, WorkInv, OneConnect, ClosedIsGone, Held, Stranded, CallTypes, CallStages

\* The calls keep their types, and none becomes idle again.
LEMMA CallStep ==
  ASSUME CallTypes, [Next]_vars
  PROVE  CallTypes' /\ (NoReconnectYet' => NoReconnectYet)
<1> USE DEF CallTypes, CallStages, NoReconnectYet, Call
<1>1. ASSUME NEW t \in Call, ConnectStep(t) PROVE CallTypes' /\ (NoReconnectYet' => NoReconnectYet)
  <2>1. Wake(t, Served) \/ Wake(t, Fail) \/ UNCHANGED call
    BY <1>1 DEF ConnectStep, Linked, Install, Abort, Declared, LinkFailed, Aborted
  <2>2. QED
    BY <2>1 DEF Wake, Served, Fail
<1>2. ASSUME NEW c \in Publish, PublishStep(c) PROVE CallTypes' /\ (NoReconnectYet' => NoReconnectYet)
  <2>1. \/ UNCHANGED call
        \/ \E s \in CallStages \ {"idle"} : call' = [call EXCEPT ![c] = s]
    BY <1>2 DEF PublishStep, StartPublish, Sign, Accepted, PublishFails, Confirmed, Land,
       EnsureSession, UseSession, Join, Connect, ClaimRefused, connects, calls, Served
  <2>2. QED
    BY <2>1
<1>3. ASSUME NEW r \in Reconnect, ReconnectStep(r) PROVE CallTypes' /\ (NoReconnectYet' => NoReconnectYet)
  BY <1>3 DEF ReconnectStep, StartReconnect, Closed
<1>4. CASE ShutdownStep
  BY <1>4 DEF ShutdownStep, Terminate, DrainOne, DrainEnds, Close, Exit, HardExit, calls
<1>5. CASE UNCHANGED vars
  BY <1>5 DEF vars
<1>6. QED
  BY <1>1, <1>2, <1>3, <1>4, <1>5 DEF Next

\* Joining, using or starting a connect keeps who works with what.
LEMMA WorkBegins ==
  ASSUME SeatInv, CallTypes, WorkInv, NEW c \in Call, call[c] = "idle", EnsureSession(c)
  PROVE  WorkInv'
<1> USE LifecycleAssumption DEF WorkInv, CallTypes, SeatInv, ConnectTypes
<1>1. CASE UseSession(c)
  BY <1>1 DEF UseSession, connects, Served
<1>2. CASE Join(c)
  BY <1>2 DEF Join, connects
<1>3. CASE Connect(c)
  BY <1>3 DEF Connect
<1>4. CASE ClaimRefused(c)
  BY <1>4 DEF ClaimRefused, connects
<1>5. QED
  BY <1>1, <1>2, <1>3, <1>4 DEF EnsureSession

\* Every step keeps who works with what, reconnects and shutdown included.
LEMMA WorkStep == ASSUME SeatInv, CallTypes, WorkInv, [Next]_vars PROVE WorkInv'
<1> USE LifecycleAssumption DEF WorkInv, CallTypes, SeatInv, ConnectTypes
<1>1. ASSUME NEW t \in Call, Linked(t) PROVE WorkInv'
  <2>1. CASE Install(t)
    BY <1>1, <2>1 DEF Linked, Install, Wake, Served
  <2>2. CASE Abort(t)
    BY <1>1, <2>2 DEF Linked, Abort
  <2>3. QED
    BY <1>1, <2>1, <2>2 DEF Linked
<1>2. ASSUME NEW t \in Call, Declared(t) PROVE WorkInv'
  BY <1>2 DEF Declared, Wake, Served
<1>3. ASSUME NEW t \in Call, LinkFailed(t) PROVE WorkInv'
  BY <1>3 DEF LinkFailed, LeavesPeer, Wake, Fail
<1>4. ASSUME NEW t \in Call, Aborted(t) PROVE WorkInv'
  BY <1>4 DEF Aborted, Wake, Fail
<1>5. ASSUME NEW c \in Publish, PublishStep(c) PROVE WorkInv'
  <2>1. CASE StartPublish(c)
    BY <2>1, WorkBegins DEF StartPublish, Call
  <2>2. CASE Sign(c)
    BY <2>2 DEF Sign, connects
  <2>3. CASE Accepted(c) \/ PublishFails(c) \/ Confirmed(c)
    BY <2>3 DEF Accepted, PublishFails, Confirmed, connects
  <2>4. CASE Land(c)
    BY <2>4 DEF Land, connects, calls
  <2>5. QED
    BY <1>5, <2>1, <2>2, <2>3, <2>4 DEF PublishStep
<1>6. ASSUME NEW r \in Reconnect, ReconnectStep(r) PROVE WorkInv'
  <2>1. CASE StartReconnect(r)
    BY <2>1 DEF StartReconnect, connects
  <2>2. CASE Closed(r)
    BY <2>2 DEF Closed, Call
  <2>3. QED
    BY <1>6, <2>1, <2>2 DEF ReconnectStep
<1>7. CASE ShutdownStep
  <2>1. open' \subseteq open /\ session' \in {session, None} /\ UNCHANGED <<task, call, on>>
    BY <1>7 DEF ShutdownStep, Terminate, DrainOne, DrainEnds, Close, Exit, HardExit, connects, calls
  <2>2. QED
    BY <2>1
<1>8. CASE UNCHANGED vars
  BY <1>8 DEF vars
<1>9. QED
  BY <1>1, <1>2, <1>3, <1>4, <1>5, <1>6, <1>7, <1>8 DEF Next, ConnectStep

\* A reconnect leaves its idle stage for good.
LEMMA ReconnectShows ==
  ASSUME CallTypes, NEW r \in Reconnect, ReconnectStep(r)
  PROVE  ~NoReconnectYet'
BY DEF CallTypes, ReconnectStep, StartReconnect, Closed, NoReconnectYet, Call

\* A call of ensureSession() waits for the connect there is, or starts the only one.
LEMMA EnsureKeepsOne ==
  ASSUME SeatInv, WorkInv, OneConnect, ClosedIsGone, UNCHANGED <<down, shut>>,
         NEW c \in Call, call[c] = "idle", EnsureSession(c)
  PROVE  OneConnect' /\ ClosedIsGone'
<1> USE LifecycleAssumption DEF WorkInv, Held, Stranded, OneConnect, ClosedIsGone, SeatInv, ConnectTypes
<1>1. CASE UNCHANGED connects
  BY <1>1 DEF connects
<1>2. CASE Connect(c)
  BY <1>2 DEF Connect, Call, EnsureSession
<1>3. QED
  BY <1>1, <1>2 DEF EnsureSession, UseSession, Join, ClaimRefused

\* Every step keeps at most one peer, and what it is for.
LEMMA PeerStep == PeerInv /\ [Next]_vars => PeerInv'
<1> SUFFICES ASSUME PeerInv, [Next]_vars, NoReconnectYet' PROVE OneConnect' /\ ClosedIsGone'
  BY SeatMoves, CallStep, WorkStep DEF PeerInv
<1>a. SeatInv /\ CallTypes /\ WorkInv /\ OneConnect /\ ClosedIsGone
  BY CallStep DEF PeerInv
<1> USE <1>a, LifecycleAssumption DEF WorkInv, Held, Stranded, OneConnect, ClosedIsGone, SeatInv, ConnectTypes, ConnectingIsLive
<1>1. ASSUME NEW t \in Call, Linked(t) PROVE OneConnect' /\ ClosedIsGone'
  <2>1. CASE Install(t)
    BY <1>1, <2>1 DEF Linked, Install, ending
  <2>2. CASE Abort(t)
    BY <1>1, <2>2 DEF Linked, Abort, ending
  <2>3. QED
    BY <1>1, <2>1, <2>2 DEF Linked
<1>2. ASSUME NEW t \in Call, Declared(t) PROVE OneConnect' /\ ClosedIsGone'
  BY <1>2 DEF Declared, ending
<1>3. ASSUME NEW t \in Call, LinkFailed(t) PROVE OneConnect' /\ ClosedIsGone'
  BY <1>3 DEF LinkFailed, LeavesPeer, ending
<1>4. ASSUME NEW t \in Call, Aborted(t) PROVE OneConnect' /\ ClosedIsGone'
  BY <1>4 DEF Aborted, ending
<1>5. ASSUME NEW c \in Publish, PublishStep(c) PROVE OneConnect' /\ ClosedIsGone'
  <2>1. CASE StartPublish(c)
    BY <2>1, EnsureKeepsOne DEF StartPublish, ending, Call
  <2>2. CASE UNCHANGED <<connects, ending>>
    BY <2>2 DEF connects, ending
  <2>3. QED
    BY <1>5, <2>1, <2>2 DEF PublishStep, Sign, Accepted, PublishFails, Confirmed, Land
<1>6. CASE ShutdownStep
  <2>1. CASE Close
    BY <2>1 DEF Close
  <2>2. CASE Terminate
    BY <2>2 DEF Terminate
  <2>3. CASE DrainOne \/ DrainEnds \/ Exit \/ HardExit
    BY <2>3 DEF connects, DrainOne, DrainEnds, Exit, HardExit
  <2>4. QED
    BY <1>6, <2>1, <2>2, <2>3 DEF ShutdownStep
<1>7. ASSUME NEW r \in Reconnect, ReconnectStep(r) PROVE FALSE
  BY <1>7, ReconnectShows
<1>8. CASE UNCHANGED vars
  BY <1>8 DEF vars
<1>9. QED
  BY <1>1, <1>2, <1>3, <1>4, <1>5, <1>6, <1>7, <1>8 DEF Next, ConnectStep

\* However many calls ensure the session at once, and however many connects
\* fail first, one peer is held: the others are those that a rejected
\* startRelay() left up.
THEOREM SinglePeer == Spec => []OnePeer
<1>1. PeerInv => OnePeer
  <2> SUFFICES ASSUME PeerInv, NoReconnectYet PROVE Cardinality(Peers \ Stranded) <= 1
    BY DEF OnePeer
  <2>1. \E x : Peers \ Stranded \subseteq {x}
    BY DEF PeerInv, OneConnect, Held, Stranded, Peers
  <2>2. PICK x : Peers \ Stranded \subseteq {x}
    BY <2>1
  <2>3. IsFiniteSet({x}) /\ Cardinality({x}) = 1
    BY FS_Singleton
  <2>4. Cardinality(Peers \ Stranded) <= Cardinality({x})
    BY <2>2, <2>3, FS_Subset
  <2>5. QED
    BY <2>3, <2>4
<1>2. QED
  BY <1>1, PeerInit, PeerStep, PTL DEF Spec

\* After a complete shutdown no peer is left but one that is being closed, and
\* those that a rejected startRelay() had left up.
THEOREM NothingLeftOpen == Spec => []ShutdownLeavesNoPeer
<1>1. PeerInv => ShutdownLeavesNoPeer
  <2> SUFFICES ASSUME PeerInv, NoReconnectYet, shut = "done", NEW t \in Held PROVE task[t] = "abort"
    BY DEF ShutdownLeavesNoPeer, Held
  <2>1. t = connecting /\ connecting \in Call /\ connecting # None
    BY LifecycleAssumption DEF PeerInv, OneConnect, ClosedIsGone, Call
  <2>2. task[connecting] \in {"link", "abort"}
    BY <2>1 DEF PeerInv, SeatInv, ConnectingIsLive
  <2>3. task[connecting] # "link"
    BY <2>1 DEF PeerInv, OneConnect
  <2>4. QED
    BY <2>1, <2>2, <2>3
<1>2. QED
  BY <1>1, PeerInit, PeerStep, PTL DEF Spec

-----------------------------------------------------------------------------
(* Until the first reconnect: the books *)

BookTypes == inflight \in Seq(Publish) /\ drain \in Seq(Publish)

Books ==
  /\ ~down /\ inflight # <<>> => session # None
  /\ shut = "drain" => owed \subseteq landed \cup reported \cup Entries(drain)
  /\ shut \in {"close", "done"} => owed \subseteq landed \cup reported
  /\ \A t \in Call : task[t] = "abort" => down

BooksInv == BookTypes /\ (NoReconnectYet => Books)

\* Taking an entry off the books leaves a list of publishes, and nothing new.
LEMMA WithoutType ==
  ASSUME NEW s \in Seq(Publish), NEW c
  PROVE  Without(s, c) \in Seq(Publish) /\ (s = <<>> => Without(s, c) = <<>>)
<1>1. CASE c \notin Entries(s)
  BY <1>1 DEF Without
<1>2. CASE c \in Entries(s)
  <2> DEFINE k == CHOOSE i \in DOMAIN s : s[i] = c
  <2>1. k \in DOMAIN s /\ DOMAIN s = 1 .. Len(s) /\ Len(s) \in Nat
    BY <1>2 DEF Entries
  <2> HIDE DEF k
  <2>2. SubSeq(s, 1, k - 1) \in Seq(Publish) /\ SubSeq(s, k + 1, Len(s)) \in Seq(Publish)
    BY <2>1
  <2>3. SubSeq(s, 1, k - 1) \o SubSeq(s, k + 1, Len(s)) \in Seq(Publish)
    BY <2>2
  <2>4. Without(s, c) = SubSeq(s, 1, k - 1) \o SubSeq(s, k + 1, Len(s))
    BY <1>2 DEF Without, k
  <2>5. s # <<>>
    BY <2>1
  <2>6. QED
    BY <2>3, <2>4, <2>5
<1>3. QED
  BY <1>1, <1>2

\* The head and the tail of a list hold its entries.
LEMMA HeadAndTail ==
  ASSUME NEW s \in Seq(Publish), s # <<>>
  PROVE  /\ Head(s) \in Publish /\ Tail(s) \in Seq(Publish)
         /\ Entries(s) \subseteq {Head(s)} \cup Entries(Tail(s))
<1>1. Head(s) = s[1] /\ Head(s) \in Publish /\ Tail(s) \in Seq(Publish)
      /\ Len(Tail(s)) = Len(s) - 1 /\ Len(s) \in Nat /\ Len(s) >= 1
      /\ \A i \in 1 .. Len(s) - 1 : Tail(s)[i] = s[i + 1]
  OBVIOUS
<1>2. ASSUME NEW i \in 1 .. Len(s), i # 1 PROVE s[i] \in Entries(Tail(s))
  <2>1. i - 1 \in 1 .. Len(s) - 1 /\ (i - 1) + 1 = i
    BY <1>1, <1>2
  <2>2. Tail(s)[i - 1] = s[i] /\ DOMAIN Tail(s) = 1 .. Len(s) - 1
    BY <1>1, <2>1
  <2>3. QED
    BY <2>1, <2>2 DEF Entries
<1>3. DOMAIN s = 1 .. Len(s)
  OBVIOUS
<1>4. QED
  BY <1>1, <1>2, <1>3 DEF Entries

\* What joins the books is a publish.
LEMMA RecordType ==
  ASSUME NEW c \in Publish, inflight \in Seq(Publish), Record(c)
  PROVE  inflight' \in Seq(Publish)
<1>1. InflightMax \in Nat \ {0}
  BY LifecycleAssumption
<1>2. CASE Len(inflight) >= InflightMax
  <2>1. inflight # <<>>
    BY <1>1, <1>2
  <2>2. Tail(inflight) \in Seq(Publish)
    BY <2>1
  <2>3. QED
    BY <1>2, <2>2 DEF Record
<1>3. CASE ~(Len(inflight) >= InflightMax)
  BY <1>3 DEF Record
<1>4. QED
  BY <1>2, <1>3

\* The books start empty.
LEMMA BooksInit == Init => BooksInv
BY DEF Init, BooksInv, BookTypes, Books, Entries

\* The lists stay lists of publishes, whatever happens.
LEMMA BookTypesStep == BookTypes /\ [Next]_vars => BookTypes'
<1> SUFFICES ASSUME BookTypes, [Next]_vars PROVE BookTypes'
  OBVIOUS
<1> USE DEF BookTypes
<1>1. CASE UNCHANGED <<inflight, drain>>
  BY <1>1
<1>2. ASSUME NEW c \in Publish, Accepted(c) PROVE BookTypes'
  BY <1>2, RecordType DEF Accepted, ending
<1>3. ASSUME NEW c \in Publish, Confirmed(c) PROVE BookTypes'
  BY <1>3, WithoutType DEF Confirmed, ending
<1>4. CASE Terminate
  BY <1>4 DEF Terminate, messages
<1>5. CASE DrainOne
  <2>1. Tail(drain) \in Seq(Publish)
    BY <1>5, HeadAndTail DEF DrainOne
  <2>2. inflight' \in Seq(Publish)
    BY <1>5, WithoutType DEF DrainOne
  <2>3. QED
    BY <1>5, <2>1, <2>2 DEF DrainOne
<1>6. ASSUME NEW t \in Call, ConnectStep(t) PROVE UNCHANGED <<inflight, drain>>
  BY <1>6 DEF ConnectStep, Linked, Declared, LinkFailed, Aborted, ending, messages
<1>7. ASSUME NEW c \in Publish, PublishStep(c), ~Accepted(c), ~Confirmed(c)
      PROVE  UNCHANGED <<inflight, drain>>
  BY <1>7 DEF PublishStep, StartPublish, Sign, PublishFails, Land, ending, messages
<1>8. ASSUME NEW r \in Reconnect, ReconnectStep(r) PROVE UNCHANGED <<inflight, drain>>
  BY <1>8 DEF ReconnectStep, StartReconnect, Closed, ending, messages
<1>9. CASE DrainEnds \/ Close \/ Exit \/ HardExit
  BY <1>9 DEF DrainEnds, Close, Exit, HardExit, messages
<1>10. CASE UNCHANGED vars
  BY <1>10 DEF vars
<1>11. QED
  BY <1>1, <1>2, <1>3, <1>4, <1>5, <1>6, <1>7, <1>8, <1>9, <1>10 DEF Next, ShutdownStep

\* Every step keeps the books: a publish is in the drain, landed or reported.
LEMMA BooksStep == PeerInv /\ BooksInv /\ [Next]_vars => BooksInv'
<1> SUFFICES ASSUME PeerInv, BooksInv, [Next]_vars, NoReconnectYet' PROVE Books'
  BY BookTypesStep DEF BooksInv
<1>a. SeatInv /\ CallTypes /\ WorkInv /\ OneConnect /\ ClosedIsGone /\ BookTypes /\ Books
  BY CallStep DEF PeerInv, BooksInv
<1> USE <1>a, LifecycleAssumption DEF Books, BookTypes
<1>1. ASSUME NEW t \in Call, ConnectStep(t) PROVE Books'
  <2>1. session' # None \/ session' = session
    BY <1>1 DEF ConnectStep, Linked, Install, Abort, Declared, LinkFailed, Aborted, Call
  <2>2. \A u \in Call : task'[u] = "abort" => down
    BY <1>1 DEF ConnectStep, Linked, Install, Abort, Declared, LinkFailed, Aborted,
       SeatInv, ConnectTypes
  <2>3. UNCHANGED <<ending, messages>>
    BY <1>1 DEF ConnectStep, Linked, Declared, LinkFailed, Aborted
  <2>4. QED
    BY <2>1, <2>2, <2>3 DEF ending, messages
<1>2. ASSUME NEW c \in Publish, PublishStep(c) PROVE Books'
  <2>1. CASE StartPublish(c)
    <3>1. UNCHANGED <<session, ending, messages>>
      BY <2>1 DEF StartPublish, EnsureSession, UseSession, Join, Connect, ClaimRefused, connects
    <3>2. \A u \in Call : task'[u] = "abort" => task[u] = "abort"
      BY <2>1 DEF StartPublish, EnsureSession, UseSession, Join, Connect, ClaimRefused, connects,
         SeatInv, ConnectTypes
    <3>3. QED
      BY <3>1, <3>2 DEF ending, messages
  <2>2. CASE Accepted(c)
    <3>1. inflight' \in Seq(Publish)
      BY <2>2, RecordType DEF Accepted
    <3>2. ~down => session # None
      <4>1. Held # {}
        BY <2>2 DEF Accepted, WorkInv, Held, Stranded, Call
      <4>2. SUFFICES ASSUME session = None PROVE down
        OBVIOUS
      <4>3. connecting \in Call /\ connecting # None
        BY <4>1, <4>2 DEF OneConnect, Call
      <4>4. task[connecting] \in {"link", "abort"}
        BY <4>3 DEF SeatInv, ConnectingIsLive
      <4>5. task[connecting] # "link"
        BY <4>1, <4>3 DEF OneConnect
      <4>6. QED
        BY <4>3, <4>4, <4>5
    <3>3. QED
      BY <2>2, <3>1, <3>2 DEF Accepted, connects, ending
  <2>3. CASE Confirmed(c)
    <3>1. inflight' \in Seq(Publish) /\ (inflight' # <<>> => inflight # <<>>)
      BY <2>3, WithoutType DEF Confirmed
    <3>2. reported \subseteq reported'
      BY <2>3 DEF Confirmed
    <3>3. QED
      BY <2>3, <3>1, <3>2 DEF Confirmed, connects, ending
  <2>4. CASE Land(c)
    BY <2>4 DEF Land, connects, ending
  <2>5. CASE UNCHANGED <<connects, ending, messages>>
    BY <2>5 DEF connects, ending, messages
  <2>6. QED
    BY <1>2, <2>1, <2>2, <2>3, <2>4, <2>5 DEF PublishStep, Sign, PublishFails
<1>3. CASE Terminate
  <2>1. CASE session # None /\ inflight # <<>>
    BY <1>3, <2>1 DEF Terminate, messages
  <2>2. CASE ~(session # None /\ inflight # <<>>)
    <3>1. inflight = <<>>
      BY <1>3, <2>2 DEF Terminate
    <3>2. Entries(inflight) = {}
      BY <3>1 DEF Entries
    <3>3. QED
      BY <1>3, <2>2, <3>2 DEF Terminate, messages
  <2>3. QED
    BY <2>1, <2>2
<1>4. CASE DrainOne
  <2> DEFINE c == Head(drain)
  <2>1. /\ Tail(drain) \in Seq(Publish)
        /\ Entries(drain) \subseteq {c} \cup Entries(Tail(drain))
    BY <1>4, HeadAndTail DEF DrainOne
  <2>2. Without(inflight, c) \in Seq(Publish) /\ (inflight = <<>> => Without(inflight, c) = <<>>)
    BY WithoutType
  <2>3. inflight' \in Seq(Publish) /\ (inflight' # <<>> => inflight # <<>>)
    BY <1>4, <2>2 DEF DrainOne
  <2>4. c \in landed \cup reported' /\ reported \subseteq reported'
    BY <1>4 DEF DrainOne
  <2> HIDE DEF c
  <2>5. UNCHANGED <<connects, down, shut, owed, landed>> /\ drain' = Tail(drain) /\ shut = "drain"
    BY <1>4 DEF DrainOne
  <2>6. owed' \subseteq landed' \cup reported' \cup Entries(drain')
    BY <2>1, <2>4, <2>5
  <2>7. QED
    BY <2>1, <2>3, <2>5, <2>6 DEF connects
<1>5. CASE DrainEnds
  BY <1>5 DEF DrainEnds, connects, messages, Entries
<1>6. CASE Close
  BY <1>6 DEF Close, messages, ClosedIsGone
<1>7. CASE Exit \/ HardExit
  BY <1>7 DEF Exit, HardExit, connects, messages
<1>8. CASE UNCHANGED vars
  BY <1>8 DEF vars
<1>9. ASSUME NEW r \in Reconnect, ReconnectStep(r) PROVE FALSE
  BY <1>9, ReconnectShows
<1>10. QED
  BY <1>1, <1>2, <1>3, <1>4, <1>5, <1>6, <1>7, <1>8, <1>9 DEF Next, ShutdownStep

\* What was on the books when the shutdown began is at its holder or named as
\* not read back when the session has closed.
THEOREM BooksAreSettled == Spec => []RecordedAreAccountedFor
<1>1. PeerInv /\ BooksInv => RecordedAreAccountedFor
  BY DEF BooksInv, Books, RecordedAreAccountedFor
<1>2. PeerInv /\ BooksInv /\ [Next]_vars => PeerInv' /\ BooksInv'
  BY PeerStep, BooksStep
<1>3. QED
  BY <1>1, <1>2, PeerInit, BooksInit, PTL DEF Spec

-----------------------------------------------------------------------------
(* The author's seat: the lock file between the processes of one key *)

\* Only a running server is anywhere in the protocol.
Gone == \A p \in Pid : ~Server(p) => pc[p] = "unclaimed"

\* One claim writes at a time, and until it has written the file is torn.
SoleWriter ==
  \A p \in Pid : pc[p] = "write" =>
     /\ lock = Torn
     /\ \A q \in Pid : pc[q] = "write" => p = q

Named == \A p \in Pid : pc[p] \in {"owner", "unlink"} => Names(lock, p)

Freed == \A p \in Pid : pc[p] = "freed" => ~Names(lock, p)

IInv == SeatTypeOK /\ Gone /\ (~raced => SoleWriter /\ Named /\ Freed)

-----------------------------------------------------------------------------

\* The initial states are well typed.
LEMMA TypeInit == SeatInit => SeatTypeOK
<1> SUFFICES ASSUME SeatInit PROVE SeatTypeOK
  OBVIOUS
<1>1. conf \in [Pid -> Config]
  BY DEF SeatInit
<1>2. leaving \in [Pid -> BOOLEAN] /\ raced \in BOOLEAN
  BY Zenon DEF SeatInit
<1>3. QED
  BY <1>1, <1>2 DEF SeatInit, SeatTypeOK, Lives, Stages

\* The type invariant of the lock protocol.
THEOREM TypeCorrect == SeatSpec => []SeatTypeOK
<1>2. SeatTypeOK /\ [SeatNext]_seatVars => SeatTypeOK'
  <2> SUFFICES ASSUME SeatTypeOK, [SeatNext]_seatVars PROVE SeatTypeOK'
    OBVIOUS
  <2> USE DEF SeatTypeOK, Lives, Stages
  <2>1. CASE UNCHANGED seatVars
    BY <2>1 DEF seatVars
  <2>2. ASSUME NEW p \in Pid, Step(p) PROVE SeatTypeOK'
    <3>1. CASE Spawn(p)
      BY <3>1 DEF Spawn
    <3>2. CASE SpawnForeign(p)
      BY <3>2 DEF SpawnForeign
    <3>3. CASE Die(p) \/ Quit(p)
      BY <3>3 DEF Die, Quit, Ended
    <3>4. CASE ReadLock(p)
      BY <3>4 DEF ReadLock
    <3>5. CASE ShareSeat(p) \/ Refuse(p) \/ Truncate(p)
      BY <3>5 DEF ShareSeat, Refuse, Truncate, Decided, Stale
    <3>6. CASE WriteLock(p)
      BY <3>6, SeatAssumption DEF WriteLock, Lock
    <3>7. CASE BeginShutdown(p) \/ ReleaseRead(p) \/ Unlink(p)
      BY <3>7 DEF BeginShutdown, ReleaseRead, Unlink
    <3>8. QED
      BY <2>2, <3>1, <3>2, <3>3, <3>4, <3>5, <3>6, <3>7 DEF Step
  <2>3. QED
    BY <2>1, <2>2 DEF SeatNext
<1>3. QED
  BY TypeInit, <1>2, PTL DEF SeatSpec

-----------------------------------------------------------------------------

\* A claim that is about to truncate the file it read finds no live owner in it.
LEMMA NoOwnerUnderClaim ==
  ASSUME IInv, NEW p \in Pid, pc[p] = "read", ~HeldByOther(p), ~raced, ~Stale(p)
  PROVE  \A q \in Pid : pc[q] \notin {"owner", "unlink", "write"}
<1> SUFFICES ASSUME NEW q \in Pid, pc[q] \in {"owner", "unlink", "write"} PROVE FALSE
  OBVIOUS
<1>1. q # p /\ Server(q)
  BY DEF IInv, Gone
<1>2. lock = held[p] /\ pc[q] # "write"
  BY <1>1 DEF Stale
<1>3. Names(held[p], q)
  BY <1>2 DEF IInv, Named
<1>4. QED
  BY <1>1, <1>3 DEF HeldByOther, Names, Alive, Server

\* The initial states satisfy the invariant.
LEMMA InvInit == SeatInit => IInv
<1>1. QED
  BY TypeInit DEF SeatInit, IInv, Gone, SoleWriter, Named, Freed

\* Every step of every process keeps the inductive invariant.
LEMMA InvStep == IInv /\ SeatTypeOK' /\ [SeatNext]_seatVars => IInv'
<1> SUFFICES ASSUME IInv, SeatTypeOK', [SeatNext]_seatVars PROVE IInv'
  OBVIOUS
<1> USE DEF IInv, SeatTypeOK
<1>1. CASE UNCHANGED seatVars
  BY <1>1 DEF seatVars, Gone, SoleWriter, Named, Freed, Server, Names
<1>2. ASSUME NEW p \in Pid, Step(p) PROVE IInv'
  <2>1. CASE Spawn(p) \/ SpawnForeign(p)
    <3>1. pc[p] = "unclaimed" /\ pc' = pc /\ lock' = lock /\ raced' = raced
      BY <2>1, SeatAssumption DEF Spawn, SpawnForeign, Free, Gone, Server, Alive
    <3>2. Gone'
      BY <2>1, <3>1 DEF Spawn, SpawnForeign, Gone, Server
    <3>3. QED
      BY <3>1, <3>2 DEF SoleWriter, Named, Freed, Names
  <2>2. CASE Die(p) \/ Quit(p)
    BY <2>2 DEF Die, Quit, Ended, Gone, SoleWriter, Named, Freed, Server, Names
  <2>3. CASE ReadLock(p)
    BY <2>3 DEF ReadLock, Gone, SoleWriter, Named, Freed, Server, Names
  <2>4. CASE ShareSeat(p) \/ Refuse(p)
    BY <2>4 DEF ShareSeat, Refuse, Decided, Gone, SoleWriter, Named, Freed, Server, Names
  <2>5. CASE Truncate(p)
    <3>1. Gone'
      BY <2>5 DEF Truncate, Decided, Gone, Server
    <3>2. ASSUME ~raced' PROVE (SoleWriter /\ Named /\ Freed)'
      <4>1. ~raced /\ ~Stale(p)
        BY <2>5, <3>2 DEF Truncate
      <4>2. \A q \in Pid : pc[q] \notin {"owner", "unlink", "write"}
        BY <2>5, <4>1, NoOwnerUnderClaim DEF Truncate
      <4>3. lock' = Torn /\ pc' = [pc EXCEPT ![p] = "write"]
        BY <2>5 DEF Truncate, Decided
      <4>4. QED
        BY <4>2, <4>3, SeatAssumption DEF SoleWriter, Named, Freed, Names
    <3>3. QED
      BY <3>1, <3>2
  <2>6. CASE WriteLock(p)
    <3>1. Gone'
      BY <2>6 DEF WriteLock, Gone, Server
    <3>2. ASSUME ~raced' PROVE (SoleWriter /\ Named /\ Freed)'
      <4>1. ~raced /\ pc[p] = "write" /\ lock = Torn
        BY <2>6, <3>2 DEF WriteLock, SoleWriter
      <4>2. \A q \in Pid \ {p} : pc[q] \notin {"write", "owner", "unlink"}
        BY <4>1, SeatAssumption DEF SoleWriter, Named, Names
      <4>3. Names(lock', p) /\ pc' = [pc EXCEPT ![p] = "owner"]
        BY <2>6, SeatAssumption DEF WriteLock, Names, Lock
      <4>4. QED
        BY <4>1, <4>2, <4>3 DEF SoleWriter, Named, Freed, Names
    <3>3. QED
      BY <3>1, <3>2
  <2>7. CASE BeginShutdown(p)
    BY <2>7 DEF BeginShutdown, Gone, SoleWriter, Named, Freed, Server, Names
  <2>8. CASE ReleaseRead(p)
    BY <2>8 DEF ReleaseRead, Gone, SoleWriter, Named, Freed, Server, Names
  <2>9. CASE Unlink(p)
    <3>1. Gone'
      BY <2>9 DEF Unlink, Gone, Server
    <3>2. ASSUME ~raced' PROVE (SoleWriter /\ Named /\ Freed)'
      <4>1. ~raced /\ Names(lock, p) /\ lock # Torn
        BY <2>9, <3>2, SeatAssumption DEF Unlink, Named, Names
      <4>2. \A q \in Pid \ {p} : pc[q] \notin {"write", "owner", "unlink"}
        BY <4>1 DEF SoleWriter, Named, Names
      <4>3. QED
        BY <2>9, <4>2, SeatAssumption DEF Unlink, SoleWriter, Named, Freed, Names
    <3>3. QED
      BY <3>1, <3>2
  <2>10. QED
    BY <1>2, <2>1, <2>2, <2>3, <2>4, <2>5, <2>6, <2>7, <2>8, <2>9 DEF Step
<1>3. QED
  BY <1>1, <1>2 DEF SeatNext

\* The inductive invariant holds in every reachable state.
THEOREM InvCorrect == SeatSpec => []IInv
<1>1. QED
  BY InvInit, InvStep, TypeCorrect, PTL DEF SeatSpec

-----------------------------------------------------------------------------

\* One key, one live owner, unless a claim overwrote what it had not read.
THEOREM OneOwner == SeatSpec => []SoleOwner
<1>1. IInv => SoleOwner
  BY DEF IInv, Named, SoleOwner, Owner, Names
<1>2. QED
  BY <1>1, InvCorrect, PTL

\* The lock file names the live owner.
THEOREM LockNamesOwner == SeatSpec => []OwnerIsNamed
<1>1. IInv => OwnerIsNamed
  BY DEF IInv, Named, OwnerIsNamed, Owner
<1>2. QED
  BY <1>1, InvCorrect, PTL

\* A server that released has left no lock of its own.
THEOREM ReleaseFrees == SeatSpec => []ReleasedSeatIsFree
<1>1. IInv => ReleasedSeatIsFree
  BY DEF IInv, Freed, ReleasedSeatIsFree
<1>2. QED
  BY <1>1, InvCorrect, PTL

\* No release ever removes the lock of another process.
THEOREM ReleaseIsOwn == SeatSpec => RemovesOwnLock
<1> DEFINE Own == ~raced /\ lock # NoLock /\ lock' = NoLock
                    => \E p \in Pid : Names(lock, p) /\ pc[p] = "unlink" /\ pc'[p] = "freed"
<1>1. IInv /\ [SeatNext]_seatVars => [Own]_seatVars
  <2> SUFFICES ASSUME IInv, SeatNext, ~raced, lock # NoLock, lock' = NoLock
               PROVE  \E p \in Pid : Names(lock, p) /\ pc[p] = "unlink" /\ pc'[p] = "freed"
    BY DEF seatVars
  <2>1. PICK p \in Pid : Step(p)
    BY DEF SeatNext
  <2>2. Unlink(p)
    BY <2>1, SeatAssumption
    DEF Step, Spawn, SpawnForeign, Die, Quit, ReadLock, ShareSeat, Refuse, Truncate, WriteLock,
        BeginShutdown, ReleaseRead, Lock, IInv, SeatTypeOK
  <2>3. QED
    BY <2>2 DEF Unlink, IInv, SeatTypeOK, Named
<1>2. QED
  BY <1>1, InvCorrect, PTL DEF SeatSpec, RemovesOwnLock

-----------------------------------------------------------------------------

\* Whoever a lock file, or what a claim read of one, names.
Mentioned(q) == Names(lock, q) \/ \E p \in Pid : Names(held[p], q)

\* It wrote the name, and has not come back as somebody else since.
HasClaimed(q) == life[q] = "dead" \/ (Server(q) /\ pc[q] \in {"owner", "unlink", "freed"})

NamedHaveClaimed == \A q \in Pid \ Recyclable : Mentioned(q) => HasClaimed(q)

\* A name gets into the file by a completed claim only, and a pid that is not
\* handed out again stands for that claim ever after.
LEMMA NamesAreClaims == SeatTypeOK /\ NamedHaveClaimed /\ [SeatNext]_seatVars => NamedHaveClaimed'
<1> SUFFICES ASSUME SeatTypeOK, NamedHaveClaimed, [SeatNext]_seatVars, NEW q \in Pid \ Recyclable, Mentioned(q)'
             PROVE  HasClaimed(q)'
  BY DEF NamedHaveClaimed
<1>1. CASE UNCHANGED seatVars
  BY <1>1 DEF seatVars, NamedHaveClaimed, Mentioned, HasClaimed, Names, Server
<1>2. ASSUME NEW p \in Pid, Step(p) PROVE HasClaimed(q)'
  <2>1. CASE WriteLock(p) /\ p = q
    BY <2>1 DEF WriteLock, HasClaimed, Server, SeatTypeOK
  <2>2. CASE ~(WriteLock(p) /\ p = q)
    <3>1. Mentioned(q)
      <4>1. CASE WriteLock(p)
        BY <2>2, <4>1 DEF WriteLock, Mentioned, Names, Lock
      <4>2. CASE ReadLock(p)
        BY <4>2 DEF ReadLock, Mentioned, Names, SeatTypeOK
      <4>3. CASE Spawn(p) \/ SpawnForeign(p) \/ BeginShutdown(p) \/ ReleaseRead(p)
        BY <4>3 DEF Spawn, SpawnForeign, BeginShutdown, ReleaseRead, Mentioned, Names
      <4>4. CASE Die(p) \/ Quit(p) \/ ShareSeat(p) \/ Refuse(p)
        BY <4>4, SeatAssumption DEF Die, Quit, Ended, ShareSeat, Refuse, Decided, Mentioned, Names, SeatTypeOK
      <4>5. CASE Truncate(p) \/ Unlink(p)
        BY <4>5, SeatAssumption DEF Truncate, Unlink, Decided, Mentioned, Names, SeatTypeOK
      <4> QED BY <1>2, <4>1, <4>2, <4>3, <4>4, <4>5 DEF Step
    <3>2. HasClaimed(q)
      BY <3>1 DEF NamedHaveClaimed
    <3>3. CASE p # q
      BY <1>2, <3>2, <3>3
      DEF Step, Spawn, SpawnForeign, Die, Quit, Ended, ReadLock, ShareSeat, Refuse, Truncate, Decided, WriteLock,
          BeginShutdown, ReleaseRead, Unlink, HasClaimed, Server, SeatTypeOK
    <3>4. CASE p = q
      BY <1>2, <3>2, <3>4
      DEF Step, Spawn, SpawnForeign, Free, Alive, Die, Quit, Ended, ReadLock, ShareSeat, Refuse, Truncate, Decided,
          WriteLock, BeginShutdown, ReleaseRead, Unlink, HasClaimed, Server, SeatTypeOK
    <3> QED BY <3>3, <3>4
  <2> QED BY <2>1, <2>2
<1> QED BY <1>1, <1>2 DEF SeatNext

\* No claim is refused because of a crash, a corrupt file or a stranger: the
\* lock names a server that claimed the key and still runs, or a recycled pid.
THEOREM OnlyOwnersRefuse == SeatSpec => RefusedByOwner
<1> DEFINE Refused ==
      \A p \in Pid :
        pc[p] = "read" /\ pc'[p] = "unclaimed" /\ life'[p] = "server"
          => \E q \in Pid \ {p} :
               /\ Names(held[p], q) /\ Alive(q)
               /\ q \in Recyclable \/ (Server(q) /\ pc[q] \in {"owner", "unlink", "freed"})
<1>1. SeatInit => NamedHaveClaimed
  BY SeatAssumption DEF SeatInit, NamedHaveClaimed, Mentioned, Names
<1>2. SeatTypeOK /\ NamedHaveClaimed /\ [SeatNext]_seatVars => [Refused]_seatVars
  <2> SUFFICES ASSUME SeatTypeOK, NamedHaveClaimed, SeatNext,
                      NEW p \in Pid, pc[p] = "read", pc'[p] = "unclaimed", life'[p] = "server"
               PROVE  \E q \in Pid \ {p} :
                        /\ Names(held[p], q) /\ Alive(q)
                        /\ q \in Recyclable \/ (Server(q) /\ pc[q] \in {"owner", "unlink", "freed"})
    BY DEF seatVars
  <2>1. PICK r \in Pid : Step(r)
    BY DEF SeatNext
  <2>2. Refuse(p)
    BY <2>1
    DEF Step, Spawn, SpawnForeign, Die, Quit, Ended, ReadLock, ShareSeat, Refuse, Truncate, Decided, WriteLock,
        BeginShutdown, ReleaseRead, Unlink, SeatTypeOK
  <2>3. held[p] \in Lock /\ held[p].pid \in Pid \ {p} /\ Alive(held[p].pid)
    BY <2>2 DEF Refuse, HeldByOther, Lock
  <2>4. held[p].pid \in Recyclable \/ HasClaimed(held[p].pid)
    BY <2>3 DEF NamedHaveClaimed, Mentioned, Names
  <2> QED BY <2>3, <2>4 DEF HasClaimed, Alive, Names
<1>3. SeatTypeOK /\ NamedHaveClaimed /\ [SeatNext]_seatVars => NamedHaveClaimed'
  BY NamesAreClaims
<1> QED BY <1>1, <1>2, <1>3, TypeCorrect, PTL DEF SeatSpec, RefusedByOwner

=============================================================================
