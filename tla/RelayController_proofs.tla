----------------------- MODULE RelayController_proofs -----------------------
(***************************************************************************)
(* What the desktop controller shows is true however its calls overlap,    *)
(* and while no two of them meet at an await that writes the stack it is   *)
(* one node of the mesh, for any number of calls and of attempts.          *)
(***************************************************************************)
EXTENDS RelayController, TLAPS

\* Some stop() is between what it clears and the status it emits.
Stopping == \E c \in Call : pc[c] \in {"stopping", "restarting"}

\* A controller that is not running has said so, or a stop() is about to.
SaysSo == ~running => Stopping \/ status = "stopped"

\* A start that is in its loop has counted an attempt.
Counted ==
  \A c \in Call : pc[c] \in {"identity", "connect", "cleaning", "backoff"} => att[c] # 0

Typed == TypeOK /\ Counted

IInv == Typed /\ (timer => running) /\ SaysSo

\* The launch of the app satisfies the invariant.
LEMMA InitIInv == Init => IInv
<1> SUFFICES ASSUME Init PROVE IInv
  OBVIOUS
<1> USE ControllerAssumption DEF Init
<1>1. TypeOK
  <2>1. 0 \in 0 .. MaxAttempts /\ 0 \in 0 .. Calls
    OBVIOUS
  <2> QED BY <2>1 DEF TypeOK, PC
<1>1b. Counted
  BY DEF Counted
<1>2. (timer => running) /\ SaysSo
  BY DEF SaysSo
<1> QED BY <1>1, <1>1b, <1>2 DEF IInv, Typed

\* The stack a start builds is one of the stacks.
LEMMA BuiltIsStack ==
  ASSUME NEW c \in Call, att[c] \in 0 .. MaxAttempts, att[c] # 0
  PROVE  Built(c) \in Stack
<1>1. att[c] \in 1 .. MaxAttempts
  BY ControllerAssumption
<1> QED BY <1>1 DEF Built, Stack

\* No call is the call 0, which stands for nobody.
LEMMA CallIsToken == ASSUME NEW c \in Call PROVE c \in 0 .. Calls
  BY ControllerAssumption DEF Call

\* A step of a call's own pc.
LEMMA Moves ==
  ASSUME TypeOK, NEW c \in Call, NEW p \in PC, At(c, p)
  PROVE  /\ pc' \in [Call -> PC] /\ pc'[c] = p
         /\ \A d \in Call \ {c} : pc'[d] = pc[d]
  BY DEF At, TypeOK

\* Every step keeps the types, and the loops counted.
LEMMA TypedKept == Typed /\ [Next]_vars => Typed'
<1> SUFFICES ASSUME Typed, [Next]_vars PROVE Typed'
  OBVIOUS
<1>0. TypeOK /\ Counted
  BY DEF Typed
<1> USE <1>0, ControllerAssumption
<1>1. ASSUME NEW c \in Call, Issue(c) PROVE Typed'
  <2>1. PICK k \in {"stopping", "restarting"} :
          At(c, k) /\ clash' = clash \cup Meets(k)
    BY <1>1 DEF Issue
  <2>2. k \in PC
    BY DEF PC
  <2>3. /\ pc' \in [Call -> PC] /\ pc'[c] = k
        /\ \A d \in Call \ {c} : pc'[d] = pc[d]
    BY <2>1, <2>2, Moves
  <2>4. clash' \in SUBSET {"stack", "host"}
    BY <2>1 DEF TypeOK, Meets
  <2>5. TypeOK'
    <3>1. victim' \in [Call -> Stack \cup {NoStack}]
      BY <1>1 DEF Issue, TypeOK
    <3>2. UNCHANGED <<att, peer, status, starting, mesh, host, served>>
      BY <1>1 DEF Issue, StopFlags, stacks, hosts
    <3>3. token' = 0 /\ 0 \in 0 .. Calls
      BY <1>1 DEF Issue, StopFlags
    <3>4. running' \in BOOLEAN /\ timer' \in BOOLEAN /\ hosted' \in BOOLEAN
      BY <1>1, Zenon DEF Issue, StopFlags
    <3> QED BY <2>3, <2>4, <3>1, <3>2, <3>3, <3>4 DEF TypeOK
  <2>6. Counted'
    BY <1>1, <2>3 DEF Issue, Counted
  <2> QED BY <2>5, <2>6 DEF Typed
<1>2. ASSUME NEW c \in Call, TornDown(c), NEW p \in PC, At(c, p),
             p \in {"identity", "connect", "cleaning", "backoff"} => att[c] # 0,
             status' \in {"stopped", "working"},
             UNCHANGED <<att, running, token, timer, hosted, hosts, clash>>
      PROVE  Typed'
  <2>1. /\ pc' \in [Call -> PC] /\ pc'[c] = p
        /\ \A d \in Call \ {c} : pc'[d] = pc[d]
    BY <1>2, Moves
  <2>2. TypeOK'
    BY <1>2, <2>1 DEF TornDown, hosts, TypeOK
  <2>3. Counted'
    BY <1>2, <2>1 DEF Counted
  <2> QED BY <2>2, <2>3 DEF Typed
<1>3. ASSUME NEW c \in Call, Stopped(c) PROVE Typed'
  <2>1. CASE pc[c] = "restarting"
    BY <1>2, <1>3, <2>1 DEF Stopped, PC
  <2>2. CASE pc[c] # "restarting"
    BY <1>2, <1>3, <2>2 DEF Stopped, PC
  <2> QED BY <2>1, <2>2
<1>4. ASSUME NEW c \in Call, Cleaned(c) PROVE Typed'
  <2>1. att[c] # 0
    BY <1>4 DEF Cleaned, Counted
  <2>2. CASE Current(c)
    BY <1>2, <1>4, <2>1, <2>2 DEF Cleaned, PC
  <2>3. CASE ~Current(c)
    BY <1>2, <1>4, <2>3 DEF Cleaned, PC, TypeOK
  <2> QED BY <2>2, <2>3
<1>5. ASSUME NEW c \in Call, NEW p \in PC, At(c, p), att' \in [Call -> 0 .. MaxAttempts],
             \A d \in Call \ {c} : att'[d] = att[d],
             p \in {"identity", "connect", "cleaning", "backoff"} => att'[c] # 0
      PROVE  pc' \in [Call -> PC] /\ Counted'
  <2>1. /\ pc' \in [Call -> PC] /\ pc'[c] = p
        /\ \A d \in Call \ {c} : pc'[d] = pc[d]
    BY <1>5, Moves
  <2> QED BY <1>5, <2>1 DEF Counted
<1>6. ASSUME NEW c \in Call, TakeToken(c) PROVE Typed'
  <2>1. At(c, "identity") /\ "identity" \in PC
    BY <1>6 DEF TakeToken, PC
  <2>2. /\ att' \in [Call -> 0 .. MaxAttempts] /\ att'[c] = 1
        /\ \A d \in Call \ {c} : att'[d] = att[d]
    BY <1>6 DEF TakeToken, TypeOK
  <2>3. pc' \in [Call -> PC] /\ Counted'
    BY <1>5, <2>1, <2>2
  <2> QED BY <1>6, <2>2, <2>3, CallIsToken DEF TakeToken, TypeOK, Typed, stacks, hosts
<1>7. ASSUME NEW c \in Call, Build(c) PROVE Typed'
  <2>1. At(c, "connect") /\ "connect" \in PC /\ UNCHANGED att
    BY <1>7 DEF Build, PC
  <2>2. att[c] # 0
    BY <1>7 DEF Build, Counted
  <2>3. Built(c) \in Stack
    BY <2>2, BuiltIsStack DEF TypeOK
  <2>4. pc' \in [Call -> PC] /\ Counted'
    BY <1>5, <2>1, <2>2 DEF TypeOK
  <2> QED BY <1>7, <2>3, <2>4 DEF Build, TypeOK, Typed, flags, hosts
<1>8. ASSUME NEW c \in Call, Connected(c) PROVE Typed'
  <2>1. At(c, "returned") /\ "returned" \in PC /\ UNCHANGED att
    BY <1>8 DEF Connected, PC
  <2>2. pc' \in [Call -> PC] /\ Counted'
    BY <1>5, <2>1 DEF TypeOK
  <2>3. timer' \in BOOLEAN /\ host' \in [Call -> {"none", "wait", "call", "over"}]
    BY <1>8 DEF Connected, TypeOK
  <2> QED BY <1>8, <2>2, <2>3 DEF Connected, TypeOK, Typed
<1>9. ASSUME NEW c \in Call, Caught(c) PROVE Typed'
  <2>1. At(c, "cleaning") /\ "cleaning" \in PC /\ UNCHANGED att
    BY <1>9 DEF Caught, PC
  <2>2. att[c] # 0
    BY <1>9 DEF Caught, Counted
  <2>3. pc' \in [Call -> PC] /\ Counted'
    BY <1>5, <2>1, <2>2 DEF TypeOK
  <2> QED BY <1>9, <2>3 DEF Caught, TypeOK, Typed, flags, hosts
<1>10. ASSUME NEW c \in Call, BackoffOver(c) PROVE Typed'
  <2>1. pc[c] = "backoff" /\ UNCHANGED <<victim, peer, flags, stacks, hosts, clash>>
    BY <1>10 DEF BackoffOver
  <2>2. CASE Current(c) /\ att[c] < MaxAttempts /\ At(c, "identity")
             /\ att' = [att EXCEPT ![c] = @ + 1]
    <3>1. att[c] \in 0 .. MaxAttempts
      BY DEF TypeOK
    <3>2. att[c] + 1 \in 0 .. MaxAttempts /\ att[c] + 1 # 0
      BY <2>2, <3>1
    <3>3. /\ att' \in [Call -> 0 .. MaxAttempts] /\ att'[c] # 0
          /\ \A d \in Call \ {c} : att'[d] = att[d]
      BY <2>2, <3>2 DEF TypeOK
    <3>4. pc' \in [Call -> PC] /\ Counted'
      BY <1>5, <2>2, <3>3 DEF PC
    <3> QED BY <2>1, <3>3, <3>4 DEF TypeOK, Typed, flags, stacks, hosts
  <2>3. CASE ~Current(c) /\ At(c, "returned") /\ UNCHANGED att
    <3>1. pc' \in [Call -> PC] /\ Counted'
      BY <1>5, <2>3 DEF TypeOK, PC
    <3> QED BY <2>1, <2>3, <3>1 DEF TypeOK, Typed, flags, stacks, hosts
  <2> QED BY <1>10, <2>2, <2>3 DEF BackoffOver
<1>11. ASSUME NEW c \in Call, HostReady(c) \/ Hosted(c) PROVE Typed'
  <2>1. host' \in [Call -> {"none", "wait", "call", "over"}]
        /\ victim' \in [Call -> Stack \cup {NoStack}]
        /\ hosted' \in BOOLEAN /\ served' \in Stack \cup {NoStack}
    BY <1>11 DEF HostReady, Hosted, TypeOK, flags
  <2>2. UNCHANGED <<pc, att, peer, running, token, timer, status, stacks, clash>>
    BY <1>11 DEF HostReady, Hosted, flags
  <2> QED BY <2>1, <2>2 DEF TypeOK, Typed, Counted, stacks
<1>12. ASSUME NEW s \in Stack, Join(s) PROVE Typed'
  BY <1>12 DEF Join, TypeOK, Typed, Counted, calls, flags, hosts
<1>13. CASE Tick
  BY <1>13 DEF Tick, TypeOK, Typed, Counted, calls, stacks, hosts
<1>14. CASE UNCHANGED vars
  BY <1>14 DEF vars, TypeOK, Typed, Counted, calls, flags, stacks, hosts
<1> QED BY <1>1, <1>3, <1>4, <1>6, <1>7, <1>8, <1>9, <1>10, <1>11, <1>12, <1>13, <1>14
        DEF Next, Step

\* A call that moves on from anywhere but its stop() leaves the others there.
LEMMA StillStopping ==
  ASSUME TypeOK, NEW c \in Call, NEW p \in PC, At(c, p),
         pc[c] \notin {"stopping", "restarting"}, Stopping
  PROVE  Stopping'
<1>1. PICK d \in Call : pc[d] \in {"stopping", "restarting"}
  BY DEF Stopping
<1>2. d \in Call \ {c}
  BY <1>1
<1>3. pc'[d] = pc[d]
  BY <1>2, Moves
<1> QED BY <1>1, <1>3 DEF Stopping

\* Every step keeps the health loop within running, and the status true.
LEMMA NextKeepsIInv == IInv /\ [Next]_vars => IInv'
<1> SUFFICES ASSUME IInv, [Next]_vars PROVE IInv'
  OBVIOUS
<1>0. Typed /\ TypeOK /\ Typed' /\ running \in BOOLEAN /\ timer \in BOOLEAN
  BY TypedKept DEF IInv, Typed, TypeOK
<1> SUFFICES (timer' => running') /\ SaysSo'
  BY <1>0 DEF IInv
<1> USE <1>0
<1>1. ASSUME NEW c \in Call, Issue(c) PROVE (timer' => running') /\ SaysSo'
  <2>1. PICK k \in {"stopping", "restarting"} : At(c, k)
    BY <1>1 DEF Issue
  <2>2. pc'[c] = k
    BY <2>1, Moves DEF PC
  <2>3. Stopping'
    BY <2>2 DEF Stopping
  <2> QED BY <1>1, <2>3 DEF Issue, StopFlags, SaysSo
<1>2. ASSUME NEW c \in Call, Stopped(c) PROVE (timer' => running') /\ SaysSo'
  BY <1>2 DEF Stopped, IInv, SaysSo
<1>3. ASSUME NEW c \in Call, TakeToken(c) PROVE (timer' => running') /\ SaysSo'
  BY <1>3 DEF TakeToken, SaysSo
<1>4. ASSUME NEW c \in Call, NEW p \in PC, At(c, p),
             pc[c] \notin {"stopping", "restarting"},
             running' = running, status' = status, timer' => running
      PROVE  (timer' => running') /\ SaysSo'
  <2>1. Stopping => Stopping'
    BY <1>4, StillStopping
  <2> QED BY <1>4, <2>1 DEF IInv, SaysSo
<1>5. ASSUME NEW c \in Call, Build(c) \/ Caught(c) PROVE (timer' => running') /\ SaysSo'
  BY <1>4, <1>5 DEF Build, Caught, flags, PC, IInv
<1>6. ASSUME NEW c \in Call, Connected(c) PROVE (timer' => running') /\ SaysSo'
  BY <1>4, <1>6 DEF Connected, Current, PC, IInv
<1>7. ASSUME NEW c \in Call, BackoffOver(c) PROVE (timer' => running') /\ SaysSo'
  BY <1>4, <1>7 DEF BackoffOver, flags, PC, IInv
<1>8. ASSUME NEW c \in Call, Cleaned(c) PROVE (timer' => running') /\ SaysSo'
  <2>1. CASE Current(c)
    BY <1>8, <2>1 DEF Cleaned, Current, IInv, SaysSo
  <2>2. CASE ~Current(c)
    BY <1>4, <1>8, <2>2 DEF Cleaned, PC, IInv
  <2> QED BY <2>1, <2>2
<1>9. CASE Tick
  BY <1>9 DEF Tick, IInv, SaysSo, Stopping, calls
<1>10. ASSUME NEW c \in Call, HostReady(c) \/ Hosted(c) PROVE (timer' => running') /\ SaysSo'
  BY <1>10 DEF HostReady, Hosted, flags, IInv, SaysSo, Stopping
<1>11. ASSUME NEW s \in Stack, Join(s) PROVE (timer' => running') /\ SaysSo'
  BY <1>11 DEF Join, calls, flags, IInv, SaysSo, Stopping
<1>12. CASE UNCHANGED vars
  BY <1>12 DEF vars, calls, flags, IInv, SaysSo, Stopping
<1> QED BY <1>1, <1>2, <1>3, <1>5, <1>6, <1>7, <1>8, <1>9, <1>10, <1>11, <1>12
        DEF Next, Step

\* The invariant holds in every reachable state.
LEMMA Invariance == Spec => []IInv
  BY InitIInv, NextKeepsIInv, PTL DEF Spec

\* Every reachable state of the controller is well typed.
THEOREM TypeCorrect == Spec => []TypeOK
<1>1. IInv => TypeOK
  BY DEF IInv, Typed
<1> QED BY <1>1, Invariance, PTL

\* However calls overlap, the health loop runs only while the controller is
\* running, and a controller at rest that is stopped shows it.
THEOREM StatusNeverLies == Spec => []StatusIsTrue
<1>1. IInv => StatusIsTrue
  <2> SUFFICES ASSUME IInv, Quiet, ~running PROVE status = "stopped"
    BY DEF IInv, StatusIsTrue
  <2>1. ~Stopping
    BY DEF Quiet, Stopping
  <2> QED BY <2>1 DEF IInv, SaysSo
<1> QED BY <1>1, Invariance, PTL

-----------------------------------------------------------------------------
(* One node: while no call meets another at an await that writes the stack, *)
(* one call at a time has a stack in hand, but for a stop that comes while  *)
(* a start connects or cleans up; only the call that holds the token goes   *)
(* on; what is in the mesh, or may still get there, is this.peer; and once  *)
(* a stop is through there is neither.                                      *)

Apart == "stack" \notin clash
Busy  == {"stopping", "restarting", "modules", "identity", "connect", "cleaning"}
Loop  == {"identity", "connect", "cleaning", "backoff", "returned"}
Tears == {"stopping", "restarting", "cleaning"}
Gone  == peer = NoStack /\ mesh = {} /\ starting = {}

Late(p, q) == p = "stopping" /\ q \in {"connect", "cleaning"}

OneBusy ==
  \A c, d \in Call : (c # d /\ pc[c] \in Busy /\ pc[d] \in Busy) => Late(pc[c], pc[d]) \/ Late(pc[d], pc[c])

TokenAlone ==
  token # 0 => pc[token] \in Loop /\ \A d \in Call : d # token => pc[d] \notin Busy

InHand ==
  /\ mesh \cup starting \subseteq {peer}
  /\ \A c \in Call : pc[c] \in Tears => victim[c] = peer \/ peer = NoStack
  /\ token = 0 => Gone \/ Stopping

Looping ==
  /\ \A c \in Call : pc[c] = "identity" => token = c
  /\ (token # 0 /\ pc[token] \in {"identity", "backoff"}) => Gone
  /\ (token # 0 /\ pc[token] = "connect") => peer = Built(token) /\ peer \in mesh \cup starting
  /\ (token # 0 /\ pc[token] = "returned") => peer \in mesh /\ timer

HostsIt ==
  /\ \A c \in Call : host[c] = "call" => token = c /\ victim[c] = peer
  /\ hosted => token # 0 /\ pc[token] = "returned" /\ served = peer

NodeIInv ==
  /\ running <=> token # 0
  /\ \A c \in Call : host[c] # "none" => pc[c] = "returned"
  /\ Apart => OneBusy /\ TokenAlone /\ InHand /\ Looping
  /\ clash = {} => HostsIt

\* No number of a start stands for no stack.
LEMMA NoStackIsNone == NoStack \notin Stack
<1>1. \A s \in Stack : s[1] \in Call
  BY DEF Stack
<1>2. 0 \notin Call /\ NoStack[1] = 0
  BY DEF Call, NoStack
<1> QED BY <1>1, <1>2

\* What the other conjuncts say of a call with the token.
LEMMA TokenIsCall == ASSUME TypeOK, token # 0 PROVE token \in Call
  BY ControllerAssumption DEF TypeOK, Call

\* The host loop is not one of the calls that are at work on the node.
LEMMA LoopAndBusy ==
  /\ Busy \cup Loop \subseteq PC /\ Loop \cap {"idle", "stopping", "restarting", "modules"} = {}
  /\ Busy \ Loop = {"stopping", "restarting", "modules"}
  /\ "backoff" \notin Busy /\ "returned" \notin Busy /\ "idle" \notin Busy
  BY DEF Busy, Loop, PC

\* A teardown that comes back leaves no stack anywhere.
LEMMA TearsDown ==
  ASSUME TypeOK, InHand, NEW c \in Call, pc[c] \in Tears, TornDown(c)
  PROVE  Gone'
<1>1. NoStack \notin mesh \cup starting
  BY NoStackIsNone DEF TypeOK
<1>2. /\ mesh \cup starting \subseteq {peer} /\ (victim[c] = peer \/ peer = NoStack)
      /\ peer' = (IF victim[c] = NoStack THEN peer ELSE NoStack)
      /\ mesh' = mesh \ {victim[c]} /\ starting' = starting \ {victim[c]}
  BY DEF InHand, TornDown
<1>3. CASE peer = NoStack
  BY <1>1, <1>2, <1>3 DEF Gone
<1>4. CASE victim[c] = peer
  BY <1>1, <1>2, <1>4 DEF Gone
<1> QED BY <1>2, <1>3, <1>4

\* Calls that are not in hand of a stack together stay so when one moves on
\* alone.
LEMMA OneBusyMoves ==
  ASSUME TypeOK, OneBusy, NEW c \in Call, NEW p \in PC, At(c, p),
         \A d \in Call \ {c} : pc[d] \in Busy /\ p \in Busy => Late(p, pc[d]) \/ Late(pc[d], p)
  PROVE  OneBusy'
<1>1. pc'[c] = p /\ \A d \in Call \ {c} : pc'[d] = pc[d]
  BY Moves
<1> SUFFICES ASSUME NEW a \in Call, NEW b \in Call, a # b, pc'[a] \in Busy, pc'[b] \in Busy
             PROVE  Late(pc'[a], pc'[b]) \/ Late(pc'[b], pc'[a])
  BY DEF OneBusy
<1>2. CASE a # c /\ b # c
  BY <1>1, <1>2 DEF OneBusy
<1>3. CASE a = c
  BY <1>1, <1>3
<1>4. CASE b = c
  BY <1>1, <1>4
<1> QED BY <1>2, <1>3, <1>4

\* A call is issued.
LEMMA IssueKeepsNode == ASSUME Typed, NodeIInv, NEW c \in Call, Issue(c) PROVE NodeIInv'
<1>0. TypeOK
  BY DEF Typed
<1>1. PICK k \in {"stopping", "restarting"} : At(c, k) /\ clash' = clash \cup Meets(k)
  BY DEF Issue
<1>2. /\ pc[c] = "idle" /\ victim' = [victim EXCEPT ![c] = peer]
      /\ token' = 0 /\ running' = FALSE /\ hosted' = FALSE /\ timer' = FALSE
      /\ UNCHANGED <<att, peer, mesh, starting, host, served>>
  BY DEF Issue, StopFlags, stacks, hosts
<1>3. pc'[c] = k /\ k \in PC /\ \A d \in Call \ {c} : pc'[d] = pc[d]
  BY <1>0, <1>1, Moves DEF PC
<1>4. victim'[c] = peer /\ \A d \in Call \ {c} : victim'[d] = victim[d]
  BY <1>0, <1>2 DEF TypeOK
<1>5. \A d \in Call : host'[d] # "none" => pc'[d] = "returned"
  BY <1>2, <1>3 DEF NodeIInv
<1>6. ASSUME Apart' PROVE OneBusy' /\ TokenAlone' /\ InHand' /\ Looping'
  <2>1. Apart /\ "stack" \notin Meets(k)
    BY <1>1, <1>6 DEF Apart
  <2>2. \A d \in Call : /\ pc[d] \notin {"stopping", "restarting", "modules", "identity", "cleaning"}
                        /\ k = "restarting" => pc[d] # "connect"
    BY <2>1 DEF Meets
  <2>3. OneBusy /\ InHand
    BY <2>1 DEF NodeIInv
  <2>4. \A d \in Call \ {c} : pc[d] \in Busy => Late(k, pc[d])
    BY <2>2 DEF Busy, Late
  <2>5. OneBusy'
    BY <1>0, <1>1, <1>3, <2>3, <2>4, OneBusyMoves
  <2>6. InHand'
    <3>1. \A d \in Call : pc'[d] \in Tears => victim'[d] = peer
      BY <1>3, <1>4, <2>2 DEF Tears
    <3>2. Stopping'
      BY <1>3 DEF Stopping
    <3> QED BY <1>2, <2>3, <3>1, <3>2 DEF InHand
  <2>7. Looping'
    BY <1>2, <1>3, <2>2 DEF Looping
  <2> QED BY <1>2, <2>5, <2>6, <2>7 DEF TokenAlone
<1>7. ASSUME clash' = {} PROVE HostsIt'
  <2>1. \A d \in Call : host[d] # "call"
    BY <1>1, <1>7 DEF Meets
  <2> QED BY <1>2, <2>1 DEF HostsIt
<1> QED BY <1>2, <1>5, <1>6, <1>7 DEF NodeIInv

\* A stop is through.
LEMMA StoppedKeepsNode == ASSUME Typed, NodeIInv, NEW c \in Call, Stopped(c) PROVE NodeIInv'
<1>0. TypeOK
  BY DEF Typed
<1> DEFINE p == IF pc[c] = "restarting" THEN "modules" ELSE "returned"
<1>1. /\ pc[c] \in {"stopping", "restarting"} /\ TornDown(c) /\ At(c, p)
      /\ UNCHANGED <<att, running, token, timer, hosted, host, served, clash>>
  BY DEF Stopped, hosts
<1>2. p \in PC /\ p \in {"modules", "returned"} /\ (p = "modules" <=> pc[c] = "restarting")
  BY DEF PC
<1> HIDE DEF p
<1>3. pc'[c] = p /\ \A d \in Call \ {c} : pc'[d] = pc[d]
  BY <1>0, <1>1, <1>2, Moves
<1>4. \A d \in Call \ {c} : victim'[d] = victim[d]
  BY <1>0, <1>1 DEF TornDown, TypeOK
<1>5. \A d \in Call : host'[d] # "none" => pc'[d] = "returned"
  BY <1>1, <1>3 DEF NodeIInv
<1>6. ASSUME Apart' PROVE OneBusy' /\ TokenAlone' /\ InHand' /\ Looping' /\ token = 0
  <2>1. OneBusy /\ TokenAlone /\ InHand /\ Looping
    BY <1>1, <1>6 DEF NodeIInv, Apart
  <2>2. pc[c] \in Busy \ Loop /\ pc[c] \in Tears
    BY <1>1 DEF Busy, Loop, Tears
  <2>3. token = 0
    <3>1. token # 0 => token \in Call
      BY <1>0, TokenIsCall
    <3> QED BY <2>1, <2>2, <3>1 DEF TokenAlone
  <2>4. Gone'
    BY <1>0, <1>1, <2>1, <2>2, TearsDown
  <2>5. \A d \in Call \ {c} : pc[d] \in Busy /\ p \in Busy => FALSE
    BY <1>1, <1>2, <2>1, <2>2 DEF OneBusy, Late, Busy
  <2>6. OneBusy'
    BY <1>0, <1>1, <1>2, <2>1, <2>5, OneBusyMoves
  <2>7. InHand'
    BY <2>4 DEF InHand, Gone
  <2>8. Looping'
    BY <1>1, <1>2, <1>3, <2>1, <2>3, <2>4 DEF Looping, Gone
  <2> QED BY <1>1, <2>3, <2>6, <2>7, <2>8 DEF TokenAlone
<1>7. ASSUME clash' = {} PROVE HostsIt'
  <2>1. HostsIt /\ token = 0
    BY <1>1, <1>6, <1>7 DEF NodeIInv, Apart
  <2>2. c \in Call /\ \A d \in Call : host[d] # "call"
    <3>1. \A d \in Call : d # 0
      BY DEF Call
    <3> QED BY <2>1, <3>1 DEF HostsIt
  <2> QED BY <1>1, <2>1, <2>2 DEF HostsIt
<1> QED BY <1>1, <1>5, <1>6, <1>7 DEF NodeIInv

\* A start takes the token.
LEMMA TokenKeepsNode == ASSUME Typed, NodeIInv, NEW c \in Call, TakeToken(c) PROVE NodeIInv'
<1>0. TypeOK /\ c # 0
  BY DEF Typed, Call
<1>1. /\ pc[c] = "modules" /\ At(c, "identity") /\ token' = c /\ running' = TRUE
      /\ UNCHANGED <<victim, peer, timer, hosted, mesh, starting, host, served, clash>>
  BY DEF TakeToken, stacks, hosts
<1>3. pc'[c] = "identity" /\ "identity" \in PC /\ \A d \in Call \ {c} : pc'[d] = pc[d]
  BY <1>0, <1>1, Moves DEF PC
<1>5. \A d \in Call : host'[d] # "none" => pc'[d] = "returned"
  BY <1>1, <1>3 DEF NodeIInv
<1>6. ASSUME Apart' PROVE OneBusy' /\ TokenAlone' /\ InHand' /\ Looping' /\ token = 0
  <2>1. OneBusy /\ TokenAlone /\ InHand /\ Looping
    BY <1>1, <1>6 DEF NodeIInv, Apart
  <2>2. pc[c] \in Busy \ Loop
    BY <1>1 DEF Busy, Loop
  <2>3. token = 0
    <3>1. token # 0 => token \in Call
      BY <1>0, TokenIsCall
    <3> QED BY <2>1, <2>2, <3>1 DEF TokenAlone
  <2>4. \A d \in Call \ {c} : pc[d] \notin Busy
    BY <1>1, <2>1, <2>2 DEF OneBusy, Late
  <2>5. ~Stopping
    BY <1>1, <2>4 DEF Stopping, Busy
  <2>6. Gone /\ Gone'
    BY <1>1, <2>1, <2>3, <2>5 DEF InHand, Gone
  <2>7. OneBusy'
    BY <1>0, <1>1, <1>3, <2>1, <2>4, OneBusyMoves
  <2>8. TokenAlone'
    BY <1>1, <1>3, <2>4 DEF TokenAlone, Loop
  <2>9. InHand'
    BY <1>0, <1>1, <2>6 DEF InHand, Gone
  <2>10. Looping'
    <3>1. \A d \in Call \ {c} : pc'[d] # "identity"
      BY <1>3, <2>4 DEF Busy
    <3> QED BY <1>1, <1>3, <2>6, <3>1 DEF Looping
  <2> QED BY <2>3, <2>7, <2>8, <2>9, <2>10
<1>7. ASSUME clash' = {} PROVE HostsIt'
  <2>1. HostsIt /\ token = 0
    BY <1>1, <1>6, <1>7 DEF NodeIInv, Apart
  <2>2. \A d \in Call : host[d] # "call"
    <3>1. \A d \in Call : d # 0
      BY DEF Call
    <3> QED BY <2>1, <3>1 DEF HostsIt
  <2> QED BY <1>1, <2>1, <2>2 DEF HostsIt
<1> QED BY <1>0, <1>1, <1>5, <1>6, <1>7 DEF NodeIInv

\* What a step of the call with the token, alone in its loop, keeps.
LEMMA LoopStep ==
  ASSUME Typed, NodeIInv, NEW c \in Call, NEW p \in PC, At(c, p), pc[c] \in Busy \cup {"backoff"},
         p \in {"identity", "connect", "cleaning", "backoff", "returned"},
         UNCHANGED <<token, running, clash, hosted, served>>
  PROVE  /\ pc'[c] = p /\ \A d \in Call \ {c} : pc'[d] = pc[d]
         /\ \A d \in Call : host[d] # "none" => pc'[d] = "returned" /\ d # c
         /\ Apart => TokenAlone' \/ (p \in Busy /\ token # c)
<1>0. TypeOK
  BY DEF Typed
<1>1. pc'[c] = p /\ \A d \in Call \ {c} : pc'[d] = pc[d]
  BY <1>0, Moves
<1>2. pc[c] # "returned"
  BY DEF Busy
<1>3. \A d \in Call : host[d] # "none" => pc'[d] = "returned" /\ d # c
  BY <1>1, <1>2 DEF NodeIInv
<1>4. ASSUME Apart, ~(p \in Busy /\ token # c) PROVE TokenAlone'
  <2>1. TokenAlone
    BY <1>4 DEF NodeIInv
  <2>2. p \in Loop
    BY DEF Loop
  <2> SUFFICES ASSUME token # 0
               PROVE  pc'[token] \in Loop /\ \A d \in Call : d # token => pc'[d] \notin Busy
    BY DEF TokenAlone
  <2>3. token \in Call
    BY <1>0, TokenIsCall
  <2> QED BY <1>1, <1>4, <2>1, <2>2, <2>3 DEF TokenAlone
<1> QED BY <1>1, <1>3, <1>4

\* No peer.host() is under way, and nothing is hosted, while the call with
\* the token has not returned.
LEMMA NoHostYet ==
  ASSUME NodeIInv, clash = {}, NEW c \in Call, token = c, pc[c] # "returned"
  PROVE  ~hosted /\ \A d \in Call : host[d] # "call"
  BY DEF NodeIInv, HostsIt

\* The stack is built.
LEMMA BuildKeepsNode == ASSUME Typed, NodeIInv, NEW c \in Call, Build(c) PROVE NodeIInv'
<1>0. TypeOK /\ c # 0
  BY DEF Typed, Call
<1>1. /\ pc[c] = "identity" /\ At(c, "connect") /\ peer' = Built(c) /\ starting' = starting \cup {Built(c)}
      /\ UNCHANGED <<att, victim, running, token, timer, hosted, status, mesh, host, served, clash>>
  BY DEF Build, flags, hosts
<1>2. "connect" \in PC /\ pc[c] \in Busy
  BY <1>1 DEF PC, Busy
<1>3. /\ pc'[c] = "connect" /\ \A d \in Call \ {c} : pc'[d] = pc[d]
      /\ \A d \in Call : host[d] # "none" => pc'[d] = "returned" /\ d # c
      /\ Apart => TokenAlone' \/ token # c
  BY <1>1, <1>2, LoopStep
<1>4. ASSUME Apart PROVE OneBusy' /\ TokenAlone' /\ InHand' /\ Looping' /\ token = c
  <2>1. OneBusy /\ TokenAlone /\ InHand /\ Looping
    BY <1>4 DEF NodeIInv
  <2>2. token = c /\ Gone
    BY <1>0, <1>1, <2>1 DEF Looping
  <2>3. \A d \in Call \ {c} : pc[d] \notin Busy
    BY <1>0, <2>1, <2>2 DEF TokenAlone
  <2>4. OneBusy'
    BY <1>0, <1>1, <1>2, <2>1, <2>3, OneBusyMoves
  <2>5. InHand'
    <3>1. \A d \in Call : pc'[d] \notin Tears
      BY <1>3, <2>3 DEF Tears, Busy
    <3> QED BY <1>0, <1>1, <2>2, <3>1 DEF InHand, Gone
  <2>6. Looping'
    <3>1. \A d \in Call : pc'[d] # "identity"
      BY <1>3, <2>3 DEF Busy
    <3>2. token' = c /\ pc'[token'] = "connect" /\ peer' = Built(token)' /\ peer' \in mesh' \cup starting'
      BY <1>1, <1>3, <2>2 DEF Built
    <3>3. pc'[token'] \notin {"identity", "backoff", "returned"}
      BY <3>2
    <3> QED BY <3>1, <3>2, <3>3 DEF Looping, Built
  <2> QED BY <1>3, <1>4, <2>2, <2>4, <2>5, <2>6
<1>5. ASSUME clash' = {} PROVE HostsIt'
  <2>1. clash = {} /\ token = c
    BY <1>1, <1>4, <1>5 DEF Apart
  <2> QED BY <1>1, <2>1, NoHostYet DEF HostsIt
<1> QED BY <1>1, <1>3, <1>4, <1>5 DEF NodeIInv, Apart

\* The loop comes through, or finds that it is no longer wanted.
LEMMA ConnectedKeepsNode == ASSUME Typed, NodeIInv, NEW c \in Call, Connected(c) PROVE NodeIInv'
<1>0. TypeOK /\ c # 0
  BY DEF Typed, Call
<1>1. /\ pc[c] = "connect" /\ (Built(c) \in mesh \/ Built(c) \notin starting)
      /\ starting' = starting \ {Built(c)} /\ At(c, "returned")
      /\ UNCHANGED <<att, victim, peer, running, token, hosted, mesh, served, clash>>
      /\ Current(c) => timer' = TRUE /\ host' = [host EXCEPT ![c] = "wait"]
      /\ ~Current(c) => timer' = timer /\ host' = host
  BY DEF Connected
<1>2. "returned" \in PC /\ pc[c] \in Busy
  BY <1>1 DEF PC, Busy
<1>3. /\ pc'[c] = "returned" /\ \A d \in Call \ {c} : pc'[d] = pc[d]
      /\ \A d \in Call : host[d] # "none" => pc'[d] = "returned" /\ d # c
      /\ Apart => TokenAlone'
  BY <1>1, <1>2, LoopStep, LoopAndBusy
<1>4. /\ \A d \in Call : host'[d] # "none" => pc'[d] = "returned"
      /\ \A d \in Call : host'[d] = "call" => host[d] = "call"
  BY <1>0, <1>1, <1>3 DEF TypeOK
<1>5. Current(c) <=> token = c
  BY <1>0 DEF NodeIInv, Current
<1>6. ASSUME Apart PROVE OneBusy' /\ InHand' /\ Looping'
  <2>1. OneBusy /\ TokenAlone /\ InHand /\ Looping
    BY <1>6 DEF NodeIInv
  <2>2. OneBusy'
    BY <1>0, <1>1, <1>2, <2>1, LoopAndBusy, OneBusyMoves
  <2>3. \A d \in Call : pc'[d] \in Tears => pc[d] \in Tears
    BY <1>3 DEF Tears
  <2>4. Stopping => Stopping'
    BY <1>0, <1>1, <1>2, StillStopping
  <2>5. InHand'
    BY <1>1, <2>1, <2>3, <2>4 DEF InHand, Gone
  <2>6. CASE token = c
    <3>1. peer = Built(c) /\ peer \in mesh \cup starting
      BY <1>0, <1>1, <2>1, <2>6 DEF Looping
    <3>2. peer \in mesh
      BY <1>1, <3>1
    <3>3. Looping'
      BY <1>0, <1>1, <1>3, <1>5, <2>1, <2>6, <3>2 DEF Looping
    <3> QED BY <2>2, <2>5, <3>3
  <2>7. CASE token # c
    <3>1. token = 0
      <4>1. token # 0 => token \in Call
        BY <1>0, TokenIsCall
      <4> QED BY <1>2, <2>1, <2>7 DEF TokenAlone
    <3>2. Looping'
      BY <1>1, <1>3, <2>1, <3>1 DEF Looping
    <3> QED BY <2>2, <2>5, <3>2
  <2> QED BY <2>6, <2>7
<1>7. ASSUME clash' = {} PROVE HostsIt'
  <2>1. HostsIt /\ clash = {}
    BY <1>1, <1>7 DEF NodeIInv
  <2>2. CASE token = c
    <3>1. ~hosted /\ \A d \in Call : host[d] # "call"
      BY <1>1, <2>1, <2>2, NoHostYet
    <3> QED BY <1>1, <1>4, <3>1 DEF HostsIt
  <2>3. CASE token # c
    <3>1. \A d \in Call : host[d] = "call" => token = d /\ victim[d] = peer
      BY <2>1 DEF HostsIt
    <3>2. hosted => token # 0 /\ pc'[token] = "returned" /\ served = peer
      <4>1. token # 0 => token \in Call
        BY <1>0, TokenIsCall
      <4> QED BY <1>3, <2>1, <2>3, <4>1 DEF HostsIt
    <3> QED BY <1>1, <1>4, <3>1, <3>2 DEF HostsIt
  <2> QED BY <2>2, <2>3
<1> QED BY <1>1, <1>3, <1>4, <1>6, <1>7 DEF NodeIInv, Apart

\* The loop fails: the catch takes this.peer in hand.
LEMMA CaughtKeepsNode == ASSUME Typed, NodeIInv, NEW c \in Call, Caught(c) PROVE NodeIInv'
<1>0. TypeOK /\ c # 0
  BY DEF Typed, Call
<1>1. /\ pc[c] \in {"identity", "connect"} /\ At(c, "cleaning") /\ victim' = [victim EXCEPT ![c] = peer]
      /\ starting' \subseteq starting
      /\ UNCHANGED <<att, peer, running, token, timer, hosted, status, mesh, host, served, clash>>
  BY DEF Caught, flags, hosts
<1>2. "cleaning" \in PC /\ pc[c] \in Busy
  BY <1>1 DEF PC, Busy
<1>3. /\ pc'[c] = "cleaning" /\ \A d \in Call \ {c} : pc'[d] = pc[d]
      /\ \A d \in Call : host[d] # "none" => pc'[d] = "returned" /\ d # c
      /\ Apart => TokenAlone' \/ token # c
  BY <1>1, <1>2, LoopStep
<1>4. victim'[c] = peer /\ \A d \in Call \ {c} : victim'[d] = victim[d]
  BY <1>0, <1>1 DEF TypeOK
<1>5. ASSUME Apart PROVE OneBusy' /\ TokenAlone' /\ InHand' /\ Looping'
  <2>1. OneBusy /\ TokenAlone /\ InHand /\ Looping
    BY <1>5 DEF NodeIInv
  <2>2. token = c \/ token = 0
    <3>1. token # 0 => token \in Call
      BY <1>0, TokenIsCall
    <3> QED BY <1>2, <2>1, <3>1 DEF TokenAlone
  <2>3. TokenAlone'
    <3>1. CASE token = c
      BY <1>0, <1>1, <1>3, <2>1, <3>1 DEF TokenAlone, Loop
    <3>2. CASE token = 0
      BY <1>1, <3>2 DEF TokenAlone
    <3> QED BY <2>2, <3>1, <3>2
  <2>4. \A d \in Call \ {c} : pc[d] \in Busy => Late(pc[d], "cleaning")
    BY <1>1, <1>2, <2>1 DEF OneBusy, Late
  <2>5. OneBusy'
    BY <1>0, <1>1, <1>2, <2>1, <2>4, OneBusyMoves
  <2>6. InHand'
    <3>1. \A d \in Call : pc'[d] \in Tears => victim'[d] = peer \/ peer = NoStack
      BY <1>3, <1>4, <2>1 DEF InHand
    <3>2. Stopping => Stopping'
      BY <1>0, <1>1, <1>2, StillStopping
    <3> QED BY <1>1, <2>1, <3>1, <3>2 DEF InHand, Gone
  <2>7. Looping'
    BY <1>0, <1>1, <1>3, <2>1, <2>2 DEF Looping
  <2> QED BY <2>3, <2>5, <2>6, <2>7
<1>6. ASSUME clash' = {} PROVE HostsIt'
  <2>1. clash = {} /\ HostsIt
    BY <1>1, <1>6 DEF NodeIInv
  <2>2. \A d \in Call : host[d] = "call" => victim'[d] = victim[d]
    BY <1>3, <1>4
  <2>3. hosted => pc'[token] = pc[token]
    <3>1. token # 0 => token \in Call
      BY <1>0, TokenIsCall
    <3> QED BY <1>1, <1>3, <2>1, <3>1 DEF HostsIt
  <2> QED BY <1>1, <2>1, <2>2, <2>3 DEF HostsIt
<1> QED BY <1>1, <1>3, <1>5, <1>6 DEF NodeIInv, Apart

\* The catch's teardown is back.
LEMMA CleanedKeepsNode == ASSUME Typed, NodeIInv, NEW c \in Call, Cleaned(c) PROVE NodeIInv'
<1>0. TypeOK /\ c # 0
  BY DEF Typed, Call
<1> DEFINE p == IF Current(c) THEN "backoff" ELSE "returned"
<1>1. /\ pc[c] = "cleaning" /\ TornDown(c) /\ At(c, p)
      /\ UNCHANGED <<att, running, token, timer, hosted, host, served, clash>>
  BY DEF Cleaned, hosts
<1>2. p \in PC /\ p \in {"backoff", "returned"} /\ pc[c] \in Busy /\ (p = "backoff" <=> token = c)
  BY <1>0, <1>1 DEF PC, Busy, NodeIInv, Current
<1> HIDE DEF p
<1>3. /\ pc'[c] = p /\ \A d \in Call \ {c} : pc'[d] = pc[d]
      /\ \A d \in Call : host[d] # "none" => pc'[d] = "returned" /\ d # c
      /\ Apart => TokenAlone'
  BY <1>1, <1>2, LoopStep, LoopAndBusy
<1>4. \A d \in Call \ {c} : victim'[d] = victim[d]
  BY <1>0, <1>1 DEF TornDown, TypeOK
<1>5. ASSUME Apart PROVE OneBusy' /\ InHand' /\ Looping' /\ (token = c \/ token = 0)
  <2>1. OneBusy /\ TokenAlone /\ InHand /\ Looping
    BY <1>5 DEF NodeIInv
  <2>2. token = c \/ token = 0
    <3>1. token # 0 => token \in Call
      BY <1>0, TokenIsCall
    <3> QED BY <1>2, <2>1, <3>1 DEF TokenAlone
  <2>3. Gone'
    BY <1>0, <1>1, <2>1, TearsDown DEF Tears
  <2>4. OneBusy'
    BY <1>0, <1>1, <1>2, <2>1, LoopAndBusy, OneBusyMoves
  <2>5. InHand'
    BY <2>3 DEF InHand, Gone
  <2>6. Looping'
    BY <1>0, <1>1, <1>2, <1>3, <2>1, <2>2, <2>3 DEF Looping
  <2> QED BY <2>2, <2>4, <2>5, <2>6
<1>6. ASSUME clash' = {} PROVE HostsIt'
  <2>1. clash = {} /\ HostsIt
    BY <1>1, <1>6 DEF NodeIInv
  <2>2. token = c \/ token = 0
    BY <2>1, <1>5 DEF Apart
  <2>3. ~hosted /\ \A d \in Call : host[d] # "call"
    <3>1. \A d \in Call : d # 0
      BY DEF Call
    <3> QED BY <1>1, <2>1, <2>2, <3>1, NoHostYet DEF HostsIt
  <2> QED BY <1>1, <2>3 DEF HostsIt
<1> QED BY <1>1, <1>3, <1>5, <1>6 DEF NodeIInv, Apart

\* The backoff is over.
LEMMA BackoffKeepsNode == ASSUME Typed, NodeIInv, NEW c \in Call, BackoffOver(c) PROVE NodeIInv'
<1>0. TypeOK /\ c # 0
  BY DEF Typed, Call
<1> DEFINE p == IF Current(c) THEN "identity" ELSE "returned"
<1>1. /\ pc[c] = "backoff" /\ At(c, p)
      /\ UNCHANGED <<victim, peer, running, token, timer, hosted, status, mesh, starting, host, served, clash>>
      /\ \A d \in Call \ {c} : att'[d] = att[d]
  BY <1>0 DEF BackoffOver, flags, stacks, hosts, TypeOK
<1>2. p \in PC /\ p \in {"identity", "returned"} /\ (p = "identity" <=> token = c)
  BY <1>0 DEF PC, NodeIInv, Current
<1> HIDE DEF p
<1>3. /\ pc'[c] = p /\ \A d \in Call \ {c} : pc'[d] = pc[d]
      /\ \A d \in Call : host[d] # "none" => pc'[d] = "returned" /\ d # c
      /\ Apart => TokenAlone'
  BY <1>1, <1>2, LoopStep, LoopAndBusy
<1>5. ASSUME Apart PROVE OneBusy' /\ InHand' /\ Looping'
  <2>1. OneBusy /\ TokenAlone /\ InHand /\ Looping
    BY <1>5 DEF NodeIInv
  <2>2. token = c => \A d \in Call \ {c} : pc[d] \notin Busy
    BY <1>0, <2>1 DEF TokenAlone
  <2>3. OneBusy'
    BY <1>0, <1>1, <1>2, <2>1, <2>2, LoopAndBusy, OneBusyMoves
  <2>4. InHand'
    <3>1. Stopping => Stopping'
      BY <1>0, <1>1, <1>2, StillStopping
    <3>2. \A d \in Call : pc'[d] \in Tears => pc[d] \in Tears
      BY <1>2, <1>3 DEF Tears
    <3> QED BY <1>1, <2>1, <3>1, <3>2 DEF InHand, Gone
  <2>5. Looping'
    <3>1. CASE token = c
      BY <1>0, <1>1, <1>2, <1>3, <2>1, <3>1 DEF Looping, Gone
    <3>2. CASE token # c
      <4>1. token # 0 => token \in Call /\ pc'[token] = pc[token] /\ Built(token)' = Built(token)
        BY <1>0, <1>1, <1>3, <3>2, TokenIsCall DEF Built
      <4>2. \A d \in Call : pc'[d] = "identity" => pc[d] = "identity"
        BY <1>2, <1>3, <3>2
      <4> QED BY <1>1, <2>1, <4>1, <4>2 DEF Looping, Gone
    <3> QED BY <3>1, <3>2
  <2> QED BY <2>3, <2>4, <2>5
<1>6. ASSUME clash' = {} PROVE HostsIt'
  <2>1. clash = {} /\ HostsIt
    BY <1>1, <1>6 DEF NodeIInv
  <2>2. hosted => pc'[token] = "returned"
    <3>1. token # 0 => token \in Call
      BY <1>0, TokenIsCall
    <3> QED BY <1>1, <1>3, <2>1, <3>1 DEF HostsIt
  <2> QED BY <1>1, <2>1, <2>2 DEF HostsIt
<1> QED BY <1>1, <1>3, <1>5, <1>6 DEF NodeIInv, Apart

\* The host loop, the mesh and the health loop.
LEMMA HostKeepsNode == ASSUME Typed, NodeIInv, NEW c \in Call, HostReady(c) \/ Hosted(c) PROVE NodeIInv'
<1>0. TypeOK /\ c # 0
  BY DEF Typed, Call
<1>1. /\ host[c] \in {"wait", "call"} /\ UNCHANGED <<pc, att, peer, running, token, timer, mesh, starting, clash>>
      /\ \A d \in Call \ {c} : host'[d] = host[d] /\ victim'[d] = victim[d]
  BY <1>0 DEF HostReady, Hosted, flags, stacks, TypeOK
<1>2. pc[c] = "returned"
  BY <1>1 DEF NodeIInv
<1>3. \A d \in Call : host'[d] # "none" => pc'[d] = "returned"
  BY <1>1, <1>2 DEF NodeIInv
<1>4. ASSUME Apart PROVE OneBusy' /\ TokenAlone' /\ InHand' /\ Looping'
  <2>1. OneBusy /\ TokenAlone /\ InHand /\ Looping
    BY <1>4 DEF NodeIInv
  <2>2. \A d \in Call : pc[d] \in Tears => victim'[d] = victim[d]
    BY <1>1, <1>2 DEF Tears
  <2> QED BY <1>1, <2>1, <2>2 DEF OneBusy, TokenAlone, InHand, Looping, Gone, Stopping, Built
<1>5. ASSUME clash' = {} PROVE HostsIt'
  <2>1. clash = {} /\ HostsIt
    BY <1>1, <1>5 DEF NodeIInv
  <2>2. CASE HostReady(c)
    <3>1. /\ hosted' = hosted /\ served' = served
          /\ host'[c] = "call" => token = c /\ victim'[c] = peer
      BY <1>0, <2>2 DEF HostReady, flags, Current, TypeOK
    <3> QED BY <1>1, <2>1, <3>1 DEF HostsIt
  <2>3. CASE Hosted(c)
    <3>1. /\ host'[c] = "over" /\ token = c /\ victim[c] = peer
          /\ (hosted' = TRUE /\ served' = victim[c]) \/ (hosted' = hosted /\ served' = served)
      BY <1>0, <2>1, <2>3 DEF Hosted, HostsIt, TypeOK
    <3> QED BY <1>0, <1>1, <1>2, <2>1, <3>1 DEF HostsIt
  <2> QED BY <2>2, <2>3
<1> QED BY <1>1, <1>3, <1>4, <1>5 DEF NodeIInv, Apart

\* Every step keeps the invariant of the node.
LEMMA NodeKept == ASSUME Typed, NodeIInv, [Next]_vars PROVE NodeIInv'
<1>1. ASSUME NEW s \in Stack, Join(s) PROVE NodeIInv'
  <2>1. /\ mesh' \cup starting' = mesh \cup starting /\ mesh \subseteq mesh' /\ starting # {}
        /\ UNCHANGED <<pc, att, victim, peer, running, token, timer, hosted, starting, host, served, clash>>
    BY <1>1 DEF Join, calls, flags, hosts
  <2> QED BY <2>1 DEF NodeIInv, Apart, OneBusy, TokenAlone, InHand, Looping, HostsIt, Gone, Stopping, Built
<1>2. CASE Tick \/ UNCHANGED vars
  <2>1. UNCHANGED <<pc, att, victim, peer, running, token, timer, hosted, mesh, starting, host, served, clash>>
    BY <1>2 DEF Tick, vars, calls, flags, stacks, hosts
  <2> QED BY <2>1 DEF NodeIInv, Apart, OneBusy, TokenAlone, InHand, Looping, HostsIt, Gone, Stopping, Built
<1> QED BY <1>1, <1>2, IssueKeepsNode, StoppedKeepsNode, TokenKeepsNode, BuildKeepsNode, ConnectedKeepsNode,
           CaughtKeepsNode, CleanedKeepsNode, BackoffKeepsNode, HostKeepsNode DEF Next, Step

\* A controller that was never started satisfies the invariant.
LEMMA NodeBegins == Init => NodeIInv
  BY DEF Init, NodeIInv, Apart, OneBusy, TokenAlone, InHand, Looping, HostsIt, Gone, Busy, Tears

\* The app is one node of the mesh, or none, as its last call left it, and
\* hosts only what that node hosts, unless calls met in a teardown, an import
\* or a mint (relay-controller.js 105-226).
THEOREM OneNodeAsCalled == Spec => []NodeFollowsCalls
<1>1. Spec => [](Typed /\ NodeIInv)
  <2>1. Init => Typed /\ NodeIInv
    BY InitIInv, NodeBegins DEF IInv
  <2>2. Typed /\ NodeIInv /\ [Next]_vars => Typed' /\ NodeIInv'
    BY TypedKept, NodeKept
  <2> QED BY <2>1, <2>2, PTL DEF Spec
<1>2. Typed /\ NodeIInv => NodeFollowsCalls
  <2> SUFFICES ASSUME Typed, NodeIInv PROVE OneRelay /\ SettlesRight /\ HostedIsCurrent
    BY DEF NodeFollowsCalls
  <2>0. TypeOK /\ NoStack \notin mesh
    BY NoStackIsNone DEF Typed, TypeOK
  <2>1. OneRelay
    BY DEF NodeIInv, Apart, InHand, OneRelay, TearsDownFirst
  <2>2. ASSUME Quiet, Apart
        PROVE  IF running THEN peer \in mesh /\ timer ELSE mesh = {} /\ peer = NoStack
    <3>1. TokenAlone /\ InHand /\ Looping /\ (running <=> token # 0)
      BY <2>2 DEF NodeIInv
    <3>2. CASE token # 0
      <4>1. token \in Call /\ pc[token] = "returned"
        BY <2>0, <2>2, <3>1, <3>2, TokenIsCall DEF TokenAlone, Quiet, Loop
      <4> QED BY <3>1, <3>2, <4>1 DEF Looping
    <3>3. CASE token = 0
      <4>1. ~Stopping
        BY <2>2 DEF Quiet, Stopping
      <4> QED BY <3>1, <3>3, <4>1 DEF InHand, Gone
    <3> QED BY <3>2, <3>3
  <2>3. HostedIsCurrent
    BY DEF NodeIInv, HostsIt, HostedIsCurrent
  <2> QED BY <2>1, <2>2, <2>3 DEF SettlesRight, Apart
<1> QED BY <1>1, <1>2, PTL

=============================================================================
