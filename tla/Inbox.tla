------------------------------- MODULE Inbox -------------------------------
(***************************************************************************)
(* The inbox file of an agent: the arrival sink of src/mcp.js and the      *)
(* clock scripts/tick.mjs append to it, scripts/inbox.mjs reads it against *)
(* a cursor file.  All are processes of their own and share three files    *)
(* without a lock: the inbox, the schedule state and the cursor.           *)
(***************************************************************************)
EXTENDS Naturals, Sequences

CONSTANTS
  Task,       \* tasks of the schedule
  Every,      \* everyMinutes, the same for all
  Clock,      \* ticks: the standing one, and TICK_ONCE passes
  DigestRun,  \* bound: runs of inbox.mjs at a time
  TimeBound,  \* bound: minutes
  LineBound   \* bound: lines of the inbox

Board == {"council", "other", "own"}   \* recorded, not recorded, self-authored
Minute == 1 .. TimeBound
Line == [kind : {"msg"} \cup Task, at : Minute]

VARIABLES
  minute,    \* Date.now()
  inbox,     \* MCP_INBOX
  fired,     \* STATE: last firing of each task, 0 for none
  pass,      \* each clock: [stage, at, left: tasks to look at, last: its copy]
  cursor,    \* CURSOR: [line, acked]
  reading,   \* each reader: [stage, mine: its copy of the cursor, upTo]
  shown      \* history: lines some digest has printed as new

inboxVars == <<minute, inbox, fired, pass, cursor, reading, shown>>
Asleep == [stage |-> "off", at |-> 1, left |-> {}, last |-> [t \in Task |-> 0]]
Closed0 == [line |-> 0, acked |-> [t \in Task |-> 0]]
NoRead == [stage |-> "off", mine |-> Closed0, upTo |-> 0]

InboxInit ==
  /\ minute = 1 /\ inbox = <<>> /\ fired = [t \in Task |-> 0]
  /\ pass = [c \in Clock |-> Asleep] /\ cursor = Closed0
  /\ reading = [r \in DigestRun |-> NoRead] /\ shown = {}

-----------------------------------------------------------------------------
MinutePasses ==
  /\ minute < TimeBound /\ minute' = minute + 1
  /\ UNCHANGED <<inbox, fired, pass, cursor, reading, shown>>

(* The sink: what others say on a recorded topic is a line of the inbox. *)
onArrival(topic) ==
  /\ topic = "council" /\ Len(inbox) < LineBound
  /\ inbox' = Append(inbox, [kind |-> "msg", at |-> minute])
  /\ UNCHANGED <<minute, fired, pass, cursor, reading, shown>>

-----------------------------------------------------------------------------
(* pass(): a clock reads the state and the time, ... *)
PassBegins(c) ==
  /\ pass[c].stage = "off"
  /\ pass' = [pass EXCEPT ![c] = [stage |-> "firing", at |-> minute, left |-> Task,
                                  last |-> fired]]
  /\ UNCHANGED <<minute, inbox, fired, cursor, reading, shown>>

(* ... appends a line for each task that is due or was never seen, ... *)
Due(p, t) == p.last[t] = 0 \/ p.at >= p.last[t] + Every

fire(c, t) ==
  /\ pass[c].stage = "firing" /\ t \in pass[c].left
  /\ IF Due(pass[c], t)
     THEN /\ Len(inbox) < LineBound /\ inbox' = Append(inbox, [kind |-> t, at |-> minute])
          /\ pass' = [pass EXCEPT ![c].left = @ \ {t}, ![c].last[t] = pass[c].at]
     ELSE pass' = [pass EXCEPT ![c].left = @ \ {t}] /\ UNCHANGED inbox
  /\ UNCHANGED <<minute, fired, cursor, reading, shown>>

\* Mutant: the state is written before the lines.
PassWritesFirst(c) ==
  /\ pass[c].stage = "firing" /\ pass[c].left # {}
  /\ fired' = [t \in Task |-> IF Due(pass[c], t) THEN pass[c].at ELSE fired[t]]
  /\ pass' = [pass EXCEPT ![c] = Asleep]
  /\ UNCHANGED <<minute, inbox, cursor, reading, shown>>

(* ... and writes the state, if it can.  It may die anywhere before, and an *)
(* append that throws ends the pass.                                        *)
PassEnds(c) ==
  /\ pass[c].stage = "firing"
  /\ \/ pass[c].left = {} /\ fired' = pass[c].last
     \/ UNCHANGED fired
  /\ pass' = [pass EXCEPT ![c] = Asleep]
  /\ UNCHANGED <<minute, inbox, cursor, reading, shown>>

-----------------------------------------------------------------------------
(* inbox.mjs reads the cursor, ... *)
ReadCursor(r) ==
  /\ reading[r].stage = "off"
  /\ reading' = [reading EXCEPT ![r] = [stage |-> "cursor", mine |-> cursor, upTo |-> 0]]
  /\ UNCHANGED <<minute, inbox, fired, pass, cursor, shown>>

(* ... and then the inbox.  With --peek it only prints what is new. *)
Digest(r) ==
  /\ reading[r].stage = "cursor"
  /\ shown' = shown \cup (reading[r].mine.line + 1 .. Len(inbox))
  /\ reading' = [reading EXCEPT ![r].stage = "print", ![r].upTo = Len(inbox)]
  /\ UNCHANGED <<minute, inbox, fired, pass, cursor>>

(* The cursor file is written whole, from the copy. *)
WriteCursor(r, c) ==
  /\ cursor' = c /\ reading' = [reading EXCEPT ![r] = NoRead]
  /\ UNCHANGED <<minute, inbox, fired, pass, shown>>

\* Mutant: the lines are counted again when the cursor is written.
AdvanceToEnd(r) ==
  reading[r].stage = "print" /\ WriteCursor(r, [reading[r].mine EXCEPT !.line = Len(inbox)])

Advance(r) ==
  reading[r].stage = "print" /\ WriteCursor(r, [reading[r].mine EXCEPT !.line = reading[r].upTo])

Ack(r, t) ==
  reading[r].stage = "cursor" /\ WriteCursor(r, [reading[r].mine EXCEPT !.acked[t] = minute])

(* --peek, or the process dies. *)
Leave(r) ==
  /\ reading[r].stage # "off" /\ reading' = [reading EXCEPT ![r] = NoRead]
  /\ UNCHANGED <<minute, inbox, fired, pass, cursor, shown>>

InboxStep ==
  \/ MinutePasses \/ \E topic \in Board : onArrival(topic)
  \/ \E c \in Clock : PassBegins(c) \/ PassEnds(c) \/ \E t \in Task : fire(c, t)
  \/ \E r \in DigestRun : \/ ReadCursor(r) \/ Digest(r) \/ Advance(r) \/ Leave(r)
                       \/ \E t \in Task : Ack(r, t)

-----------------------------------------------------------------------------
(* outstanding: the tasks with a firing later than their last ack on file. *)
outstanding == {t \in Task : \E i \in DOMAIN inbox :
                               inbox[i].kind = t /\ inbox[i].at > cursor.acked[t]}

(* Nothing is lost between the writers and the reader of the inbox, however *)
(* clocks, digests and acks overlap and wherever one dies: the cursor never *)
(* passes a line that no digest printed, a firing the schedule state counts *)
(* as done has its line, and while nothing of a task was acked, that it     *)
(* fired is outstanding (tick.mjs 68-101, inbox.mjs 58-129).                *)
NothingIsLost ==
  /\ 1 .. cursor.line \subseteq shown
  /\ \A t \in Task : fired[t] # 0 =>
       /\ \E i \in DOMAIN inbox : inbox[i].kind = t /\ inbox[i].at >= fired[t]
       /\ cursor.acked[t] < fired[t] => t \in outstanding
=============================================================================
