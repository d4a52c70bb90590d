------------------------------ MODULE FleetView ------------------------------
(***************************************************************************)
(* One row of the fleet's dashboard, scripts/fleet.mjs: the lines a relay  *)
(* writes on stdout and on stderr arrive in chunks that may cut a line in  *)
(* two, both streams of every relay of the slot share one buffer for the   *)
(* half line, and the row shows the last health, the trouble that is not   *)
(* old yet and what a rolling restart is doing.  A line is what the rules  *)
(* look for in it.                                                         *)
(***************************************************************************)
EXTENDS Naturals, Sequences, FiniteSets

CONSTANTS
  Severities,  \* the rules of EVENT_RULES, in order: the severity of each
  TTL,         \* EVENT_TTL_MS, by severity
  StaleAfter,  \* age of a health line after which the row says it is old
  RelayCount,  \* bound: relays of the slot, one after the other
  SayBound     \* bound: lines they write

VARIABLES
  serving,  \* the relay children[idx] holds
  halves,   \* the line each source is in the middle of
  carry,    \* carry[idx]: the pieces that wait for the end of their line
  row,      \* stats[idx]
  told,     \* history: the same fields, each stream of this relay read alone
  owed,     \* history: by severity, the age of the last trouble line that came whole
  met,      \* history: two sources met in the buffer, or a replaced relay was read
  saidLines, \* lines begun so far
  exits     \* relays of the slot whose exit was handled

dashVars == <<serving, halves, carry, row, told, owed, met, saidLines, exits>>

Kind   == 1 .. Len(Severities)
Source == (1 .. RelayCount) \X {"out", "err"}
Old    == TTL[3] + 1   \* an age past every limit

Health(mesh) == [is |-> "health", of |-> mesh]
Boot(relay)  == [is |-> "node", of |-> relay]
Trouble(k)   == [is |-> "trouble", of |-> k]
NoLine       == [is |-> "none", of |-> 0]

(* Health and boot lines go to stdout; trouble to either.                   *)
LinesOf(src) ==
  {Trouble(k) : k \in Kind} \cup
    (IF src[2] = "out" THEN {Health(0), Health(1), Boot(src[1])} ELSE {})

(* Where a line may be cut: whether its first and its second part say what  *)
(* the rules look for.  A health line needs all its numbers.                *)
Cuts(line) == {<<TRUE, FALSE>>, <<FALSE, line.is # "health">>}

Clean == [k \in Kind |-> [count |-> 0, ago |-> 0]]
Blank == [state |-> NoLine, last |-> Old, node |-> 0, events |-> Clean, op |-> "", exited |-> FALSE]

DashInit ==
  /\ serving = 1 /\ halves = [src \in Source |-> [line |-> NoLine, says |-> FALSE]]
  /\ carry = <<>> /\ row = Blank /\ told = Blank /\ owed = [s \in 1 .. 3 |-> Old]
  /\ met = FALSE /\ saidLines = 0 /\ exits = {}

-----------------------------------------------------------------------------
(* A piece is legible when it says it, or when the rest of its line follows *)
(* at once.                                                                 *)
Legible(text, i) ==
  \/ text[i].says
  \/ i < Len(text) /\ text[i + 1].src = text[i].src

LinesIn(text) == {text[i].line : i \in {j \in DOMAIN text : Legible(text, j)}}

FirstHealth(text) ==
  LET at == {i \in DOMAIN text : Legible(text, i) /\ text[i].line.is = "health"}
  IN  text[CHOOSE i \in at : \A j \in at : i <= j].line

\* Mutant: the last rule that matches wins.
LastRule(kinds) == CHOOSE k \in kinds : \A j \in kinds : j <= k

(* The first rule that matches wins.                                        *)
FirstRule(kinds) == CHOOSE k \in kinds : \A j \in kinds : k <= j

(* ingest(): a health line is taken and nothing else is; otherwise the      *)
(* first name of a node and one event.                                      *)
Ingested(r, text) ==
  LET lines == LinesIn(text)
      nodes == {l.of : l \in {x \in lines : x.is = "node"}}
      kinds == {l.of : l \in {x \in lines : x.is = "trouble"}}
      named == IF r.node = 0 /\ nodes # {} THEN {[r EXCEPT !.node = n] : n \in nodes} ELSE {r}
  IN  IF \E l \in lines : l.is = "health"
      THEN {[r EXCEPT !.state = FirstHealth(text), !.last = 0]}
      ELSE IF kinds = {} THEN named
      ELSE {[x EXCEPT !.events[FirstRule(kinds)] = [count |-> @.count + 1, ago |-> 0]] : x \in named}

Piece(src, line, says) == [src |-> src, line |-> line, says |-> says]

(* Two sources meet when a piece follows one of the relay's other stream,   *)
(* or comes from a relay that was replaced.                                 *)
Meets(src) ==
  src[1] # serving \/ \E i \in DOMAIN carry : carry[i].src[1] = serving /\ carry[i].src # src

(* onData() up to a newline: the text is what was carried and what came.    *)
LineEnds(src, line, says) ==
  LET text == Append(carry, Piece(src, line, says)) IN
  /\ carry' = <<>> /\ row' \in Ingested(row, text)
  /\ told' \in (IF src[1] = serving THEN Ingested(told, <<Piece(src, line, TRUE)>>) ELSE {told})
  /\ owed' = IF line.is = "trouble" /\ says /\ ~\E l \in LinesIn(text) : l.is = "health"
             THEN [owed EXCEPT ![Severities[line.of]] = 0] ELSE owed
  /\ met' = (met \/ Meets(src))
  /\ UNCHANGED <<serving, exits>>

WholeArrives(src) ==
  /\ src[1] <= serving /\ saidLines < SayBound /\ halves[src].line = NoLine
  /\ \E line \in LinesOf(src) : LineEnds(src, line, TRUE)
  /\ saidLines' = saidLines + 1 /\ UNCHANGED halves

(* onData() with no newline: the piece is carried.                          *)
HalfArrives(src, line, cut) ==
  /\ src[1] <= serving /\ saidLines < SayBound /\ halves[src].line = NoLine
  /\ carry' = Append(carry, Piece(src, line, cut[1]))
  /\ halves' = [halves EXCEPT ![src] = [line |-> line, says |-> cut[2]]]
  /\ met' = (met \/ Meets(src)) /\ saidLines' = saidLines + 1
  /\ UNCHANGED <<serving, row, told, owed, exits>>

RestArrives(src) ==
  /\ halves[src].line # NoLine /\ LineEnds(src, halves[src].line, halves[src].says)
  /\ halves' = [halves EXCEPT ![src] = [line |-> NoLine, says |-> FALSE]]
  /\ UNCHANGED saidLines

-----------------------------------------------------------------------------
Older(age) == IF age = Old THEN Old ELSE age + 1
Aged(r) == [r EXCEPT !.last = Older(@),
                     !.events = [k \in Kind |-> LET e == r.events[k]
                                               IN  IF e.count = 0 THEN e ELSE [e EXCEPT !.ago = Older(e.ago)]]]

TimePasses ==
  /\ row' = Aged(row) /\ told' = Aged(told) /\ owed' = [s \in 1 .. 3 |-> Older(owed[s])]
  /\ UNCHANGED <<serving, halves, carry, met, saidLines, exits>>

(* An exit is written into the row, whichever relay of the slot it was.     *)
Exits(relay) ==
  /\ relay <= serving /\ relay \notin exits /\ exits' = exits \cup {relay}
  /\ row' = [row EXCEPT !.exited = TRUE]
  /\ told' = [told EXCEPT !.exited = @ \/ relay = serving]
  /\ met' = (met \/ relay # serving) /\ UNCHANGED <<serving, halves, carry, owed, saidLines>>

(* A rolling restart: the row says so while it stops the relay; a relay is  *)
(* spawned, whether the old one exited or was given up on, into a row, a    *)
(* buffer and an events table that are new; it waits until the row is       *)
(* meshed or 30 seconds are over.                                           *)
Drains ==
  /\ row.op = "" /\ serving < RelayCount /\ row' = [row EXCEPT !.op = "draining"]
  /\ UNCHANGED <<serving, halves, carry, told, owed, met, saidLines, exits>>

Respawns ==
  /\ row.op = "draining" /\ serving' = serving + 1
  /\ row' = [Blank EXCEPT !.op = "re-meshing"] /\ carry' = <<>>
  /\ told' = Blank /\ owed' = [s \in 1 .. 3 |-> Old] /\ met' = FALSE
  /\ UNCHANGED <<halves, saidLines, exits>>

Remeshed ==
  /\ row.op = "re-meshing" /\ row' = [row EXCEPT !.op = ""]
  /\ UNCHANGED <<serving, halves, carry, told, owed, met, saidLines, exits>>

DashStep ==
  \/ \E src \in Source :
       WholeArrives(src) \/ RestArrives(src) \/ \E line \in LinesOf(src) : \E cut \in Cuts(line) : HalfArrives(src, line, cut)
  \/ \E relay \in 1 .. RelayCount : Exits(relay)
  \/ TimePasses \/ Drains \/ Respawns \/ Remeshed

-----------------------------------------------------------------------------
(* noteFor(): what a rolling restart is doing, or the trouble that is not   *)
(* old yet: the most severe kind, of those the latest, and how many more.   *)
Live(r) == {k \in Kind : r.events[k].count > 0 /\ r.events[k].ago <= TTL[Severities[k]]}

Top(r) == {k \in Live(r) : \A j \in Live(r) :
             \/ Severities[j] < Severities[k]
             \/ Severities[j] = Severities[k] /\ r.events[j].ago >= r.events[k].ago}

Note(r) == IF r.op # "" THEN [says |-> r.op, top |-> {}, more |-> 0]
           ELSE [says |-> "events", top |-> Top(r), more |-> Cardinality(Live(r)) - 1]

(* The state cell of render().                                              *)
Cell(r) == IF r.exited THEN "exit" ELSE IF r.state # NoLine /\ r.last > StaleAfter THEN "stale" ELSE "live"

(* The row tells what the slot's relay itself said, unless two sources met  *)
(* in the buffer or a replaced relay was still read; and even then the note *)
(* never ranks a trouble line that came whole below its severity while it   *)
(* is not old, unless a health line swallowed it (fleet.mjs 101-163,        *)
(* 191-197, 222-251).                                                       *)
RowTellsTheTruth ==
  /\ ~met => row = [told EXCEPT !.op = row.op]
  /\ (~met /\ Cell(row) = "live" /\ row.state # NoLine) => ~told.exited /\ told.last <= StaleAfter
  /\ \A s \in 1 .. 3 :
       (owed[s] <= TTL[s] /\ row.op = "") =>
         Note(row).top # {} /\ \A k \in Note(row).top : Severities[k] >= s
=============================================================================
