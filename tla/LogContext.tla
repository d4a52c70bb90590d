----------------------------- MODULE LogContext -----------------------------
(***************************************************************************)
(* What of a log line's context is cut: renderCtx of src/logctx.js, and    *)
(* which lines src/index.js lets through.  A value is its kind and its     *)
(* rendered length; a line's length is the sum of its values.              *)
(***************************************************************************)
EXTENDS Naturals, FiniteSetsExt

CONSTANTS
  Key,       \* keys of a context, ordered: they are numbers
  SizeBound, \* bound: length of a value
  CtxCap,    \* CTX_CAP
  EvidenceCap,  \* EVIDENCE_CAP
  ArrayNote, \* length of the note that replaces an array, and of one for an
  ObjectNote \* object: quotes included

VARIABLES
  line,    \* the line: [level, event, ctx]; ctx is a function of Key
  fate,    \* each value: "whole", "cut" (a string's tail), "note" (replaced)
  order,   \* keys still to be considered, in no order: the largest is next
  noted    \* "out" (no line), "reduce", "done", "dropped"

logVars == <<line, fate, order, noted>>

Kinds  == {"scalar", "text", "array", "object"}
Values == [kind : Kinds, size : 1 .. SizeBound]
Structured(v) == v.kind \in {"array", "object"}

Whole   == [k \in Key |-> "whole"]
NoLine  == [level |-> "info", event |-> "other", ctx |-> [k \in Key |-> [kind |-> "scalar", size |-> 1]]]
LogInit == line = NoLine /\ fate = Whole /\ order = {} /\ noted = "out"

isFullFidelity(l) == l.event = "health-dump"   \* and armed-*, alike
isEvidence(ctx) == \E k \in Key : Structured(ctx[k])

Note(v) == IF v.kind = "array" THEN ArrayNote ELSE ObjectNote
LengthOf(v, how) == IF how = "note" THEN Note(v) ELSE v.size
Length(ctx, f) == MapThenSumSet(LAMBDA k : LengthOf(ctx[k], f[k]), Key)

(* onLog: a debug line passes when its name is interesting; one of the      *)
(* channel's life passes with named scalar fields.  What is short or        *)
(* standing goes out whole, a flat context with its long texts cut, and     *)
(* evidence over its cap is reduced.                                        *)
LogLine(l) ==
  /\ noted = "out" /\ line' = l
  /\ LET trimmed == [k \in Key |-> IF l.ctx[k].kind = "text" /\ l.ctx[k].size > CtxCap THEN "cut" ELSE "whole"]
     IN CASE l.level = "debug" /\ l.event = "chatter" -> noted' = "dropped" /\ fate' = Whole /\ order' = {}
          [] l.level = "debug" /\ l.event = "teardown" -> noted' = "done" /\ fate' = Whole /\ order' = {}
          [] OTHER ->
             IF isFullFidelity(l) \/ Length(l.ctx, Whole) <= CtxCap THEN noted' = "done" /\ fate' = Whole /\ order' = {}
             ELSE IF ~isEvidence(l.ctx) THEN noted' = "done" /\ fate' = trimmed /\ order' = {}
             ELSE /\ noted' = "reduce" /\ fate' = Whole
                  /\ order' = {k \in Key : Structured(l.ctx[k])}

\* Mutant: every structured value goes.
OverAnyway == TRUE

(* Reduction stops as soon as the line fits.                                *)
Over == Length(line.ctx, fate) > EvidenceCap

(* The largest value left, the first key among equals.                      *)
Larger(k, j) ==
  \/ line.ctx[k].size > line.ctx[j].size
  \/ line.ctx[k].size = line.ctx[j].size /\ k < j

Reduce ==
  /\ noted = "reduce"
  /\ IF order = {} \/ ~Over THEN noted' = "done" /\ UNCHANGED <<fate, order>>
     ELSE \E k \in order :
            /\ \A j \in order \ {k} : Larger(k, j)
            /\ order' = order \ {k} /\ noted' = noted
            /\ fate' = IF Note(line.ctx[k]) >= line.ctx[k].size THEN fate ELSE [fate EXCEPT ![k] = "note"]
  /\ UNCHANGED line

Lines == [level : {"warn"}, event : {"health-dump", "other"}, ctx : [Key -> Values]]
         \cup [level : {"debug"}, event : {"chatter", "teardown"}, ctx : {NoLine.ctx}]

LogStep == (\E l \in Lines : LogLine(l)) \/ Reduce

-----------------------------------------------------------------------------
(* Evidence loses no more than it must (logctx.js 28-50, 126-155): a line   *)
(* of a standing event loses nothing; one that still exceeds the cap has    *)
(* no value left that its note would shorten; without the last loss it      *)
(* would not have fitted; and nothing that could have gone is larger than   *)
(* what went.                                                               *)
LosesTheLeast ==
  LET gone == {k \in Key : fate[k] = "note"}
      worth == {k \in Key : Structured(line.ctx[k]) /\ Note(line.ctx[k]) < line.ctx[k].size}
  IN noted = "done" =>
       /\ isFullFidelity(line) => fate = Whole
       /\ gone \subseteq worth
       /\ (Length(line.ctx, fate) > EvidenceCap /\ order = {} /\ gone # {}) => worth = gone
       /\ \A k \in gone : (\A j \in gone \ {k} : Larger(j, k)) => Length(line.ctx, [fate EXCEPT ![k] = "whole"]) > EvidenceCap
       /\ \A k \in gone, j \in worth \ gone : Larger(k, j)
=============================================================================
