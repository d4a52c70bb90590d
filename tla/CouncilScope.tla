---------------------------- MODULE CouncilScope ----------------------------
(***************************************************************************)
(* Which shell commands the council's classifier calls deploys: scripts/   *)
(* council-scope.mjs.  (The hook that asked it now exits first,            *)
(* council-hook.mjs 47: its answer is advice.)  tokenize() splits the text *)
(* into words, and marks those whose value only the shell knows;           *)
(* deployReasons() looks in each invocation for a push to a live branch, a *)
(* copy to a host that serves users, or a command run on one, through      *)
(* remote shells inside remote shells.  Characters are their classes; a    *)
(* word is what it stands for.                                             *)
(***************************************************************************)
EXTENDS Naturals, Sequences, FiniteSets

CONSTANTS
  TextBound, \* bound: characters of a text
  HopBound   \* bound: remote shells inside one another

VARIABLES
  typed,    \* the characters read so far
  quoting,     \* "bare", "escape", "single", "double", "escapeInDouble", "end"
  word,     \* the word being read, NoWord between words
  words,    \* words, and NoWord for a separator
  command,  \* the command judged: [hops, work, hides]
  reasons   \* "none" yet, or whether there was any: "gated", "free"

scopeVars == <<typed, quoting, word, words, command, reasons>>

NoWord == [begun |-> FALSE, letters |-> 0, body |-> 0, dynamic |-> FALSE]
Nothing == [hops |-> <<>>, work |-> {}, hides |-> FALSE]
ScopeInit ==
  /\ typed = <<>> /\ quoting = "bare" /\ word = NoWord /\ words = <<>>
  /\ command = Nothing /\ reasons = "none"

-----------------------------------------------------------------------------
(* tokenize(): a letter is a character that means only itself; "sep" is one *)
(* of the operators that end an invocation.                                 *)
Chars == {"letter", "space", "single", "double", "escape", "dollar", "sep"}
Begun(w)   == [w EXCEPT !.begun = TRUE]
Letter(w)  == [Begun(w) EXCEPT !.letters = @ + 1]
Body(w)    == [w EXCEPT !.body = @ + 1]   \* of a single quote, if it is closed
Close(w)   == [w EXCEPT !.letters = @ + w.body, !.body = 0]
Dynamic(w) == [Begun(w) EXCEPT !.dynamic = TRUE]
Flushed    == IF ~word.begun THEN words ELSE Append(words, word)

InBare(c) ==
  /\ quoting = "bare"
  /\ quoting' = IF c \in {"single", "double", "escape"} THEN c ELSE quoting
  /\ word' = CASE c = "letter" -> Letter(word)
               [] c = "dollar" -> Dynamic(Letter(word))
               [] c \in {"space", "sep"} -> NoWord
               [] c = "escape" -> word
               [] OTHER -> Begun(word)
  /\ words' = CASE c = "space" -> Flushed
                [] c = "sep" -> Append(Flushed, NoWord)
                [] OTHER -> words

InQuotes(c) ==
  \/ /\ quoting = "single" /\ quoting' = IF c = "single" THEN "bare" ELSE quoting
     /\ word' = IF c = "single" THEN Close(word) ELSE Body(word)
  \/ /\ quoting = "double"
     /\ quoting' = CASE c = "double" -> "bare" [] c = "escape" -> "escapeInDouble" [] OTHER -> quoting
     /\ word' = CASE c \in {"double", "escape"} -> word
                  [] c = "dollar" -> Dynamic(Letter(word))
                  [] OTHER -> Letter(word)

Escaped ==
  /\ quoting \in {"escape", "escapeInDouble"}
  /\ quoting' = IF quoting = "escape" THEN "bare" ELSE "double"
  /\ word' = Letter(word)

Type(c) ==
  /\ reasons = "none" /\ Len(typed) < TextBound /\ quoting # "end"
  /\ InBare(c) \/ ((InQuotes(c) \/ Escaped) /\ UNCHANGED words)
  /\ typed' = Append(typed, c) /\ UNCHANGED <<command, reasons>>

(* The end of the text: a lone escape is a letter, a quote that is open     *)
(* makes the word unresolvable.                                             *)
EndOfText ==
  /\ typed # <<>> /\ quoting # "end" /\ quoting' = "end"
  /\ words' = CASE quoting = "bare" -> Flushed
                [] quoting = "escape" -> Append(words, Letter(word))
                [] OTHER -> Append(words, Dynamic(word))
  /\ word' = NoWord /\ UNCHANGED <<typed, command, reasons>>

-----------------------------------------------------------------------------
(* What an invocation is.  A refspec names its branch as it is, bare or     *)
(* behind a + or refs/heads/ ("literal"), or by a text that git or the      *)
(* shell makes into a name: heads/main, a pattern, a brace ("cloaked"), or  *)
(* its value is the shell's ("dynamic") or git's ("head": empty, or HEAD)   *)
(* to know; and it lands on some branch.  A word of a copy is a path or     *)
(* names a host.                                                            *)
Spec    == [form : {"literal", "cloaked", "dynamic", "head"}, lands : {"live", "other"}]
Host    == {"deploy", "lan", "dynamic"}
Operand == {"path"} \cup Host
Kinds   == {"read", "toolRead", "toolWrite", "unknown", "redirected", "composeUp", "restart"}
Plain   == [verb : Kinds]
Pushes  == [verb : {"push"}, specs : SUBSET Spec]
Copies  == [verb : {"copy"}, ends : SUBSET Operand]

\* Mutant: one part that only reads clears the rest.
OneReads(work) == \E w \in work : w.verb \in {"read", "toolRead"}

(* isReadOnlyRemote: every part is of a known reading verb, or a known      *)
(* subcommand of a tool, and nothing is redirected; no payload is no proof. *)
(* Of the other words nothing is read.                                      *)
ReadsOnly(work) == work # {} /\ \A w \in work : w.verb \in {"read", "toolRead"}

(* destOf() compares texts: a cloaked name is none of the live branches'.   *)
destOf(s) == CASE s.form = "literal" -> s.lands [] s.form = "cloaked" -> "other" [] OTHER -> "unknown"
PushGates(w)    == w.specs = {} \/ \E s \in w.specs : destOf(s) # "other"
CopyGates(w)    == \E t \in w.ends : t \in {"dynamic", "deploy"}
WorkGates(work) == \E w \in work : IF w.verb = "push" THEN PushGates(w) ELSE w.verb = "copy" /\ CopyGates(w)

(* What is left of the command behind d remote shells; at most three are    *)
(* looked into, and what the third runs is not.                             *)
Last(c, d)     == d = Len(c.hops)
Behind(c, d)   == Last(c, d) /\ ReadsOnly(c.work)
ShellGates(c, d) == c.hops[d + 1] = "dynamic" \/ (c.hops[d + 1] = "deploy" /\ ~Behind(c, d + 1))

(* deployReasons: the outermost shell that gates, or the work itself; a     *)
(* shell at a host nobody can resolve ends the search.  Two words gate      *)
(* wherever they stand in the text.                                         *)
deployReasons(c) ==
  \/ \E d \in 0 .. (Len(c.hops) - 1) : /\ d <= 2 /\ ShellGates(c, d)
                                       /\ \A e \in 0 .. (d - 1) : c.hops[e + 1] # "dynamic"
  \/ Len(c.hops) <= 2 /\ (\A d \in DOMAIN c.hops : c.hops[d] # "dynamic") /\ WorkGates(c.work)
  \/ \E w \in c.work : w.verb \in {"composeUp", "restart"}

Works == {{w} : w \in Plain \cup Pushes \cup Copies} \cup {{v, w} : v, w \in Plain} \cup {{}}

(* A command may do more than its invocations say, in words that are not    *)
(* looked at: a substitution in double quotes or backticks, what `env',     *)
(* `sudo' or `sh -c' runs, an option by which a reading verb writes.        *)
Judge ==
  /\ reasons = "none" /\ typed = <<>>
  /\ \E n \in 0 .. HopBound : \E h \in [1 .. n -> Host], work \in Works, hides \in BOOLEAN :
       command' = [hops |-> h, work |-> work, hides |-> hides]
  /\ reasons' = IF deployReasons(command') THEN "gated" ELSE "free"
  /\ UNCHANGED <<typed, quoting, word, words>>

ScopeStep ==
  \/ \E c \in Chars : Type(c)
  \/ EndOfText
  \/ Judge

-----------------------------------------------------------------------------
(* What the command would do when run: where its work ends up, at worst.    *)
Changes(c) ==
  \/ c.hides
  \/ \E d \in DOMAIN c.hops : /\ c.hops[d] = "deploy" /\ d = Len(c.hops)
                             /\ \E w \in c.work : w.verb \notin {"read", "toolRead"}
  \/ \E w \in c.work : w.verb = "push" /\ \E s \in w.specs : s.lands = "live"
  \/ \E w \in c.work : w.verb = "copy" /\ "deploy" \in w.ends

Resolved(c) ==
  /\ \A d \in DOMAIN c.hops : c.hops[d] # "dynamic"
  /\ \A w \in c.work : /\ w.verb = "push" => w.specs # {} /\ \A s \in w.specs : s.form \in {"literal", "cloaked"}
                       /\ w.verb = "copy" => "dynamic" \notin w.ends

Cloaked(c) == \E w \in c.work : w.verb = "push" /\ \E s \in w.specs : s.form = "cloaked"

Typed(C) == {i \in DOMAIN typed : typed[i] \in C}
WordIn(ws) == {i \in DOMAIN ws : ws[i].begun}
LettersOf(ws) == UNION {{i} \X (1 .. ws[i].letters) : i \in WordIn(ws)}
Word == WordIn(words)

(* The classifier fails closed and only where it must (council-scope.mjs    *)
(* 34-37, 69-130, 223-335).  A command that changes a host that serves      *)
(* users or lands on a live branch is found out, unless it does so behind   *)
(* more than two shells, in words that are not looked at, or by a branch's  *)
(* name that is not spelled out; one that is found out does so, or holds    *)
(* something that cannot be resolved.  A text without $ and quotes has no   *)
(* word that is the shell's own, a $ that nothing protects makes one;       *)
(* unless a quote is left open no letter is lost, and no operator made of   *)
(* what was quoted.                                                         *)
FailsClosed ==
  /\ reasons = "free" /\ Changes(command) =>
       Len(command.hops) > 2 \/ command.hides \/ Cloaked(command)
  /\ reasons = "gated" /\ Resolved(command) =>
       \/ Changes(command) \/ \E d \in DOMAIN command.hops : command.hops[d] = "deploy"
       \/ \E w \in command.work : w.verb \in {"composeUp", "restart"}
  /\ quoting = "end" =>
       LET dynamic == {i \in Word : words[i].dynamic}
           kept    == Cardinality(LettersOf(words))
       IN /\ Typed({"dollar", "single", "double"}) = {} => dynamic = {}
          /\ Typed({"dollar"}) # {} /\ Typed({"single", "escape"}) = {} => dynamic # {}
          /\ dynamic = {} => kept >= Cardinality(Typed({"letter"}))
          /\ Cardinality(DOMAIN words \ Word) <= Cardinality(Typed({"sep"}))
=============================================================================
