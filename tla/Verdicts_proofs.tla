--------------------------- MODULE Verdicts_proofs ---------------------------
(***************************************************************************)
(* The last theorems of the parts that run "tools" checks side by side     *)
(* (see Tools_proofs and Views_proofs): what the files of a topic are, and *)
(* what the harness concludes from its records.  The harness computes over *)
(* its rows; the functions those computations are defined by recurse over  *)
(* numbers, and what they compute is proved by least counterexample.       *)
(***************************************************************************)
EXTENDS MCTools, FiniteSetTheorems, WellFoundedInduction, TLAPS

-----------------------------------------------------------------------------
(* Numbers, and functions defined by recursion over them.                   *)

\* A set of numbers has a least one.
LEMMA LeastOf ==
  ASSUME NEW S, S \subseteq Nat, S # {}
  PROVE  \E m \in S : \A n \in S : m <= n
<1>1. IsWellFoundedOn(OpToRel(<, Nat), Nat)
  BY NatLessThanWellFounded
<1>2. PICK m \in S : \A n \in S : ~(<<n, m>> \in OpToRel(<, Nat))
  BY <1>1, WFMin, Zenon
<1>3. \A n \in S : ~(n < m)
  <2> SUFFICES ASSUME NEW n \in S, n < m PROVE FALSE
    OBVIOUS
  <2>1. n \in Nat /\ m \in Nat
    OBVIOUS
  <2>2. <<n, m>> \in OpToRel(<, Nat)
    BY <2>1 DEF OpToRel
  <2> QED BY <1>2, <2>2
<1> QED BY <1>3

\* What holds 0, and with a number below the bound the next, holds all up to it.
LEMMA CountingTo ==
  ASSUME NEW S, NEW top \in Nat, 0 \in S, \A i \in 1 .. top : i - 1 \in S => i \in S
  PROVE  \A i \in 0 .. top : i \in S
<1> DEFINE T == {i \in 0 .. top : i \notin S}
<1> SUFFICES ASSUME T # {} PROVE FALSE
  OBVIOUS
<1>1. T \subseteq Nat
  OBVIOUS
<1> HIDE DEF T
<1>2. PICK x \in T : \A y \in T : x <= y
  BY <1>1, LeastOf
<1>3. x \in 1 .. top /\ x \notin S
  BY <1>2 DEF T
<1>4. x - 1 \in 0 .. top /\ ~(x <= x - 1)
  BY <1>3
<1>5. x - 1 \in S
  BY <1>2, <1>4 DEF T
<1> QED BY <1>3, <1>5

\* The values of a function stay in a set that a step does not leave.
LEMMA Stays ==
  ASSUME NEW S, NEW top \in Nat, NEW f, f[0] \in S, \A i \in 1 .. top : f[i - 1] \in S => f[i] \in S
  PROVE  \A i \in 0 .. top : f[i] \in S
<1> DEFINE T == {i \in 0 .. top : f[i] \in S}
<1>1. 0 \in T /\ \A i \in 1 .. top : i - 1 \in T => i \in T
  OBVIOUS
<1> HIDE DEF T
<1>2. \A i \in 0 .. top : i \in T
  BY <1>1, CountingTo
<1> QED BY <1>2 DEF T

\* There is a function with this base and this step.
Recurs(S, top, base, step) ==
  \E f \in [0 .. top -> S] : f[0] = base /\ \A i \in 1 .. top : f[i] = step[i][f[i - 1]]

\* A base and a step make a function, if the step stays in the set of values.
LEMMA Recursion ==
  ASSUME NEW S, NEW top \in Nat, NEW base \in S, NEW step \in [1 .. top -> [S -> S]]
  PROVE  Recurs(S, top, base, step)
<1> DEFINE Q(n) == \E f \in [0 .. n -> S] : f[0] = base /\ \A i \in 1 .. n : f[i] = step[i][f[i - 1]]
           T == {n \in 0 .. top : Q(n)}
<1>1. 0 \in T
  <2> DEFINE f == [i \in 0 .. 0 |-> base]
  <2>1. f \in [0 .. 0 -> S] /\ f[0] = base
    OBVIOUS
  <2>2. 1 .. 0 = {}
    OBVIOUS
  <2> HIDE DEF f
  <2>3. Q(0)
    BY <2>1, <2>2
  <2> QED BY <2>3
<1>2. ASSUME NEW n \in 1 .. top, n - 1 \in T PROVE n \in T
  <2>1. PICK f \in [0 .. n - 1 -> S] : f[0] = base /\ \A i \in 1 .. n - 1 : f[i] = step[i][f[i - 1]]
    BY <1>2
  <2> DEFINE g == [i \in 0 .. n |-> IF i = n THEN step[n][f[n - 1]] ELSE f[i]]
  <2>2. n - 1 \in 0 .. n - 1 /\ f[n - 1] \in S /\ step[n] \in [S -> S]
    BY <1>2
  <2>3. \A i \in 0 .. n : i = n \/ i \in 0 .. n - 1
    BY <1>2
  <2>4. g \in [0 .. n -> S]
    BY <2>2, <2>3
  <2>5. g[0] = base
    BY <1>2, <2>1
  <2>6. ASSUME NEW i \in 1 .. n PROVE g[i] = step[i][g[i - 1]]
    <3>1. CASE i = n
      <4>1. n - 1 \in 0 .. n /\ n - 1 # n /\ n \in 0 .. n
        BY <1>2
      <4>2. g[n - 1] = f[n - 1] /\ g[n] = step[n][f[n - 1]]
        BY <4>1
      <4> QED BY <3>1, <4>2
    <3>2. CASE i # n
      <4>1. i \in 1 .. n - 1 /\ i \in 0 .. n /\ i - 1 \in 0 .. n /\ i - 1 # n
        BY <1>2, <3>2
      <4>2. g[i] = f[i] /\ g[i - 1] = f[i - 1]
        BY <3>2, <4>1
      <4> HIDE DEF g
      <4> QED BY <2>1, <4>1, <4>2
    <3> QED BY <3>1, <3>2
  <2> HIDE DEF g
  <2>7. Q(n)
    BY <2>4, <2>5, <2>6
  <2>8. n \in 0 .. top
    BY <1>2
  <2> HIDE DEF Q
  <2> QED BY <2>7, <2>8
<1>3. top \in 0 .. top
  OBVIOUS
<1> HIDE DEF T
<1>4. top \in T
  BY <1>1, <1>2, <1>3, CountingTo
<1> QED BY <1>4 DEF T, Recurs

-----------------------------------------------------------------------------
(* The name of a file.  Whatever it was called where it was sent, here it   *)
(* is one visible component: no character but a safe one is left, it begins *)
(* where the first one that is no dot stands, and what is too long is cut.  *)

Letters == {"x", ".", "/", "*", "c", "f", "i", "l", "e"}
Kept == {"x", ".", "/", "_", "f", "i", "l", "e"}
FileWord == <<"f", "i", "l", "e">>

Fits(s) ==
  /\ Files!ToSet(s) \subseteq {"x", ".", "_", "f", "i", "l", "e"}
  /\ s # <<>> /\ s[1] # "."
  /\ Len(s) <= Files!NameMax \/ s = FileWord

\* A piece of a sequence.
LEMMA PieceOf ==
  ASSUME NEW A, NEW s \in Seq(A), NEW m \in Nat, NEW n \in Nat, 1 <= m, n <= Len(s), m <= n + 1
  PROVE  /\ SubSeq(s, m, n) \in Seq(A) /\ Len(SubSeq(s, m, n)) = n - m + 1
         /\ \A i \in 1 .. n - m + 1 : SubSeq(s, m, n)[i] = s[m + i - 1]
OBVIOUS

\* The last place of a character of a kind, 0 if there is none.
LEMMA LastOfIs == ASSUME NEW A, NEW s \in Seq(A), NEW C PROVE Files!LastOf(s, C) \in 0 .. Len(s)
<1> DEFINE S == {0} \cup {i \in DOMAIN s : s[i] \in C}
           T == {Len(s) - i : i \in S}
<1>1. Len(s) \in Nat /\ S \subseteq 0 .. Len(s) /\ 0 \in S
  OBVIOUS
<1> HIDE DEF S
<1>2. T \subseteq Nat /\ T # {}
  <2>1. \A i \in S : Len(s) - i \in Nat
    BY <1>1
  <2>2. Len(s) - 0 \in T
    BY <1>1
  <2> QED BY <2>1, <2>2
<1> HIDE DEF T
<1>3. PICK t \in T : \A u \in T : t <= u
  BY <1>2, LeastOf
<1>4. PICK i \in S : t = Len(s) - i
  BY <1>3 DEF T
<1>5. \A j \in S : i >= j
  <2> SUFFICES ASSUME NEW j \in S PROVE i >= j
    OBVIOUS
  <2>1. Len(s) - j \in T
    BY DEF T
  <2>2. Len(s) - i <= Len(s) - j
    BY <1>3, <1>4, <2>1
  <2>3. i \in Nat /\ j \in Nat
    BY <1>1
  <2> QED BY <1>1, <2>2, <2>3
<1>6. (CHOOSE x \in S : \A y \in S : x >= y) \in S
  BY <1>5
<1> QED BY <1>1, <1>6 DEF Files!LastOf, Files!Max, S

\* The part after the last separator is made of the same characters.
LEMMA BasenameIs == ASSUME NEW A, NEW s \in Seq(A) PROVE Files!basename(s) \in Seq(A)
<1> DEFINE top == Files!LastOf(s, Files!Char \ {"/"})
           stem == SubSeq(s, 1, top)
           at == Files!LastOf(stem, {"/"})
<1>1. top \in Nat /\ top <= Len(s) /\ Len(s) \in Nat
  BY LastOfIs
<1> HIDE DEF top
<1>2. stem \in Seq(A) /\ Len(stem) \in Nat
  BY <1>1, PieceOf
<1> HIDE DEF stem
<1>3. at \in Nat /\ at <= Len(stem)
  BY <1>2, LastOfIs
<1> HIDE DEF at
<1>4. SubSeq(stem, at + 1, Len(stem)) \in Seq(A)
  BY <1>2, <1>3, PieceOf
<1> QED BY <1>4 DEF Files!basename, at, stem, top

\* What is cleaned has only characters that are kept.
LEMMA CleanedIs == ASSUME NEW s \in Seq(Letters) PROVE Files!Cleaned(s) \in Seq(Kept)
<1> DEFINE top == Len(s)
           D == Seq(Kept)
           mark(n) == IF s[n] = "*" THEN "_" ELSE s[n]
           on(x, n) == IF s[n] = "c" THEN x ELSE Append(x, mark(n))
           body(g, n) == IF n = 0 THEN <<>>
                         ELSE IF s[n] = "c" THEN g[n - 1]
                         ELSE Append(g[n - 1], IF s[n] = "*" THEN "_" ELSE s[n])
           step == [n \in 1 .. top |-> [x \in D |-> on(x, n)]]
<1>0. top \in Nat /\ <<>> \in D /\ \A n \in 1 .. top : s[n] \in Letters
  OBVIOUS
<1> HIDE DEF top
<1>1. \A n \in 1 .. top, x \in D : on(x, n) \in D
  <2>1. \A n \in 1 .. top : s[n] # "c" => mark(n) \in Kept
    BY <1>0 DEF Letters, Kept
  <2> HIDE DEF mark
  <2> QED BY <2>1
<1> HIDE DEF D, on
<1>2. step \in [1 .. top -> [D -> D]] /\ \A n \in 1 .. top, x \in D : step[n][x] = on(x, n)
  BY <1>1
<1> HIDE DEF step, body
<1>3. PICK g \in [0 .. top -> D] : g[0] = <<>> /\ \A i \in 1 .. top : g[i] = step[i][g[i - 1]]
  <2>1. Recurs(D, top, <<>>, step)
    BY <1>0, <1>2, Recursion
  <2> QED BY <2>1 DEF Recurs
<1>4. ASSUME NEW n \in 0 .. top PROVE g[n] = body(g, n)
  <2>1. CASE n = 0
    BY <1>3, <2>1 DEF body
  <2>2. CASE n # 0
    <3>1. n \in 1 .. top /\ n - 1 \in 0 .. top
      BY <1>0, <2>2
    <3>2. g[n] = on(g[n - 1], n)
      BY <1>2, <1>3, <3>1
    <3> QED BY <2>2, <3>2 DEF body, on
  <2> QED BY <2>1, <2>2
<1>5. g = [n \in 0 .. top |-> body(g, n)]
  BY <1>3, <1>4
<1> DEFINE f == CHOOSE h : h = [n \in 0 .. top |-> body(h, n)]
<1>6. Files!Cleaned(s) = f[top]
  BY DEF Files!Cleaned, body, top
<1>7. f = [n \in 0 .. top |-> body(f, n)]
  <2>1. \E h : h = [n \in 0 .. top |-> body(h, n)]
    BY <1>5
  <2> QED BY <2>1
<1> HIDE DEF f
<1>8. \A n \in 0 .. top : f[n] = body(f, n)
  <2> DEFINE b(n) == body(f, n)
  <2>1. f = [n \in 0 .. top |-> b(n)]
    BY <1>7
  <2> HIDE DEF b
  <2>2. \A n \in 0 .. top : f[n] = b(n)
    BY <2>1
  <2> QED BY <2>2 DEF b
<1>9. f[0] = <<>> /\ \A n \in 1 .. top : f[n] = on(f[n - 1], n)
  <2>1. 0 \in 0 .. top /\ \A n \in 1 .. top : n \in 0 .. top /\ n # 0
    BY <1>0
  <2> QED BY <1>8, <2>1 DEF body, on
<1>10. \A n \in 1 .. top : f[n - 1] \in D => f[n] \in D
  BY <1>1, <1>9
<1>11. \A n \in 0 .. top : f[n] \in D
  BY <1>0, <1>9, <1>10, Stays
<1>12. top \in 0 .. top
  BY <1>0
<1> QED BY <1>6, <1>11, <1>12 DEF D

\* The least of two numbers.
LEMMA MinOfTwo == ASSUME NEW a \in Nat, NEW b \in Nat PROVE Files!Min({a, b}) \in {a, b} /\ Files!Min({a, b}) <= a /\ Files!Min({a, b}) <= b
<1> DEFINE S == {a, b}
<1>1. S \subseteq Nat /\ S # {}
  OBVIOUS
<1> HIDE DEF S
<1>2. \E m \in S : \A n \in S : m <= n
  BY <1>1, LeastOf
<1>3. Files!Min(S) \in S /\ \A n \in S : Files!Min(S) <= n
  BY <1>2 DEF Files!Min
<1> QED BY <1>3 DEF S

\* Whatever the name was, the one that is chosen fits.
LEMMA NamesFit == ASSUME NEW raw \in Files!RawName, NEW s \in Files!containedPath(raw) PROVE Fits(s)
<1> DEFINE clean == Files!Cleaned(Files!basename(raw))
           visible == {i \in DOMAIN clean : clean[i] # "."}
           at == Files!Min(visible)
           bare == IF visible = {} THEN <<>> ELSE SubSeq(clean, at, Len(clean))
           full == IF bare = <<>> THEN FileWord ELSE bare
           dot == Files!LastOf(full, {"."})
           ext0 == Files!extname(full)
           cut == Files!Min({Files!ExtMax, Len(ext0)})
           ext == SubSeq(ext0, 1, cut)
           stump == SubSeq(full, 1, 2 - Len(ext))
<1>1. s = IF Len(bare) > 2 THEN stump \o ext ELSE full
  BY DEF Files!containedPath, Files!safeFilename, Files!NameMax, FileWord
<1>2. "/" \notin Files!ToSet(s)
  BY DEF Files!containedPath
<1>3. raw \in Seq(Letters)
  <2>1. CASE raw = FileWord
    BY <2>1 DEF FileWord, Letters
  <2>2. ASSUME NEW m \in 0 .. 3, raw \in [1 .. m -> Files!Char] PROVE raw \in Seq(Letters)
    <3>1. Files!Char \subseteq Letters /\ m \in Nat
      BY DEF Files!Char, Letters
    <3> QED BY <2>2, <3>1
  <2> QED BY <2>1, <2>2 DEF Files!RawName, Files!SeqOf, Files!NameMax, FileWord
<1>4. clean \in Seq(Kept)
  BY <1>3, BasenameIs, CleanedIs
<1> HIDE DEF clean
<1>5. visible \subseteq DOMAIN clean /\ DOMAIN clean = 1 .. Len(clean) /\ Len(clean) \in Nat
  BY <1>4
<1>6. visible # {} => at \in visible /\ at \in 1 .. Len(clean) /\ clean[at] # "."
  <2>1. visible # {} => at \in visible
    <3>1. visible \subseteq Nat
      BY <1>5
    <3> HIDE DEF visible
    <3>2. visible # {} => \E m \in visible : \A n \in visible : m <= n
      BY <3>1, LeastOf
    <3> QED BY <3>2 DEF Files!Min
  <2> QED BY <1>5, <2>1
<1> HIDE DEF visible, at
<1>7. bare \in Seq(Kept) /\ (bare # <<>> => bare[1] # ".")
  <2>1. CASE visible = {}
    BY <2>1
  <2>2. CASE visible # {}
    <3>1. at \in Nat /\ 1 <= at /\ at <= Len(clean) /\ Len(clean) \in Nat /\ clean[at] # "."
      BY <1>5, <1>6, <2>2
    <3>2. bare = SubSeq(clean, at, Len(clean))
      BY <2>2
    <3>3. SubSeq(clean, at, Len(clean)) \in Seq(Kept) /\ SubSeq(clean, at, Len(clean))[1] = clean[at + 1 - 1]
      <4>1. 1 \in 1 .. Len(clean) - at + 1
        BY <3>1
      <4> QED BY <1>4, <3>1, <4>1, PieceOf
    <3> QED BY <3>1, <3>2, <3>3
  <2> QED BY <2>1, <2>2
<1> HIDE DEF bare
<1>8. /\ full \in Seq(Kept) /\ full # <<>> /\ full[1] # "." /\ Len(full) \in Nat /\ Len(full) >= 1
      /\ full = FileWord \/ full = bare
  <2>1. FileWord \in Seq(Kept) /\ FileWord # <<>> /\ FileWord[1] # "."
    BY DEF FileWord, Kept
  <2>2. full \in Seq(Kept) /\ full # <<>> /\ full[1] # "." /\ (full = FileWord \/ full = bare)
    BY <1>7, <2>1
  <2> HIDE DEF full
  <2> QED BY <2>2
<1>9. Len(bare) > 2 => full = bare
  BY <1>7
<1> HIDE DEF full
<1>10. ext0 \in Seq(Kept)
  <2>1. dot \in Nat /\ dot <= Len(full)
    BY <1>8, LastOfIs
  <2>2. ext0 = IF dot <= 1 THEN <<>> ELSE SubSeq(full, dot, Len(full))
    BY DEF Files!extname
  <2> HIDE DEF dot, ext0
  <2>3. ~(dot <= 1) => SubSeq(full, dot, Len(full)) \in Seq(Kept)
    BY <1>8, <2>1, PieceOf
  <2> QED BY <2>2, <2>3
<1> HIDE DEF ext0
<1>11. cut \in Nat /\ cut <= Len(ext0) /\ cut <= 1
  BY <1>10, MinOfTwo DEF Files!ExtMax
<1> HIDE DEF cut
<1>12. ext \in Seq(Kept) /\ Len(ext) = cut
  BY <1>10, <1>11, PieceOf
<1> HIDE DEF ext
<1>13. s \in Seq(Kept) /\ s # <<>> /\ s[1] # "." /\ (Len(s) <= 2 \/ s = FileWord)
  <2>1. CASE Len(bare) > 2
    <3>1. 2 - Len(ext) \in Nat /\ 1 <= 2 - Len(ext) /\ 2 - Len(ext) <= Len(full) /\ Len(ext) \in Nat
      BY <1>8, <1>9, <1>11, <1>12, <2>1
    <3>2. stump \in Seq(Kept) /\ Len(stump) = 2 - Len(ext) /\ stump[1] = full[1]
      <4>1. stump \in Seq(Kept) /\ Len(stump) = 2 - Len(ext) - 1 + 1 /\ \A i \in 1 .. 2 - Len(ext) - 1 + 1 : stump[i] = full[1 + i - 1]
        BY <1>8, <3>1, PieceOf
      <4>2. 1 \in 1 .. 2 - Len(ext) - 1 + 1
        BY <3>1
      <4> HIDE DEF stump
      <4> QED BY <3>1, <4>1, <4>2
    <3> HIDE DEF stump
    <3>3. stump \o ext \in Seq(Kept) /\ Len(stump \o ext) = 2 /\ (stump \o ext)[1] = stump[1]
      BY <1>12, <3>1, <3>2
    <3> QED BY <1>1, <1>8, <2>1, <3>2, <3>3
  <2>2. CASE ~(Len(bare) > 2)
    <3>1. s = full
      BY <1>1, <2>2
    <3>2. Len(bare) \in Nat
      BY <1>7
    <3> QED BY <1>8, <2>2, <3>1, <3>2
  <2> QED BY <2>1, <2>2
<1>14. \A i \in DOMAIN s : s[i] \in Kept /\ s[i] # "/"
  BY <1>2, <1>13 DEF Files!ToSet
<1>15. Files!ToSet(s) \subseteq {"x", ".", "_", "f", "i", "l", "e"}
  BY <1>14 DEF Files!ToSet, Kept
<1> QED BY <1>13, <1>15 DEF Fits, Files!NameMax

-----------------------------------------------------------------------------
(* Files over topics.  What a pointer of ours announces is published and    *)
(* stays so; a fetch that has a name for its file got what it asked for;    *)
(* two that have the same one chose it before either wrote.                 *)

Announced ==
  /\ sending \in [Content -> {"idle", "pointer", "sent"}]
  /\ bytesAt \in [Content -> Content \cup {NoContent}]
  /\ \A c \in Content : sending[c] = "pointer" => c \notin Large /\ bytesAt[c] # NoContent
  /\ \A m \in pointers : m.by = "us" => m.hash \in Content \ Large /\ bytesAt[m.hash] # NoContent

Chose(f) == fetching[f] \in {"named", "saved"}
OnDisk(path) == \E d \in disk : d.path = path

Chosen ==
  /\ fetching \in [Fetcher -> {"idle", "asked", "named", "saved", "refused"}]
  /\ DOMAIN asked = Fetcher /\ DOMAIN arrived = Fetcher /\ DOMAIN chosen = Fetcher
  /\ \A f \in Fetcher : Chose(f) => arrived[f] = asked[f] /\ Fits(chosen[f].name)
  /\ \A f, g \in Fetcher : f # g /\ Chose(f) /\ Chose(g) /\ chosen[f] = chosen[g] => chosen[f] \in shared
  /\ \A f \in Fetcher : fetching[f] = "saved" =>
       /\ OnDisk(chosen[f])
       /\ chosen[f] \in shared \/ [path |-> chosen[f], content |-> asked[f]] \in disk

FileIInv == Announced /\ Chosen

\* What others post is not by us.
LEMMA PostsAreTheirs ==
  ASSUME NEW c, NEW field \in {"v", "kind", "bytes", "encoding", "by"}
  PROVE  [[Files!makePointer(c) EXCEPT !.by = "them"] EXCEPT ![field] = "other"].by # "us"
BY DEF Files!makePointer

\* Sending, and what others do to the topics, keeps what was announced.
LEMMA SendingKeeps ==
  ASSUME FileIInv,
         (\E c \in Content : Files!PublishBytes(c) \/ Files!PublishPointer(c) \/ Files!Foreign(c)) \/ Files!OthersPost
  PROVE  FileIInv'
<1>0. Announced /\ Chosen
  BY DEF FileIInv
<1>1. UNCHANGED <<fetching, asked, arrived, chosen, disk, shared>>
  BY DEF Files!PublishBytes, Files!PublishPointer, Files!Foreign, Files!OthersPost, Files!fetchVars
<1>2. Chosen'
  BY <1>0, <1>1 DEF Chosen, Chose, OnDisk
<1>3. ASSUME NEW c \in Content, Files!PublishBytes(c) PROVE Announced'
  BY <1>0, <1>3, VerdictsAssumption DEF Announced, Files!PublishBytes
<1>4. ASSUME NEW c \in Content, Files!PublishPointer(c) PROVE Announced'
  <2>1. /\ sending[c] = "pointer" /\ sending' = [sending EXCEPT ![c] = "sent"] /\ bytesAt' = bytesAt
        /\ pointers' = pointers \cup {Files!makePointer(c)} /\ Files!makePointer(c).hash = c
    BY <1>4 DEF Files!PublishPointer, Files!makePointer
  <2> QED BY <1>0, <2>1 DEF Announced
<1>5. ASSUME NEW c \in Content, Files!Foreign(c) PROVE Announced'
  BY <1>0, <1>5, VerdictsAssumption DEF Announced, Files!Foreign
<1>6. ASSUME Files!OthersPost PROVE Announced'
  <2>1. PICK m : /\ pointers' = pointers \cup {m} /\ m.by # "us" /\ UNCHANGED <<sending, bytesAt>>
    BY <1>6, PostsAreTheirs DEF Files!OthersPost
  <2> QED BY <1>0, <2>1 DEF Announced
<1> QED BY <1>2, <1>3, <1>4, <1>5, <1>6 DEF FileIInv

\* So does a fetch, and it keeps what was chosen.
LEMMA FetchingKeeps ==
  ASSUME FileIInv, NEW f \in Fetcher, Files!Ask(f) \/ Files!Verified(f) \/ Files!Refused(f) \/ Files!WriteOut(f)
  PROVE  FileIInv'
<1>0. Announced /\ Chosen
  BY DEF FileIInv
<1>1. UNCHANGED <<sending, bytesAt, pointers>>
  BY DEF Files!Ask, Files!Verified, Files!Refused, Files!WriteOut, Files!FreshName, Files!Name, Files!sendVars
<1>2. Announced'
  BY <1>0, <1>1 DEF Announced
<1>3. CASE Files!Ask(f)
  <2>1. /\ fetching[f] = "idle" /\ fetching' = [fetching EXCEPT ![f] = "asked"]
        /\ \E c : asked' = [asked EXCEPT ![f] = c]
        /\ UNCHANGED <<arrived, chosen, disk, shared>>
    BY <1>3 DEF Files!Ask
  <2>2. \A g \in Fetcher : Chose(g)' => g # f /\ Chose(g) /\ asked'[g] = asked[g] /\ fetching'[g] = fetching[g]
    BY <1>0, <2>1 DEF Chosen, Chose
  <2>3. \A g \in Fetcher : fetching'[g] = "saved" => Chose(g)' /\ fetching[g] = "saved"
    BY <1>0, <2>1 DEF Chosen, Chose
  <2>4. /\ fetching' \in [Fetcher -> {"idle", "asked", "named", "saved", "refused"}] /\ DOMAIN asked' = Fetcher
    BY <1>0, <2>1 DEF Chosen
  <2> QED BY <1>0, <1>2, <2>1, <2>2, <2>3, <2>4 DEF FileIInv, Chosen, OnDisk
<1>4. CASE Files!Refused(f)
  <2>1. /\ fetching[f] = "asked" /\ fetching' = [fetching EXCEPT ![f] = "refused"]
        /\ UNCHANGED <<asked, arrived, chosen, disk, shared>>
    BY <1>4 DEF Files!Refused
  <2>2. \A g \in Fetcher : Chose(g)' => Chose(g)
    BY <1>0, <2>1 DEF Chosen, Chose
  <2>3. \A g \in Fetcher : fetching'[g] = "saved" => fetching[g] = "saved"
    BY <1>0, <2>1 DEF Chosen
  <2>4. fetching' \in [Fetcher -> {"idle", "asked", "named", "saved", "refused"}]
    BY <1>0, <2>1 DEF Chosen
  <2> QED BY <1>0, <1>2, <2>1, <2>2, <2>3, <2>4 DEF FileIInv, Chosen, OnDisk
<1>5. CASE Files!Verified(f)
  <2>1. PICK raw \in Files!RawName : \E s \in Files!containedPath(raw), n \in 1 .. PathBound :
          Files!FreePath(s, n) /\ Files!Name(f, [name |-> s, n |-> n])
    BY <1>5 DEF Files!Verified, Files!FreshName
  <2>2. PICK s \in Files!containedPath(raw), n \in 1 .. PathBound :
          Files!FreePath(s, n) /\ Files!Name(f, [name |-> s, n |-> n])
    BY <2>1
  <2> DEFINE path == [name |-> s, n |-> n]
  <2>3. Fits(path.name) /\ ~OnDisk(path)
    <3>1. Fits(s)
      BY NamesFit
    <3>2. ~OnDisk(path)
      BY <2>2 DEF Files!FreePath, Files!Taken, OnDisk
    <3> QED BY <3>1, <3>2
  <2>4. /\ fetching[f] = "asked" /\ fetching' = [fetching EXCEPT ![f] = "named"]
        /\ arrived' = [arrived EXCEPT ![f] = asked[f]] /\ chosen' = [chosen EXCEPT ![f] = path]
        /\ shared \subseteq shared'
        /\ (\E g \in Fetcher : fetching[g] = "named" /\ chosen[g] = path) => path \in shared'
        /\ UNCHANGED <<asked, disk>>
    BY <1>5, <2>2 DEF Files!Verified, Files!Name
  <2> HIDE DEF path
  <2>5. /\ fetching' \in [Fetcher -> {"idle", "asked", "named", "saved", "refused"}]
        /\ DOMAIN arrived' = Fetcher /\ DOMAIN chosen' = Fetcher
        /\ chosen'[f] = path /\ arrived'[f] = asked[f]
        /\ \A g \in Fetcher \ {f} : /\ fetching'[g] = fetching[g] /\ chosen'[g] = chosen[g] /\ arrived'[g] = arrived[g]
                                    /\ Chose(g)' <=> Chose(g)
    BY <1>0, <2>4 DEF Chosen, Chose
  <2>6. \A g \in Fetcher : Chose(g)' => arrived'[g] = asked'[g] /\ Fits(chosen'[g].name)
    BY <1>0, <2>3, <2>4, <2>5 DEF Chosen
  <2>7. ASSUME NEW g \in Fetcher \ {f}, Chose(g), chosen[g] = path PROVE path \in shared'
    <3>1. fetching[g] # "saved"
      BY <1>0, <2>3, <2>7 DEF Chosen
    <3> QED BY <2>4, <2>7, <3>1 DEF Chose
  <2>8. ASSUME NEW g \in Fetcher, NEW h \in Fetcher, g # h, Chose(g)', Chose(h)', chosen'[g] = chosen'[h]
        PROVE  chosen'[g] \in shared'
    <3>1. CASE g = f
      BY <2>5, <2>7, <2>8, <3>1
    <3>2. CASE h = f
      BY <2>5, <2>7, <2>8, <3>2
    <3>3. CASE g # f /\ h # f
      BY <1>0, <2>4, <2>5, <2>8, <3>3 DEF Chosen
    <3> QED BY <3>1, <3>2, <3>3
  <2>9. \A g \in Fetcher : fetching'[g] = "saved" => g # f /\ fetching[g] = "saved"
    BY <1>0, <2>4 DEF Chosen
  <2>10. \A g \in Fetcher : fetching'[g] = "saved" =>
           /\ OnDisk(chosen[g])' /\ chosen'[g] = chosen[g]
           /\ chosen'[g] \in shared' \/ [path |-> chosen'[g], content |-> asked'[g]] \in disk'
    BY <1>0, <2>4, <2>5, <2>9 DEF Chosen, OnDisk
  <2> QED BY <1>0, <1>2, <2>4, <2>5, <2>6, <2>8, <2>10 DEF FileIInv, Chosen, OnDisk
<1>6. CASE Files!WriteOut(f)
  <2> DEFINE file == [path |-> chosen[f], content |-> arrived[f]]
  <2>1. /\ fetching[f] = "named" /\ fetching' = [fetching EXCEPT ![f] = "saved"]
        /\ disk' = {d \in disk : d.path # chosen[f]} \cup {file} /\ file.path = chosen[f]
        /\ UNCHANGED <<asked, arrived, chosen, shared>>
    BY <1>6 DEF Files!WriteOut
  <2>2. file = [path |-> chosen[f], content |-> asked[f]]
    BY <1>0, <2>1 DEF Chosen, Chose
  <2> HIDE DEF file
  <2>3. /\ fetching' \in [Fetcher -> {"idle", "asked", "named", "saved", "refused"}]
        /\ \A g \in Fetcher : Chose(g)' <=> Chose(g)
        /\ \A g \in Fetcher : fetching'[g] = "saved" => g = f \/ fetching[g] = "saved"
    BY <1>0, <2>1 DEF Chosen, Chose
  <2>4. \A p : OnDisk(p) => OnDisk(p)'
    <3> SUFFICES ASSUME NEW d \in disk PROVE \E e \in disk' : e.path = d.path
      BY DEF OnDisk
    <3>1. CASE d.path = chosen[f]
      BY <2>1, <3>1
    <3>2. CASE d.path # chosen[f]
      BY <2>1, <3>2
    <3> QED BY <3>1, <3>2
  <2>5. OnDisk(chosen[f])'
    <3>1. \E e \in disk' : e.path = chosen[f]
      BY <2>1
    <3> QED BY <2>1, <3>1 DEF OnDisk
  <2>6. ASSUME NEW g \in Fetcher, fetching'[g] = "saved", chosen[g] \notin shared
        PROVE  [path |-> chosen[g], content |-> asked[g]] \in disk'
    <3>1. CASE g = f
      BY <2>1, <2>2, <3>1
    <3>2. CASE g # f
      <4>1. fetching[g] = "saved" /\ Chose(g) /\ Chose(f)
        BY <2>1, <2>3, <2>6, <3>2 DEF Chose
      <4>2. chosen[g] # chosen[f]
        BY <1>0, <2>6, <3>2, <4>1 DEF Chosen
      <4>3. [path |-> chosen[g], content |-> asked[g]] \in disk
        BY <1>0, <2>6, <4>1 DEF Chosen
      <4> QED BY <2>1, <4>2, <4>3
    <3> QED BY <3>1, <3>2
  <2>7. \A g \in Fetcher : fetching'[g] = "saved" => OnDisk(chosen[g])'
    BY ZenonT(60), <1>0, <2>1, <2>3, <2>4, <2>5 DEF Chosen, OnDisk
  <2> QED BY <1>0, <1>2, <2>1, <2>3, <2>6, <2>7 DEF FileIInv, Chosen, OnDisk
<1> QED BY <1>3, <1>4, <1>5, <1>6

\* So every step of the files keeps it.
LEMMA FilesKept == ASSUME FileIInv, [Files!FileStep]_(Files!fileVars) PROVE FileIInv'
<1>1. CASE UNCHANGED Files!fileVars
  BY <1>1 DEF Files!fileVars, FileIInv, Announced, Chosen, Chose, OnDisk
<1>2. CASE Files!FileStep
  BY <1>2, SendingKeeps, FetchingKeeps DEF Files!FileStep
<1> QED BY <1>1, <1>2

\* It holds before anything is sent.
LEMMA FilesBegin == Files!FileInit => FileIInv
BY DEF Files!FileInit, FileIInv, Announced, Chosen, Chose

\* What is saved is what was asked, and what is announced was published.
LEMMA FilesTrue == ASSUME FileIInv PROVE Files!SavedIsWhatWasAsked /\ Files!AnnouncedIsPublished
<1>0. Announced /\ Chosen
  BY DEF FileIInv
<1>1. Files!SavedIsWhatWasAsked
  BY <1>0 DEF Files!SavedIsWhatWasAsked, Chosen, Chose, Fits, FileWord
<1>2. \A m \in pointers : m.by = "us" => m.hash \notin Large /\ bytesAt[m.hash] # NoContent
  BY <1>0 DEF Announced
<1>3. NoContent \notin Files!Listed
  BY DEF Files!Listed, Files!readPointer
<1> QED BY <1>1, <1>2, <1>3 DEF Files!AnnouncedIsPublished

\* A file that was saved is the one that was asked for, under a name of its
\* own that fits, unless two fetches chose that name before either wrote, and
\* only what was published is announced: for any contents, any number of
\* fetches and any name a file had where it was sent.
THEOREM SavedAndAnnounced == ToolSpec => []FilesAreWhatTheySay
<1>1. ToolInit => FileIInv
  BY FilesBegin DEF ToolInit
<1>2. [ToolNext]_toolVars => [Files!FileStep]_(Files!fileVars)
  BY DEF ToolNext, toolVars, Others, filesVs, Files!fileVars
<1>3. FileIInv /\ [ToolNext]_toolVars => FileIInv'
  BY <1>2, FilesKept
<1>4. FileIInv => FilesAreWhatTheySay
  BY FilesTrue DEF FilesAreWhatTheySay
<1> QED BY <1>1, <1>3, <1>4, PTL DEF ToolSpec

-----------------------------------------------------------------------------
(* One measured publish.  The topic holds no message but those of the       *)
(* publisher's lives so far, and the join has every observation of the      *)
(* message it is about, none older than its intent; the rows of the         *)
(* reader's lives stand in order around its observations.                   *)

RunTypeOK ==
  /\ moment \in Nat /\ moment <= LastMoment /\ missedKill \in BOOLEAN
  /\ pub \in [life : Nat, stage : {"down", "up", "pubbing", "done"}]
  /\ rd \in [life : Nat, stage : {"down", "up", "ready"}]
  /\ op \in [msg : Nat, intentAt : Nat, confirmed : {"none", "true", "false"}, apiAt : Nat,
             obs : SUBSET (Nat \X Nat \X Nat)]
  /\ inTopic \subseteq Nat /\ seenBy \subseteq Nat \X Nat \X Nat
  /\ lifeRows \subseteq Nat \X Nat \X {"start", "kill"}

MessagesKnown ==
  /\ op.msg <= pub.life /\ (pub.stage = "up" => op.msg < pub.life)
  /\ inTopic \subseteq 1 .. op.msg /\ op.intentAt <= moment
  /\ op.obs \subseteq seenBy
  /\ \A s \in seenBy : s[1] \in inTopic /\ (s[1] = op.msg => s \in op.obs)
  /\ \A s \in op.obs : s[3] >= op.intentAt

RowOf(l, what) == \E r \in lifeRows : r[2] = l /\ r[3] = what

LivesOnFile ==
  /\ rd.stage # "down" => rd.life # 0
  /\ \A r \in lifeRows : r[1] < moment /\ r[2] \in 1 .. rd.life
  /\ \A l \in 1 .. rd.life : RowOf(l, "start") /\ (l < rd.life \/ rd.stage = "down" => RowOf(l, "kill"))
  /\ ~missedKill /\ rd.stage # "down" => ~RowOf(rd.life, "kill")

SeenBetween ==
  \A s \in seenBy :
    /\ s[2] \in 1 .. rd.life /\ s[3] <= moment
    /\ \A r \in lifeRows : r[2] < s[2] \/ (r[2] = s[2] /\ r[3] = "start") => r[1] < s[3]
    /\ ~missedKill => \A r \in lifeRows : r[2] = s[2] /\ r[3] = "kill" => s[3] <= r[1]

RunIInv == RunTypeOK /\ MessagesKnown /\ LivesOnFile /\ SeenBetween

\* The publisher, the topic and time.
LEMMA PublisherKeeps ==
  ASSUME RunIInv,
         Harness!TimePasses \/ Harness!StartPublisher \/ Harness!Publish \/ Harness!ApiRow
           \/ Harness!KillPublisher \/ \E m \in Harness!Life : Harness!ReachesTopic(m)
  PROVE  RunIInv'
<1>0. RunTypeOK /\ MessagesKnown /\ LivesOnFile /\ SeenBetween
  BY DEF RunIInv
<1>1. UNCHANGED <<rd, seenBy, lifeRows, missedKill>> /\ moment <= moment' /\ RunTypeOK'
  <2>1. CASE Harness!TimePasses
    BY <1>0, <2>1, VerdictsAssumption DEF Harness!TimePasses, RunTypeOK
  <2>2. CASE Harness!StartPublisher \/ Harness!KillPublisher
    BY <1>0, <2>2 DEF Harness!StartPublisher, Harness!KillPublisher, RunTypeOK
  <2>3. CASE Harness!Publish
    <3>1. op' = [msg |-> pub.life, intentAt |-> moment, confirmed |-> "none", apiAt |-> 0, obs |-> {}]
      BY <2>3 DEF Harness!Publish, Harness!NoOp
    <3>2. pub' = [pub EXCEPT !.stage = "pubbing"] /\ UNCHANGED <<moment, rd, inTopic, seenBy, lifeRows, missedKill>>
      BY <2>3 DEF Harness!Publish
    <3> QED BY <1>0, <3>1, <3>2 DEF RunTypeOK
  <2>4. CASE Harness!ApiRow
    <3>1. PICK c \in {"true", "false"} : op' = [op EXCEPT !.confirmed = c, !.apiAt = moment]
      BY <2>4 DEF Harness!ApiRow
    <3>2. op' = [msg |-> op.msg, intentAt |-> op.intentAt, confirmed |-> c, apiAt |-> moment, obs |-> op.obs]
      BY <1>0, <3>1 DEF RunTypeOK
    <3>3. pub' = [pub EXCEPT !.stage = "done"] /\ UNCHANGED <<moment, rd, inTopic, seenBy, lifeRows, missedKill>>
      BY <2>4 DEF Harness!ApiRow
    <3> QED BY <1>0, <3>2, <3>3 DEF RunTypeOK
  <2>5. ASSUME NEW m \in Harness!Life, Harness!ReachesTopic(m) PROVE <1>1!:
    BY <1>0, <2>5 DEF Harness!ReachesTopic, RunTypeOK
  <2> QED BY <2>1, <2>2, <2>3, <2>4, <2>5
<1>2. MessagesKnown'
  <2>1. CASE Harness!TimePasses
    BY <1>0, <2>1 DEF Harness!TimePasses, RunTypeOK, MessagesKnown
  <2>2. CASE Harness!StartPublisher \/ Harness!KillPublisher
    BY <1>0, <2>2 DEF Harness!StartPublisher, Harness!KillPublisher, RunTypeOK, MessagesKnown
  <2>3. CASE Harness!Publish
    <3>1. /\ op'.msg = pub.life /\ op'.intentAt = moment /\ op'.obs = {}
          /\ pub'.life = pub.life /\ pub'.stage = "pubbing" /\ pub.stage = "up" /\ UNCHANGED <<moment, seenBy, inTopic>>
      BY <1>0, <2>3 DEF Harness!Publish, Harness!NoOp, RunTypeOK
    <3> QED BY <1>0, <3>1 DEF RunTypeOK, MessagesKnown
  <2>4. CASE Harness!ApiRow
    <3>1. /\ op'.msg = op.msg /\ op'.intentAt = op.intentAt /\ op'.obs = op.obs
          /\ pub'.life = pub.life /\ pub'.stage = "done" /\ UNCHANGED <<moment, seenBy, inTopic>>
      BY <1>0, <2>4 DEF Harness!ApiRow, RunTypeOK
    <3> QED BY <1>0, <3>1 DEF RunTypeOK, MessagesKnown
  <2>5. ASSUME NEW m \in Harness!Life, Harness!ReachesTopic(m) PROVE MessagesKnown'
    BY <1>0, <2>5 DEF Harness!ReachesTopic, RunTypeOK, MessagesKnown
  <2> QED BY <2>1, <2>2, <2>3, <2>4, <2>5
<1>3. moment \in Nat /\ moment' \in Nat /\ rd.life \in Nat
  BY <1>0, <1>1 DEF RunTypeOK
<1>4. LivesOnFile'
  BY <1>0, <1>1, <1>3 DEF LivesOnFile, RowOf, RunTypeOK
<1>5. SeenBetween'
  BY <1>0, <1>1, <1>3 DEF SeenBetween, RunTypeOK
<1> QED BY <1>1, <1>2, <1>4, <1>5 DEF RunIInv

\* The reader starts, subscribes and is killed.
LEMMA ReaderLives ==
  ASSUME RunIInv, Harness!StartReader \/ Harness!Subscribes \/ Harness!KillReader
  PROVE  RunIInv'
<1>0. RunTypeOK /\ MessagesKnown /\ LivesOnFile /\ SeenBetween
  BY DEF RunIInv
<1>1. UNCHANGED <<pub, inTopic, op, seenBy>> /\ moment <= moment' /\ RunTypeOK'
  <2>1. CASE Harness!StartReader
    <3>1. moment + 1 <= LastMoment
      BY <1>0, <2>1, VerdictsAssumption DEF Harness!StartReader, RunTypeOK
    <3> QED BY <1>0, <2>1, <3>1 DEF Harness!StartReader, RunTypeOK
  <2>2. CASE Harness!Subscribes
    BY <1>0, <2>2 DEF Harness!Subscribes, RunTypeOK
  <2>3. CASE Harness!KillReader
    <3>1. moment + 1 <= LastMoment
      BY <1>0, <2>3, VerdictsAssumption DEF Harness!KillReader, RunTypeOK
    <3>2. rd' \in [life : Nat, stage : {"down", "up", "ready"}] /\ missedKill' \in BOOLEAN
      <4>1. CASE rd' = [rd EXCEPT !.stage = "down"] /\ missedKill' = missedKill
        BY <1>0, <4>1 DEF RunTypeOK
      <4>2. CASE missedKill' = TRUE /\ rd' = rd
        BY <1>0, <4>2 DEF RunTypeOK
      <4> QED BY <2>3, <4>1, <4>2 DEF Harness!KillReader
    <3> QED BY <1>0, <2>3, <3>1, <3>2 DEF Harness!KillReader, RunTypeOK
  <2> QED BY <2>1, <2>2, <2>3
<1>2. MessagesKnown'
  BY <1>0, <1>1 DEF RunTypeOK, MessagesKnown
<1>3. LivesOnFile' /\ SeenBetween'
  <2>1. CASE Harness!StartReader
    <3>1. /\ rd'.life = rd.life + 1 /\ rd'.stage = "up" /\ moment' = moment + 1 /\ missedKill' = missedKill
          /\ rd.stage = "down" /\ lifeRows' = lifeRows \cup {<<moment, rd.life + 1, "start">>}
      BY <2>1 DEF Harness!StartReader
    <3> DEFINE new == <<moment, rd.life + 1, "start">>
    <3>2. new[1] = moment /\ new[2] = rd.life + 1 /\ new[3] = "start" /\ rd.life \in Nat /\ moment \in Nat
      BY <1>0 DEF RunTypeOK
    <3>3. \A r \in lifeRows' : r \in lifeRows \/ r = new
      BY <3>1
    <3>4. new \in lifeRows' /\ lifeRows \subseteq lifeRows'
      BY <3>1
    <3> HIDE DEF new
    <3>5. \A r \in lifeRows : r[1] < moment /\ r[2] \in 1 .. rd.life /\ r[1] \in Nat
      BY <1>0 DEF LivesOnFile, RunTypeOK
    <3>6. \A r \in lifeRows' : r[1] < moment' /\ r[2] \in 1 .. rd'.life
      BY <3>1, <3>2, <3>3, <3>5
    <3>8. /\ \E r \in lifeRows' : r[2] = rd'.life /\ r[3] = "start"
          /\ ~\E r \in lifeRows' : r[2] = rd'.life /\ r[3] = "kill"
      BY <3>1, <3>2, <3>3, <3>4, <3>5
    <3>9. \A l \in 1 .. rd'.life :
             /\ \E r \in lifeRows' : r[2] = l /\ r[3] = "start"
             /\ l < rd'.life => \E r \in lifeRows' : r[2] = l /\ r[3] = "kill"
      <4> SUFFICES ASSUME NEW l \in 1 .. rd'.life
                   PROVE  /\ \E r \in lifeRows' : r[2] = l /\ r[3] = "start"
                          /\ l < rd'.life => \E r \in lifeRows' : r[2] = l /\ r[3] = "kill"
        OBVIOUS
      <4>1. CASE l = rd'.life
        BY <3>2, <3>1, <3>8, <4>1
      <4>2. CASE l # rd'.life
        <5>1. l \in 1 .. rd.life
          BY <3>1, <3>2, <4>2
        <5>2. RowOf(l, "start") /\ RowOf(l, "kill")
          BY <1>0, <3>1, <5>1 DEF LivesOnFile
        <5> QED BY <3>4, <5>2 DEF RowOf
      <4> QED BY <4>1, <4>2
    <3>10. LivesOnFile'
      BY <3>1, <3>2, <3>6, <3>8, <3>9 DEF LivesOnFile, RowOf
    <3>11. SeenBetween'
      BY <1>0, <1>1, <3>1 DEF SeenBetween, RunTypeOK
    <3> QED BY <3>10, <3>11
  <2>2. CASE Harness!Subscribes
    <3>1. rd'.life = rd.life /\ rd'.stage = "ready" /\ rd.stage = "up" /\ UNCHANGED <<moment, lifeRows, missedKill>>
      BY <1>0, <2>2 DEF Harness!Subscribes, RunTypeOK
    <3> QED BY <1>0, <1>1, <3>1 DEF LivesOnFile, RowOf, SeenBetween
  <2>3. CASE Harness!KillReader
    <3>1. /\ rd'.life = rd.life /\ moment' = moment + 1 /\ rd.stage # "down"
          /\ lifeRows' = lifeRows \cup {<<moment, rd.life, "kill">>}
          /\ (rd'.stage = "down" /\ missedKill' = missedKill) \/ (rd' = rd /\ missedKill' = TRUE)
      BY <1>0, <2>3 DEF Harness!KillReader, RunTypeOK
    <3> DEFINE new == <<moment, rd.life, "kill">>
    <3>2. new[1] = moment /\ new[2] = rd.life /\ new[3] = "kill" /\ rd.life \in Nat /\ moment \in Nat
      BY <1>0 DEF RunTypeOK
    <3>3. \A r \in lifeRows' : r \in lifeRows \/ r = new
      BY <3>1
    <3>4. new \in lifeRows' /\ lifeRows \subseteq lifeRows'
      BY <3>1
    <3> HIDE DEF new
    <3>5. \A r \in lifeRows' : r[1] < moment' /\ r[2] \in 1 .. rd'.life
      BY <1>0, <3>1, <3>2, <3>3 DEF LivesOnFile, RunTypeOK
    <3>6. \A l, x : RowOf(l, x) => RowOf(l, x)'
      BY <3>4 DEF RowOf
    <3>7. RowOf(rd.life, "kill")'
      BY <3>1, <3>2, <3>4 DEF RowOf
    <3>8. LivesOnFile'
      BY <1>0, <3>1, <3>2, <3>5, <3>6, <3>7 DEF LivesOnFile
    <3>9. SeenBetween'
      BY <1>0, <1>1, <3>1 DEF SeenBetween, RunTypeOK
    <3> QED BY <3>8, <3>9
  <2> QED BY <2>1, <2>2, <2>3
<1> QED BY <1>1, <1>2, <1>3 DEF RunIInv

\* The reader is handed a message.
LEMMA ObservationKeeps ==
  ASSUME RunIInv, NEW m \in Harness!Life, Harness!Observe(m)
  PROVE  RunIInv'
<1>0. RunTypeOK /\ MessagesKnown /\ LivesOnFile /\ SeenBetween
  BY DEF RunIInv
<1> DEFINE new == <<m, rd.life, moment>>
<1>1. /\ rd.stage = "ready" /\ m \in inTopic /\ seenBy' = seenBy \cup {new}
      /\ op'.obs = op.obs \cup {new} /\ op'.msg = op.msg /\ op'.intentAt = op.intentAt
      /\ op'.confirmed = op.confirmed /\ op'.apiAt = op.apiAt
      /\ UNCHANGED <<moment, pub, rd, inTopic, lifeRows, missedKill>>
  BY <1>0 DEF Harness!Observe, RunTypeOK
<1>2. new \in Nat \X Nat \X Nat /\ new[1] = m /\ new[2] = rd.life /\ new[3] = moment
  BY <1>0, <1>1 DEF RunTypeOK
<1>3. RunTypeOK'
  BY <1>0, <1>2 DEF Harness!Observe, RunTypeOK
<1> HIDE DEF new
<1>4. MessagesKnown'
  BY <1>0, <1>1, <1>2 DEF MessagesKnown
<1>5. LivesOnFile'
  BY <1>0, <1>1 DEF LivesOnFile, RowOf
<1>6. SeenBetween'
  BY <1>0, <1>1, <1>2 DEF SeenBetween, LivesOnFile, RowOf, RunTypeOK
<1> QED BY <1>3, <1>4, <1>5, <1>6 DEF RunIInv

\* So every step of a run keeps it.
LEMMA RunKept == ASSUME RunIInv, [Harness!RunStep]_(Harness!runVars) PROVE RunIInv'
<1>1. CASE UNCHANGED Harness!runVars
  BY <1>1 DEF Harness!runVars, RunIInv, RunTypeOK, MessagesKnown, LivesOnFile, RowOf, SeenBetween
<1>2. CASE Harness!RunStep
  BY <1>2, PublisherKeeps, ReaderLives, ObservationKeeps DEF Harness!RunStep
<1> QED BY <1>1, <1>2

\* It holds before a run begins.
LEMMA RunBegins == Harness!RunInit => RunIInv
<1> SUFFICES ASSUME Harness!RunInit PROVE RunIInv
  OBVIOUS
<1>1. /\ moment = 0 /\ pub = [life |-> 0, stage |-> "down"] /\ rd = [life |-> 0, stage |-> "down"] /\ missedKill = FALSE
      /\ inTopic = {} /\ seenBy = {} /\ lifeRows = {}
      /\ op = [msg |-> 0, intentAt |-> 0, confirmed |-> "none", apiAt |-> 0, obs |-> {}]
  BY DEF Harness!RunInit, Harness!NoOp
<1>2. RunTypeOK
  <2>1. 0 <= LastMoment
    BY VerdictsAssumption
  <2>2. op \in [msg : Nat, intentAt : Nat, confirmed : {"none", "true", "false"}, apiAt : Nat,
                obs : SUBSET (Nat \X Nat \X Nat)]
    BY <1>1
  <2> QED BY <1>1, <2>1, <2>2 DEF RunTypeOK
<1>3. MessagesKnown
  BY <1>1 DEF MessagesKnown
<1>4. LivesOnFile /\ SeenBetween
  BY <1>1 DEF LivesOnFile, RowOf, SeenBetween
<1> QED BY <1>2, <1>3, <1>4 DEF RunIInv

\* The interval of an observation is that of the life that observed.
LEMMA IntervalIsLife ==
  ASSUME RunIInv, ~missedKill, NEW s \in seenBy
  PROVE  Harness!intervalOf(s[3]) = s[2]
<1>0. RunTypeOK /\ LivesOnFile /\ SeenBetween
  BY DEF RunIInv
<1>1. /\ s[2] \in 1 .. rd.life /\ s[3] <= moment /\ s[3] \in Nat /\ s[2] \in Nat
      /\ \A r \in lifeRows : r[2] < s[2] \/ (r[2] = s[2] /\ r[3] = "start") => r[1] < s[3]
      /\ \A r \in lifeRows : r[2] = s[2] /\ r[3] = "kill" => s[3] <= r[1]
  BY <1>0 DEF SeenBetween, RunTypeOK
<1> DEFINE kills(l) == {r[1] : r \in {q \in lifeRows : q[2] = l /\ q[3] = "kill"}}
           starts(l) == {r[1] : r \in {q \in lifeRows : q[2] = l /\ q[3] = "start"}}
<1>2. \A l : kills(l) \subseteq Nat /\ starts(l) \subseteq Nat
  BY <1>0 DEF RunTypeOK
<1>3. Harness!From(s[2]) \in Nat /\ Harness!From(s[2]) <= s[3]
  <2>1. starts(s[2]) # {}
    BY <1>0, <1>1 DEF LivesOnFile, RowOf
  <2>2. Harness!From(s[2]) \in starts(s[2])
    BY <2>1 DEF Harness!From
  <2> QED BY <1>0, <1>1, <2>2 DEF RunTypeOK
<1>4. \A l : kills(l) # {} => Harness!Till(l) \in kills(l) /\ Harness!Till(l) \in Nat
  <2> SUFFICES ASSUME NEW l, kills(l) # {} PROVE Harness!Till(l) \in kills(l)
    BY <1>2
  <2>1. \E t \in kills(l) : \A k \in kills(l) : t <= k
    BY <1>2, LeastOf
  <2> QED BY <2>1 DEF Harness!Till
<1>5. \A l : kills(l) = {} => Harness!Till(l) = LastMoment + 100
  BY DEF Harness!Till, Harness!NoMoment
<1>6. s[3] <= Harness!Till(s[2])
  <2>1. CASE kills(s[2]) = {}
    BY <1>0, <1>1, <1>5, <2>1, VerdictsAssumption DEF RunTypeOK
  <2>2. CASE kills(s[2]) # {}
    BY <1>1, <1>4, <2>2
  <2> QED BY <2>1, <2>2
<1>7. ASSUME NEW l \in 1 .. rd.life, l < s[2] PROVE ~(s[3] <= Harness!Till(l))
  <2>1. kills(l) # {}
    BY SMTT(30), <1>0, <1>1, <1>7 DEF LivesOnFile, RowOf, RunTypeOK
  <2>2. \A t \in kills(l) : t < s[3]
    BY <1>1, <1>7
  <2> QED BY <1>1, <1>2, <1>4, <2>1, <2>2
<1> DEFINE in == {l \in 1 .. rd.life : Harness!From(l) <= s[3] /\ s[3] <= Harness!Till(l)}
<1>8. s[2] \in in /\ in \subseteq Nat /\ \A l \in in : s[2] <= l
  BY <1>0, <1>1, <1>3, <1>6, <1>7 DEF RunTypeOK
<1>9. Harness!intervalOf(s[3]) = CHOOSE l \in in : \A k \in in : l <= k
  BY <1>8 DEF Harness!intervalOf
<1> HIDE DEF in
<1> DEFINE c == CHOOSE l \in in : \A k \in in : l <= k
<1>10. c \in in /\ \A k \in in : c <= k
  BY <1>8
<1>11. c \in Nat /\ s[2] \in Nat /\ c <= s[2] /\ s[2] <= c
  BY <1>1, <1>8, <1>10
<1> HIDE DEF c
<1>12. c = s[2]
  BY <1>11
<1> QED BY <1>9, <1>12 DEF c

\* What a run is judged on is then what happened: latencies, losses and lives.
LEMMA JudgedRight == RunIInv => Harness!JudgementsFollow
<1> SUFFICES ASSUME RunIInv, op.msg # 0 PROVE Harness!JudgementsFollow
  BY DEF Harness!JudgementsFollow
<1>0. RunTypeOK /\ MessagesKnown
  BY DEF RunIInv
<1>1. Harness!Accounted \in {"live", "repair"} <=>
        /\ op.confirmed = "true"
        /\ \E s \in seenBy : s[1] = op.msg /\ s[3] <= op.apiAt + Deadline
  <2> DEFINE inTime == {o \in Harness!Arrivals : o[3] <= op.apiAt + Deadline}
  <2>1. inTime # {} <=> \E s \in seenBy : s[1] = op.msg /\ s[3] <= op.apiAt + Deadline
    BY <1>0 DEF Harness!Arrivals, MessagesKnown
  <2>2. Harness!Accounted \in {"live", "repair"} <=> op.confirmed = "true" /\ inTime # {}
    BY DEF Harness!Accounted
  <2> QED BY <2>1, <2>2
<1>2. ASSUME op.msg = 1, Harness!Judged \in {"stranded", "replay gap"} PROVE seenBy = {}
  <2>1. op.obs = {}
    BY <1>2 DEF Harness!Judged
  <2>2. \A s \in seenBy : s[1] \in 1 .. 1 /\ (s[1] = 1 => s \in op.obs)
    BY <1>0, <1>2 DEF MessagesKnown
  <2> QED BY <2>1, <2>2
<1>3. ASSUME op.msg = 1, ~missedKill, Harness!Judged \in {"live", "late"}
      PROVE  \E s \in seenBy : s[1] = 1 /\ s[3] >= op.intentAt /\ Harness!From(s[2]) <= op.intentAt
  <2> DEFINE at == Harness!intervalOf(op.intentAt)
             f == Harness!First(op.obs)
  <2>1. op.obs # {} /\ at # 0 /\ Harness!intervalOf(f[3]) = at
    BY <1>3 DEF Harness!Judged
  <2>2. f \in op.obs
    <3>1. {o[3] : o \in op.obs} \subseteq Nat /\ {o[3] : o \in op.obs} # {}
      BY <1>0, <2>1 DEF RunTypeOK
    <3>2. PICK t \in {o[3] : o \in op.obs} : \A k \in {o[3] : o \in op.obs} : t <= k
      BY <3>1, LeastOf
    <3> QED BY <3>2 DEF Harness!First
  <2>3. f \in seenBy /\ f[1] = 1 /\ f[3] >= op.intentAt
    BY <1>0, <1>3, <2>2 DEF RunTypeOK, MessagesKnown
  <2>4. at = f[2]
    BY <1>3, <2>1, <2>3, IntervalIsLife
  <2>5. Harness!From(at) <= op.intentAt
    <3> DEFINE in == {l \in 1 .. rd.life : Harness!From(l) <= op.intentAt /\ op.intentAt <= Harness!Till(l)}
    <3>1. in # {} /\ in \subseteq Nat
      BY <1>0, <2>1 DEF Harness!intervalOf, RunTypeOK
    <3>2. at = CHOOSE l \in in : \A k \in in : l <= k
      BY <3>1 DEF Harness!intervalOf
    <3>3. \E l \in in : \A k \in in : l <= k
      BY <3>1, LeastOf
    <3>4. at \in in
      BY <3>2, <3>3
    <3> QED BY <3>4
  <2> QED BY <2>3, <2>4, <2>5
<1> QED BY <1>1, <1>2, <1>3 DEF Harness!JudgementsFollow

-----------------------------------------------------------------------------
(* The activity of a reader.  Its moments are its walls less the error of   *)
(* its clock: it activated, gave up, reconnected and ended at different     *)
(* ones, in an order in which each was possible, and until the first that   *)
(* stops it, it was subscribed.                                             *)

WindowTypeOK ==
  /\ time \in -1 .. Horizon /\ selfNow \in {0, 1} /\ boundTo \in Nat /\ subbed \in BOOLEAN
  /\ skew \in Window!Error /\ publishSkew \in Window!Error /\ probe.drift \in Nat
  /\ publishedAt \in Int /\ publishedAt >= 0 /\ activate \in Int /\ subEnd \in Int /\ ended \in Int

NothingYet ==
  time = -1 => /\ selfNow = 0 /\ boundTo = 0
               /\ activate = Window!Never /\ subEnd = Window!Never /\ ended = Window!Never
               /\ trueAt = {} /\ ~subbed

\* The reader changed its id at moment c, if it did.
IdChangedAt(c) ==
  /\ selfTL = IF selfNow = 0 THEN {<<skew - 1, 0>>} ELSE {<<skew - 1, 0>>, <<c + skew, 1>>}
  /\ selfNow = 1 => c \in 0 .. time - 1 /\ (ended # Window!Never => c < ended - skew)

InMoments(wall) == wall # Window!Never => wall - skew \in 0 .. time - 1

NotYetBound ==
  activate = Window!Never /\ subEnd = Window!Never /\ ~subbed /\ trueAt = {} /\ InMoments(ended)

BoundOnce(c) ==
  LET a == activate - skew
      moved == selfNow = 1 /\ a < c IN
  /\ a \in 0 .. time - 1 /\ InMoments(subEnd) /\ InMoments(ended)
  /\ selfNow = 1 => c # a
  /\ ended # Window!Never => a < ended - skew
  /\ subEnd # Window!Never /\ ended # Window!Never => subEnd < ended
  /\ subbed <=> subEnd = Window!Never /\ ended = Window!Never /\ ~moved
  /\ \A p : p \in trueAt <=> /\ p \in a .. time - 1 /\ (moved => p < c)
                             /\ subEnd # Window!Never => p < subEnd - skew
                             /\ ended # Window!Never => p < ended - skew

WindowLogged ==
  (time # -1 /\ boundTo <= 1) =>
    \E c \in Int : IdChangedAt(c) /\ (boundTo = 0 => NotYetBound) /\ (boundTo = 1 => BoundOnce(c))

WindowIInv == WindowTypeOK /\ NothingYet /\ WindowLogged

\* A wall of a moment is not the wall that stands for none.
LEMMA WallsAreNotNever ==
  ASSUME WindowTypeOK, NEW t \in Int, 0 <= t, t <= Horizon
  PROVE  /\ t + skew # Window!Never /\ t + skew < Window!Never /\ t + publishSkew < Window!Never
         /\ t + skew \in Int /\ (t + skew) - skew = t
  BY VerdictsAssumption DEF WindowTypeOK, Window!Error, Window!Never

\* The clocks are measured and the first id is logged.
LEMMA MeasureKeeps == ASSUME WindowIInv, Window!Measure PROVE WindowIInv'
<1>0. WindowTypeOK /\ NothingYet
  BY DEF WindowIInv
<1>1. /\ time = -1 /\ time' = 0 /\ skew' \in Window!Error /\ publishSkew' \in Window!Error
      /\ probe'.drift \in 0 .. 1 /\ selfTL' = {<<skew' - 1, 0>>}
      /\ UNCHANGED <<selfNow, subbed, trueAt, activate, subEnd, ended, boundTo, publishedAt>>
  BY DEF Window!Measure
<1>2. WindowTypeOK' /\ Window!Never' = Window!Never
  BY <1>0, <1>1, VerdictsAssumption DEF WindowTypeOK, Window!Error, Window!Never
<1>3. IdChangedAt(0)' /\ NotYetBound' /\ boundTo' = 0
  BY <1>0, <1>1, <1>2 DEF NothingYet, IdChangedAt, NotYetBound, InMoments
<1>4. WindowLogged'
  BY <1>3 DEF WindowLogged
<1> QED BY <1>1, <1>2, <1>4 DEF WindowIInv, NothingYet

\* Publishing changes no wall.
LEMMA PublishingKeeps == ASSUME WindowIInv, Window!Publishes PROVE WindowIInv'
<1>1. /\ time \in Window!Moment /\ publishedAt' = time
      /\ UNCHANGED <<time, selfNow, subbed, trueAt, selfTL, activate, subEnd, ended, boundTo, skew, probe, publishSkew>>
  BY DEF Window!Publishes, Window!walls, Window!clocks
<1>2. WindowTypeOK'
  BY <1>1 DEF WindowIInv, WindowTypeOK, Window!Moment, Window!Error
<1> QED BY <1>1, <1>2 DEF WindowIInv, NothingYet, WindowLogged, IdChangedAt, NotYetBound, BoundOnce, InMoments

\* A moment passes, with its event or without.
LEMMA PassingKeeps == ASSUME WindowIInv, Window!Passes PROVE WindowIInv'
<1>0. WindowTypeOK /\ NothingYet /\ WindowLogged
  BY DEF WindowIInv
<1> DEFINE N == Window!Never
           now == time + skew
<1>1. /\ time \in Int /\ 0 <= time /\ time < Horizon /\ time' = time + 1
      /\ trueAt' = IF subbed' THEN trueAt \cup {time} ELSE trueAt
      /\ UNCHANGED <<skew, probe, publishSkew, publishedAt>>
      /\ \/ ended = N /\ (Window!Activates \/ Window!Unsubscribes \/ Window!Reconnects \/ Window!Ends)
         \/ UNCHANGED <<selfNow, subbed, selfTL, activate, subEnd, ended, boundTo>>
  BY VerdictsAssumption DEF Window!Passes, Window!walls, Window!clocks
<1>2. now # N /\ now - skew = time /\ now \in Int /\ N' = N /\ skew \in Int
  BY <1>0, <1>1, WallsAreNotNever, VerdictsAssumption DEF Window!Never, WindowTypeOK, Window!Error
<1> HIDE DEF N, now
<1>3. /\ Window!Activates => /\ ~subbed /\ boundTo < 2 /\ subbed' = TRUE /\ boundTo' = boundTo + 1 /\ activate' = now
                             /\ UNCHANGED <<selfNow, selfTL, subEnd, ended>>
      /\ Window!Unsubscribes => /\ subbed /\ subbed' = FALSE /\ subEnd' = now
                                /\ UNCHANGED <<selfNow, selfTL, activate, ended, boundTo>>
      /\ Window!Reconnects => /\ selfNow = 0 /\ selfNow' = 1 /\ subbed' = FALSE
                              /\ selfTL' = selfTL \cup {<<now, 1>>}
                              /\ UNCHANGED <<activate, subEnd, ended, boundTo>>
      /\ Window!Ends => /\ ended' = now /\ subbed' = FALSE
                        /\ UNCHANGED <<selfNow, selfTL, activate, subEnd, boundTo>>
  BY <1>0 DEF Window!Activates, Window!Unsubscribes, Window!Reconnects, Window!Ends, WindowTypeOK, now
<1>4. WindowTypeOK'
  <2>1. time' \in -1 .. Horizon
    BY <1>1, VerdictsAssumption
  <2>2. skew' \in Window!Error' /\ publishSkew' \in Window!Error' /\ probe'.drift \in Nat
        /\ publishedAt' \in Int /\ publishedAt' >= 0
    BY <1>0, <1>1 DEF WindowTypeOK, Window!Error
  <2>3. selfNow' \in {0, 1} /\ boundTo' \in Nat /\ subbed' \in BOOLEAN /\ activate' \in Int /\ subEnd' \in Int /\ ended' \in Int
    <3>1. selfNow \in {0, 1} /\ boundTo \in Nat /\ subbed \in BOOLEAN /\ activate \in Int /\ subEnd \in Int /\ ended \in Int
      BY <1>0 DEF WindowTypeOK
    <3>2. CASE Window!Activates
      BY <1>2, <1>3, <3>1, <3>2
    <3>3. CASE Window!Unsubscribes
      BY <1>2, <1>3, <3>1, <3>3
    <3>4. CASE Window!Reconnects
      BY <1>2, <1>3, <3>1, <3>4
    <3>5. CASE Window!Ends
      BY <1>2, <1>3, <3>1, <3>5
    <3> QED BY <1>1, <3>1, <3>2, <3>3, <3>4, <3>5
  <2> QED BY <2>1, <2>2, <2>3 DEF WindowTypeOK
<1>5. WindowLogged'
  <2> SUFFICES ASSUME boundTo' <= 1
               PROVE  \E c \in Int : IdChangedAt(c)' /\ (boundTo = 0 => NotYetBound)' /\ (boundTo = 1 => BoundOnce(c))'
    BY <1>1 DEF WindowLogged
  <2>1. boundTo \in Nat /\ boundTo <= 1
    BY <1>0, <1>1, <1>3 DEF WindowTypeOK
  <2>2. PICK c \in Int : IdChangedAt(c) /\ (boundTo = 0 => NotYetBound) /\ (boundTo = 1 => BoundOnce(c))
    BY <1>0, <1>1, <2>1 DEF WindowLogged
  <2>3. CASE UNCHANGED <<selfNow, subbed, selfTL, activate, subEnd, ended, boundTo>>
    <3>1. IdChangedAt(c)' /\ (boundTo = 0 => NotYetBound)'
      BY <1>1, <1>2, <2>2, <2>3 DEF IdChangedAt, NotYetBound, InMoments, N
    <3>2. (boundTo = 1 => BoundOnce(c))'
      BY <1>0, <1>1, <1>2, <2>2, <2>3 DEF BoundOnce, InMoments, IdChangedAt, WindowTypeOK, N
    <3> QED BY <3>1, <3>2
  <2>4. CASE ended = N /\ Window!Activates
    <3>1. boundTo = 0 /\ boundTo' = 1 /\ NotYetBound
      BY <1>3, <2>1, <2>2, <2>4
    <3>2. IdChangedAt(c)'
      BY <1>1, <1>2, <1>3, <2>2, <2>4 DEF IdChangedAt, N
    <3>3. BoundOnce(c)'
      BY <1>1, <1>2, <1>3, <2>2, <2>4, <3>1 DEF BoundOnce, NotYetBound, InMoments, IdChangedAt, N
    <3> QED BY <3>1, <3>2, <3>3
  <2>5. CASE ended = N /\ Window!Unsubscribes
    <3>1. boundTo = 1 /\ boundTo' = 1 /\ BoundOnce(c)
      BY <1>3, <2>1, <2>2, <2>5 DEF NotYetBound
    <3>2. IdChangedAt(c)'
      BY <1>1, <1>2, <1>3, <2>2, <2>5 DEF IdChangedAt, N
    <3>3. BoundOnce(c)'
      BY <1>0, <1>1, <1>2, <1>3, <2>2, <2>5, <3>1 DEF BoundOnce, InMoments, IdChangedAt, WindowTypeOK, N
    <3> QED BY <3>1, <3>2, <3>3
  <2>6. CASE ended = N /\ Window!Reconnects
    <3>0. PICK m \in Int : m = time
      BY <1>1
    <3>1. IdChangedAt(m)'
      BY <1>1, <1>2, <1>3, <2>2, <2>6, <3>0 DEF IdChangedAt, N, now
    <3>2. (boundTo = 0 => NotYetBound)'
      BY <1>1, <1>2, <1>3, <2>2, <2>6 DEF NotYetBound, InMoments, N
    <3>3. (boundTo = 1 => BoundOnce(m))'
      BY <1>0, <1>1, <1>2, <1>3, <2>2, <2>6, <3>0 DEF BoundOnce, InMoments, WindowTypeOK, N
    <3> QED BY <3>1, <3>2, <3>3
  <2>7. CASE ended = N /\ Window!Ends
    <3>1. IdChangedAt(c)'
      BY <1>1, <1>2, <1>3, <2>2, <2>7 DEF IdChangedAt, N
    <3>2. (boundTo = 0 => NotYetBound)'
      BY <1>1, <1>2, <1>3, <2>2, <2>7 DEF NotYetBound, InMoments, N
    <3>3. (boundTo = 1 => BoundOnce(c))'
      BY <1>0, <1>1, <1>2, <1>3, <2>2, <2>7 DEF BoundOnce, InMoments, IdChangedAt, WindowTypeOK, N
    <3> QED BY <3>1, <3>2, <3>3
  <2> QED BY <1>1, <2>3, <2>4, <2>5, <2>6, <2>7
<1> QED BY <1>1, <1>4, <1>5 DEF WindowIInv, NothingYet

\* So every step of the window keeps it.
LEMMA WindowKept == ASSUME WindowIInv, [Window!WindowStep]_(Window!windowVars) PROVE WindowIInv'
<1>1. CASE UNCHANGED Window!windowVars
  BY <1>1 DEF Window!windowVars, WindowIInv, WindowTypeOK, NothingYet, WindowLogged, IdChangedAt, NotYetBound,
              BoundOnce, InMoments
<1>2. CASE Window!WindowStep
  BY <1>2, MeasureKeeps, PublishingKeeps, PassingKeeps DEF Window!WindowStep
<1> QED BY <1>1, <1>2

\* It holds before the first moment.
LEMMA WindowBegins == Window!WindowInit => WindowIInv
<1> SUFFICES ASSUME Window!WindowInit PROVE WindowIInv
  OBVIOUS
<1>1. Window!Never \in Nat /\ Horizon \in Nat /\ Uncertainty \in Nat
  BY VerdictsAssumption DEF Window!Never
<1>2. 0 \in Window!Error /\ -1 \in -1 .. Horizon
  BY <1>1 DEF Window!Error
<1>3. /\ time = -1 /\ skew = 0 /\ publishSkew = 0 /\ probe.drift = 0 /\ publishedAt = Window!Never
      /\ selfNow = 0 /\ boundTo = 0 /\ subbed = FALSE
      /\ activate = Window!Never /\ subEnd = Window!Never /\ ended = Window!Never
  BY DEF Window!WindowInit
<1>4. WindowTypeOK
  <2>1. subbed \in BOOLEAN
    BY <1>3
  <2>2. time \in -1 .. Horizon /\ skew \in Window!Error /\ publishSkew \in Window!Error
    BY <1>2, <1>3
  <2>3. probe.drift \in Nat /\ selfNow \in {0, 1} /\ boundTo \in Nat
    BY <1>3
  <2>4. publishedAt \in Int /\ publishedAt >= 0 /\ activate \in Int /\ subEnd \in Int /\ ended \in Int
    BY <1>1, <1>3
  <2> QED BY <2>1, <2>2, <2>3, <2>4 DEF WindowTypeOK
<1> QED BY <1>3, <1>4 DEF Window!WindowInit, WindowIInv, NothingYet, WindowLogged

\* The id a reader has at a wall, when it has one.
LEMMA IdAt ==
  ASSUME WindowTypeOK, NEW c \in Int, IdChangedAt(c), NEW t \in Int, skew - 1 <= t
  PROVE  Window!selfAt(t) = IF selfNow = 1 /\ c + skew <= t THEN 1 ELSE 0
<1> DEFINE past == {s \in selfTL : s[1] <= t}
           last == CHOOSE s \in selfTL : s[1] <= t /\ \A q \in selfTL : q[1] <= t => q[2] <= s[2]
<1>0. skew \in Int /\ selfNow \in {0, 1}
  BY DEF WindowTypeOK, Window!Error
<1>1. <<skew - 1, 0>> \in selfTL /\ <<skew - 1, 0>>[1] = skew - 1 /\ <<skew - 1, 0>>[2] = 0
  BY <1>0 DEF IdChangedAt
<1>2. Window!selfAt(t) = last[2]
  BY <1>1 DEF Window!selfAt
<1>3. CASE selfNow = 1 /\ c + skew <= t
  <2>1. /\ <<c + skew, 1>> \in selfTL /\ <<c + skew, 1>>[1] = c + skew /\ <<c + skew, 1>>[2] = 1
        /\ \A q \in selfTL : q[2] \in {0, 1}
    BY <1>0, <1>3 DEF IdChangedAt
  <2>2. last \in selfTL /\ last[1] <= t /\ \A q \in selfTL : q[1] <= t => q[2] <= last[2]
    BY <1>3, <2>1
  <2> QED BY <1>2, <1>3, <2>1, <2>2
<1>4. CASE ~(selfNow = 1 /\ c + skew <= t)
  <2>1. \A q \in selfTL : q[1] <= t => q[2] = 0
    BY <1>0, <1>4 DEF IdChangedAt
  <2>2. last \in selfTL /\ last[1] <= t
    BY <1>1, <2>1
  <2> QED BY <1>2, <1>4, <2>1, <2>2
<1> QED BY <1>3, <1>4

\* Its next change of id after it activated.
LEMMA NextIdAfter ==
  ASSUME WindowTypeOK, NEW c \in Int, IdChangedAt(c), BoundOnce(c)
  PROVE  Window!nextSelfChangeAfter(Window!selfAt(activate), activate)
           = IF selfNow = 1 /\ activate - skew < c THEN c + skew ELSE Window!Never
<1>0. skew \in Int /\ selfNow \in {0, 1} /\ activate \in Int /\ 0 <= activate - skew /\ (selfNow = 1 => c # activate - skew)
  BY DEF WindowTypeOK, Window!Error, BoundOnce
<1>1. Window!selfAt(activate) = IF selfNow = 1 /\ c + skew <= activate THEN 1 ELSE 0
  BY <1>0, IdAt
<1> DEFINE id == Window!selfAt(activate)
           later(s) == s[1] > activate /\ s[2] # id
<1>2. CASE selfNow = 1 /\ activate - skew < c
  <2>1. id = 0
    BY <1>0, <1>1, <1>2
  <2>2. selfTL = {<<skew - 1, 0>>, <<c + skew, 1>>}
    BY <1>2 DEF IdChangedAt
  <2>3. \A s \in selfTL : later(s) <=> s = <<c + skew, 1>>
    <3>1. <<skew - 1, 0>>[1] = skew - 1 /\ ~(skew - 1 > activate)
      BY <1>0
    <3>2. <<c + skew, 1>>[1] = c + skew /\ <<c + skew, 1>>[2] = 1 /\ c + skew > activate
      BY <1>0, <1>2
    <3> QED BY <2>1, <2>2, <3>1, <3>2
  <2> HIDE DEF id
  <2>4. <<c + skew, 1>> \in selfTL /\ (CHOOSE s \in selfTL : later(s)) = <<c + skew, 1>>
    BY <2>2, <2>3
  <2>5. \E s \in selfTL : later(s)
    BY <2>3, <2>4
  <2>6. Window!nextSelfChangeAfter(id, activate) = (CHOOSE s \in selfTL : later(s))[1]
    BY <2>5 DEF Window!nextSelfChangeAfter
  <2>7. <<c + skew, 1>>[1] = c + skew
    OBVIOUS
  <2> QED BY <1>2, <2>4, <2>6, <2>7 DEF id
<1>3. CASE ~(selfNow = 1 /\ activate - skew < c)
  <2>1. \A s \in selfTL : ~later(s)
    BY <1>0, <1>1, <1>3 DEF IdChangedAt
  <2> QED BY <1>3, <2>1 DEF Window!nextSelfChangeAfter
<1> QED BY <1>2, <1>3

\* A reader that is required was subscribed throughout.
LEMMA ActiveIsSubscribed == WindowIInv => Window!ActiveMeansSubscribed
<1> SUFFICES ASSUME WindowIInv, time = Horizon, publishedAt < Horizon, boundTo = 1,
                    ~Window!boundary, Window!Abs(skew - publishSkew) < Window!band
             PROVE  Window!reportedActive <=> publishedAt \in trueAt
  BY DEF Window!ActiveMeansSubscribed
<1>0. WindowTypeOK /\ WindowLogged /\ Horizon \in Nat
  BY VerdictsAssumption DEF WindowIInv
<1>1. PICK c \in Int : IdChangedAt(c) /\ BoundOnce(c)
  BY <1>0 DEF WindowLogged
<1> DEFINE p == publishedAt
           N == Window!Never
           a == activate - skew
           end == Window!IntervalEnd
           moved == selfNow = 1 /\ a < c
           b == Window!band
<1>2. /\ p \in Int /\ 0 <= p /\ p < Horizon /\ skew \in Int /\ publishSkew \in Int /\ b \in Int /\ N \in Int
      /\ activate \in Int /\ subEnd \in Int /\ ended \in Int
  BY <1>0, VerdictsAssumption DEF WindowTypeOK, Window!Error, Window!band, Window!Never
<1>3. p + publishSkew < N /\ Window!pt = p + publishSkew
  BY <1>0, <1>2, WallsAreNotNever DEF Window!pt
<1>4. /\ a \in 0 .. Horizon - 1 /\ (selfNow = 1 => c # a /\ c \in 0 .. Horizon - 1)
      /\ subEnd # N => subEnd - skew \in 0 .. Horizon - 1
      /\ ended # N => ended - skew \in 0 .. Horizon - 1 /\ a < ended - skew
      /\ selfNow = 1 /\ ended # N => c < ended - skew
      /\ subEnd # N /\ ended # N => subEnd < ended
  BY <1>1, <1>0 DEF BoundOnce, IdChangedAt, InMoments
<1>5. p \in trueAt <=> /\ a <= p /\ (moved => p < c) /\ (subEnd # N => p < subEnd - skew)
                       /\ (ended # N => p < ended - skew)
  BY <1>0, <1>1, <1>2, <1>4 DEF BoundOnce
<1>6. activate < N /\ (moved => c + skew < N) /\ (subEnd # N => subEnd < N) /\ (ended # N => ended < N)
  <2>1. \A t \in 0 .. Horizon - 1 : t + skew < N
    BY <1>0, WallsAreNotNever
  <2>2. \A x \in Int : (x - skew) + skew = x
    BY <1>2
  <2> HIDE DEF N
  <2> QED BY <1>2, <1>4, <2>1, <2>2
<1>7. end = LET close == Window!Lo(IF moved THEN c + skew ELSE N, subEnd) IN IF close = N THEN ended ELSE close
  BY <1>0, <1>1, NextIdAfter DEF Window!IntervalEnd
<1> HIDE DEF N, end, b
<1>8. /\ end \in Int
      /\ end # N <=> moved \/ subEnd # N \/ ended # N
      /\ end # N => (p < end - skew <=> /\ moved => p < c
                                        /\ subEnd # N => p < subEnd - skew
                                        /\ ended # N => p < ended - skew)
      /\ moved => end <= c + skew
  BY <1>2, <1>4, <1>6, <1>7 DEF Window!Lo
<1>9. /\ ~(Window!Abs((p + publishSkew) - activate) < b)
      /\ end # N => ~(Window!Abs((p + publishSkew) - end) < b)
      /\ Window!Abs(skew - publishSkew) < b
  BY <1>3 DEF Window!boundary, end, N, b
<1>10. p + publishSkew >= activate <=> a <= p
  BY <1>2, <1>9 DEF Window!Abs
<1>11. p + publishSkew < end <=> (end # N => p < end - skew)
  <2>1. CASE end = N
    BY <1>3, <2>1 DEF N
  <2>2. CASE end # N
    BY <1>2, <1>8, <1>9, <2>2 DEF Window!Abs
  <2> QED BY <2>1, <2>2
<1>12. ASSUME p + publishSkew >= activate, p + publishSkew < end
       PROVE  Window!selfAt(p + publishSkew) = Window!selfAt(activate)
  <2>1. skew - 1 <= activate /\ skew - 1 <= p + publishSkew
    BY <1>2, <1>4, <1>12
  <2>2. Window!selfAt(activate) = IF selfNow = 1 /\ c + skew <= activate THEN 1 ELSE 0
    BY <1>0, <1>1, <1>2, <2>1, IdAt
  <2>3. Window!selfAt(p + publishSkew) = IF selfNow = 1 /\ c + skew <= p + publishSkew THEN 1 ELSE 0
    BY <1>0, <1>1, <1>2, <2>1, IdAt
  <2>4. selfNow = 1 => (c + skew <= activate <=> c + skew <= p + publishSkew)
    BY <1>2, <1>4, <1>8, <1>12
  <2> QED BY <2>2, <2>3, <2>4
<1>13. Window!reportedActive <=> p + publishSkew >= activate /\ p + publishSkew < end
  BY <1>3, <1>6, <1>12, <1>2 DEF Window!reportedActive, end, N
<1> QED BY <1>5, <1>8, <1>10, <1>11, <1>13

-----------------------------------------------------------------------------
(* The tree of a publish.  Whoever forwards holds the message, and whoever  *)
(* holds it, but for a root, had it from its parent in the true tree; so    *)
(* the tree the reconciler rebuilds is, where it climbs it, the true one.   *)

\* The number of members is the same wherever it is named.
LEMMA SizesAgree == ASSUME NEW S PROVE Tree!Cardinality(S) = Cardinality(S) /\ Edges!Cardinality(S) = Cardinality(S)
BY Zenon DEF Tree!Cardinality, Edges!Cardinality, Cardinality

Height == Cardinality(Node)
Upward == Node \cup {NoNode}

\* No climb is longer than there are nodes.
LEMMA HeightIs == Height \in Nat /\ Height >= 1 /\ Tree!Cardinality(Node) = Height /\ NoNode \notin Node
<1>1. Height \in Nat /\ (Height = 0 <=> Node = {})
  BY FS_CardinalityType, FS_EmptySet, VerdictsAssumption DEF Height
<1> QED BY <1>1, SizesAgree, VerdictsAssumption DEF Height

\* What climbing is: from n, and at each step to the parent, unless one of rs
\* or the end is reached.
ClimbsBy(ups, f, rs, n) ==
  /\ ups[0] = n /\ \A k \in 0 .. Height : ups[k] \in Upward
  /\ \A k \in 1 .. Height :
       ups[k] = IF ups[k - 1] \in rs \cup {NoNode} THEN ups[k - 1] ELSE f[ups[k - 1]]

\* The climb that the tree defines is one.
LEMMA Climbs ==
  ASSUME NEW f \in [Node -> Upward], NEW rs \in SUBSET Node, NEW n \in Node
  PROVE  ClimbsBy(Tree!Climb(f, rs, n), f, rs, n)
<1> DEFINE on(x) == IF x \in rs \cup {NoNode} THEN x ELSE f[x]
           body(g, k) == IF k = 0 THEN n ELSE IF g[k - 1] \in rs \cup {NoNode} THEN g[k - 1] ELSE f[g[k - 1]]
           step == [i \in 1 .. Height |-> [x \in Upward |-> on(x)]]
<1>0. Height \in Nat /\ n \in Upward
  BY HeightIs DEF Upward
<1>1. \A x \in Upward : on(x) \in Upward
  BY DEF Upward
<1>2. step \in [1 .. Height -> [Upward -> Upward]]
  BY <1>1
<1>3. \A i \in 1 .. Height, x \in Upward : step[i][x] = on(x)
  BY <1>1
<1> HIDE DEF step, on, body
<1>4. PICK g \in [0 .. Height -> Upward] : g[0] = n /\ \A i \in 1 .. Height : g[i] = step[i][g[i - 1]]
  <2>1. Recurs(Upward, Height, n, step)
    BY <1>0, <1>2, Recursion
  <2> QED BY <2>1 DEF Recurs
<1>5. ASSUME NEW k \in 0 .. Height PROVE g[k] = body(g, k)
  <2>1. CASE k = 0
    BY <1>4, <2>1 DEF body
  <2>2. CASE k # 0
    <3>1. k \in 1 .. Height /\ k - 1 \in 0 .. Height
      BY <1>0, <2>2
    <3>2. g[k - 1] \in Upward
      BY <1>4, <3>1
    <3> QED BY <1>3, <1>4, <2>2, <3>1, <3>2 DEF on, body
  <2> QED BY <2>1, <2>2
<1>6. g = [k \in 0 .. Height |-> body(g, k)]
  BY <1>4, <1>5
<1> DEFINE ups == CHOOSE h : h = [k \in 0 .. Height |-> body(h, k)]
<1>7. Tree!Climb(f, rs, n) = ups
  BY HeightIs DEF Tree!Climb, body
<1>8. ups = [k \in 0 .. Height |-> body(ups, k)]
  <2>1. \E h : h = [k \in 0 .. Height |-> body(h, k)]
    BY <1>6
  <2> QED BY <2>1
<1> HIDE DEF ups
<1>9. \A k \in 0 .. Height : ups[k] = body(ups, k)
  <2> DEFINE b(k) == body(ups, k)
  <2>1. ups = [k \in 0 .. Height |-> b(k)]
    BY <1>8
  <2> HIDE DEF b
  <2>2. \A k \in 0 .. Height : ups[k] = b(k)
    BY <2>1
  <2> QED BY <2>2 DEF b
<1>10. ups[0] = n /\ \A k \in 1 .. Height : ups[k] = on(ups[k - 1])
  <2>1. 0 \in 0 .. Height /\ \A k \in 1 .. Height : k \in 0 .. Height /\ k # 0
    BY <1>0
  <2> QED BY <1>9, <2>1 DEF body, on
<1>11. \A k \in 1 .. Height : ups[k - 1] \in Upward => ups[k] \in Upward
  BY <1>1, <1>10
<1>12. \A k \in 0 .. Height : ups[k] \in Upward
  BY <1>0, <1>10, <1>11, Stays
<1> QED BY <1>7, <1>10, <1>12 DEF on, ClimbsBy

Grown == treeStage # "grow"
HadFromParent(n) == parent[n] # NoNode /\ <<parent[n], n>> \in forwarded

TreeTypeOK ==
  /\ parent \in [Node -> Upward] /\ Root \in roots /\ roots \subseteq Node
  /\ forwarded \subseteq Node \X Node /\ holders \subseteq Node
  /\ Grown => reader \in Node

HoldersHadIt ==
  /\ Grown => roots \subseteq holders
  /\ ~Grown => holders = {} /\ forwarded = {}
  /\ Grown => \A n \in roots : parent[n] = NoNode
  /\ \A e \in forwarded : parent[e[2]] = e[1] /\ e[1] \in holders
  /\ \A n \in holders \ roots : HadFromParent(n)
  /\ Grown => \A n \in Node : parent[n] # NoNode => Tree!Reaches(parent, roots, n)

CollectedIsPart ==
  treeStage = "collected" =>
    ledger \subseteq Tree!Rows /\ recv \subseteq holders /\ delivered \subseteq holders /\ app \subseteq delivered

TreeIInv == TreeTypeOK /\ HoldersHadIt /\ CollectedIsPart

\* Every step of the tree keeps it.
LEMMA TreeKept == ASSUME TreeIInv, [Tree!TreeStep]_(Tree!treeVars) PROVE TreeIInv'
<1>0. TreeTypeOK /\ HoldersHadIt /\ CollectedIsPart
  BY DEF TreeIInv
<1>1. CASE UNCHANGED Tree!treeVars
  <2>1. UNCHANGED <<treeStage, parent, reader, active, believed, roots, forwarded, holders, delivered, ledger, recv, app>>
    BY <1>1 DEF Tree!treeVars, Tree!truth, Tree!logs
  <2>2. Tree!Reaches(parent, roots, 0)' = Tree!Reaches(parent, roots, 0) /\ Tree!Rows' = Tree!Rows
    BY <2>1 DEF Tree!Rows
  <2> QED BY <1>0, <2>1 DEF TreeIInv, TreeTypeOK, HoldersHadIt, CollectedIsPart, Grown, HadFromParent, Tree!Rows
<1>2. CASE Tree!Grow
  <2>1. PICK f \in [Node -> Node \cup {NoNode}], n \in Node :
          /\ treeStage = "grow" /\ treeStage' = "spread" /\ parent' = f /\ f[Root] = NoNode /\ f[n] = NoNode
          /\ roots' = {Root, n} /\ \A m \in Node : f[m] # NoNode => Tree!Reaches(f, roots', m)
          /\ reader' \in Node /\ holders' = roots' /\ forwarded' = forwarded
    BY <1>2 DEF Tree!Grow
  <2>2. TreeTypeOK'
    BY <1>0, <2>1, VerdictsAssumption DEF TreeTypeOK, Upward, HoldersHadIt, Grown
  <2>3. HoldersHadIt'
    BY <1>0, <2>1 DEF HoldersHadIt, Grown, HadFromParent
  <2> QED BY <2>1, <2>2, <2>3 DEF TreeIInv, CollectedIsPart
<1>3. CASE Tree!Collect
  <2>1. /\ treeStage = "spread" /\ treeStage' = "collected" /\ ledger' \subseteq Tree!Rows /\ recv' \subseteq holders
        /\ delivered' \subseteq holders /\ app' \subseteq delivered'
        /\ UNCHANGED <<parent, reader, roots, forwarded, holders>> /\ Tree!Rows' = Tree!Rows
    BY <1>3 DEF Tree!Collect, Tree!Rows
  <2> QED BY <1>0, <2>1 DEF TreeIInv, TreeTypeOK, HoldersHadIt, CollectedIsPart, Grown, HadFromParent
<1>4. ASSUME NEW n \in Node, Tree!Fanout(n) PROVE TreeIInv'
  <2>1. PICK got \in SUBSET Tree!Child(n) :
          /\ treeStage = "spread" /\ n \in holders
          /\ forwarded' = forwarded \cup ({n} \X Tree!Child(n)) /\ holders' = holders \cup got
          /\ UNCHANGED <<treeStage, parent, reader, active, believed, roots>>
    BY <1>4 DEF Tree!Fanout, Tree!truth
  <2>2. \A c \in Tree!Child(n) : c \in Node /\ parent[c] = n
    BY DEF Tree!Child
  <2>3. \A e \in {n} \X Tree!Child(n) : e[1] = n /\ e[2] \in Tree!Child(n)
    OBVIOUS
  <2>4. \A c \in got : <<n, c>> \in forwarded'
    BY <2>1
  <2>5. TreeTypeOK'
    BY <1>0, <2>1, <2>2 DEF TreeTypeOK, Grown
  <2>6. n # NoNode
    BY VerdictsAssumption
  <2>7. HoldersHadIt'
    BY <1>0, <2>1, <2>2, <2>3, <2>4, <2>6 DEF HoldersHadIt, Grown, HadFromParent
  <2> QED BY <2>1, <2>5, <2>7 DEF TreeIInv, CollectedIsPart
<1> QED BY <1>1, <1>2, <1>3, <1>4 DEF Tree!TreeStep

\* It holds before the tree has grown.
LEMMA TreeBegins == Tree!TreeInit => TreeIInv
BY VerdictsAssumption
   DEF Tree!TreeInit, TreeIInv, TreeTypeOK, HoldersHadIt, CollectedIsPart, Grown, Upward

\* The tree that is rebuilt knows a true parent or none; and whom it knows one
\* of, was sent the message by it.
LEMMA RebuiltIsTrue ==
  ASSUME TreeIInv, treeStage = "collected"
  PROVE  /\ Tree!parentOf \in [Node -> Upward]
         /\ \A c \in Node : Tree!parentOf[c] # NoNode => Tree!parentOf[c] = parent[c]
         /\ roots = {Root} =>
              \A c \in Node \ {Root} : Tree!parentOf[c] # NoNode => <<parent[c], c>> \in forwarded
         /\ \A c \in Node : \A n \in ledger : <<n, c>> \in forwarded => Tree!parentOf[c] = parent[c]
<1>0. TreeTypeOK /\ HoldersHadIt /\ CollectedIsPart /\ Grown
  BY DEF TreeIInv, Grown
<1>1. \A c \in Node : Tree!Claims(c) \subseteq Node /\ \A n \in Tree!Claims(c) : n = parent[c]
  <2> SUFFICES ASSUME NEW c \in Node, NEW n \in Tree!Claims(c) PROVE n \in Node /\ n = parent[c]
    OBVIOUS
  <2>1. CASE n \in ledger /\ c \in Tree!Recips(n)
    BY <1>0, <2>1 DEF Tree!Recips, HoldersHadIt, TreeTypeOK
  <2>2. CASE c \in ledger /\ parent[c] # NoNode /\ n = parent[c]
    BY <1>0, <2>2 DEF TreeTypeOK, Upward
  <2> QED BY <2>1, <2>2 DEF Tree!Claims
<1>2. \A c \in Node : /\ Tree!Claims(c) = {} => Tree!parentOf[c] = NoNode
                      /\ Tree!Claims(c) # {} => Tree!parentOf[c] \in Tree!Claims(c)
  BY DEF Tree!parentOf
<1>3. Tree!parentOf \in [Node -> Upward]
  <2> DEFINE at(c) == IF Tree!Claims(c) = {} THEN NoNode ELSE CHOOSE n \in Tree!Claims(c) : TRUE
  <2>1. Tree!parentOf = [c \in Node |-> at(c)]
    BY DEF Tree!parentOf
  <2>2. \A c \in Node : at(c) \in Upward
    BY <1>1 DEF Upward
  <2> HIDE DEF at
  <2> QED BY <2>1, <2>2
<1>4. ASSUME roots = {Root}, NEW c \in Node \ {Root}, Tree!parentOf[c] # NoNode
      PROVE  <<parent[c], c>> \in forwarded
  <2>1. PICK n \in Tree!Claims(c) : n = parent[c]
    BY <1>1, <1>2, <1>4
  <2>2. CASE n \in ledger /\ c \in Tree!Recips(n)
    BY <2>1, <2>2 DEF Tree!Recips
  <2>3. CASE c \in ledger
    <3>1. c \in holders \ roots
      BY <1>0, <1>4, <2>3 DEF CollectedIsPart, Tree!Rows, HoldersHadIt
    <3> QED BY <1>0, <3>1 DEF HoldersHadIt, HadFromParent
  <2> QED BY <2>1, <2>2, <2>3 DEF Tree!Claims
<1>5. ASSUME NEW c \in Node, NEW n \in ledger, <<n, c>> \in forwarded PROVE Tree!parentOf[c] = parent[c]
  <2>1. n \in Tree!Claims(c)
    BY <1>5 DEF Tree!Claims, Tree!Recips
  <2> QED BY <1>1, <1>2, <2>1
<1> QED BY <1>1, <1>2, <1>3, <1>4, <1>5

\* Where the rebuilt tree reaches the root, it climbs as the true one does, and
\* every edge on the way was used.
LEMMA WaysAgree ==
  ASSUME TreeIInv, treeStage = "collected", roots = {Root}, NEW v \in Node,
         Tree!Reaches(Tree!parentOf, {Root}, v)
  PROVE  \A e \in Tree!Path(Tree!parentOf, {Root}, v) :
           e \in Tree!Path(parent, roots, v) /\ e \in forwarded /\ e[1] \in holders
<1>0. TreeTypeOK /\ HoldersHadIt /\ Grown /\ Height \in Nat /\ NoNode \notin Node /\ Root \in Node
  BY HeightIs, VerdictsAssumption DEF TreeIInv, Grown
<1> DEFINE p == Tree!parentOf
           u == Tree!Climb(p, {Root}, v)
           w1 == Tree!Climb(parent, roots, v)
           Top == {Root} \cup {NoNode}
<1>1. /\ u[0] = v /\ \A k \in 0 .. Height : u[k] \in Upward
      /\ \A k \in 1 .. Height : u[k] = IF u[k - 1] \in Top THEN u[k - 1] ELSE p[u[k - 1]]
  <2>1. p \in [Node -> Upward] /\ {Root} \in SUBSET Node
    BY <1>0, RebuiltIsTrue
  <2> HIDE DEF p, u
  <2>2. ClimbsBy(u, p, {Root}, v)
    BY <2>1, Climbs DEF u
  <2> QED BY <2>2 DEF ClimbsBy
<1>2. /\ w1[0] = v /\ \A k \in 0 .. Height : w1[k] \in Upward
      /\ \A k \in 1 .. Height : w1[k] = IF w1[k - 1] \in Top THEN w1[k - 1] ELSE parent[w1[k - 1]]
  <2>1. parent \in [Node -> Upward] /\ roots \in SUBSET Node /\ Top = roots \cup {NoNode}
    BY <1>0 DEF TreeTypeOK
  <2>2. ClimbsBy(w1, parent, roots, v)
    BY <2>1, Climbs
  <2> HIDE DEF w1
  <2> QED BY <2>1, <2>2 DEF ClimbsBy
<1>3. /\ \A c \in Node : p[c] # NoNode => p[c] = parent[c]
      /\ \A c \in Node \ {Root} : p[c] # NoNode => <<parent[c], c>> \in forwarded
  BY RebuiltIsTrue
<1>4. u[Height] \in {Root}
  BY HeightIs DEF Tree!Reaches
<1>5. Tree!Path(p, {Root}, v) = {<<u[k], u[k - 1]>> : k \in {j \in 1 .. Height : u[j] # u[j - 1]}}
  BY HeightIs DEF Tree!Path
<1>6. Tree!Path(parent, roots, v) = {<<w1[k], w1[k - 1]>> : k \in {j \in 1 .. Height : w1[j] # w1[j - 1]}}
  BY HeightIs DEF Tree!Path
<1> HIDE DEF p, u, w1
<1>7. \A k \in 0 .. Height : u[k] # NoNode
  <2> SUFFICES ASSUME NEW k \in 0 .. Height, u[k] = NoNode PROVE FALSE
    OBVIOUS
  <2> DEFINE S == {i \in Nat : k + i <= Height => u[k + i] = NoNode}
  <2>1. 0 \in S
    BY <1>0
  <2>2. ASSUME NEW i \in 1 .. Height, i - 1 \in S PROVE i \in S
    <3> SUFFICES ASSUME k + i <= Height PROVE u[k + i] = NoNode
      BY <1>0
    <3>1. (k + i) - 1 = k + (i - 1) /\ k + i \in 1 .. Height /\ k + (i - 1) <= Height
      BY <1>0
    <3>2. u[(k + i) - 1] = NoNode
      BY <2>2, <3>1
    <3> QED BY <1>1, <3>1, <3>2
  <2> HIDE DEF S
  <2>3. \A i \in 0 .. Height : i \in S
    BY <1>0, <2>1, <2>2, CountingTo
  <2>4. Height - k \in 0 .. Height /\ k + (Height - k) = Height
    BY <1>0
  <2>5. u[k + (Height - k)] = NoNode
    BY <1>0, <2>3, <2>4 DEF S
  <2> QED BY <1>0, <1>4, <2>4, <2>5
<1>8. \A k \in 0 .. Height : u[k] = w1[k]
  <2> DEFINE S == {i \in 0 .. Height : u[i] = w1[i]}
  <2>1. 0 \in S
    BY <1>0, <1>1, <1>2
  <2>2. ASSUME NEW i \in 1 .. Height, i - 1 \in S PROVE i \in S
    <3>1. u[i - 1] = w1[i - 1] /\ i \in 0 .. Height /\ i - 1 \in 0 .. Height
      BY <1>0, <2>2
    <3>2. u[i] = w1[i]
      <4>1. CASE u[i - 1] \in Top
        BY <1>1, <1>2, <3>1, <4>1
      <4>2. CASE u[i - 1] \notin Top
        <5>1. u[i] = p[u[i - 1]] /\ w1[i] = parent[u[i - 1]]
          BY <1>1, <1>2, <3>1, <4>2
        <5>2. u[i] # NoNode /\ u[i - 1] \in Node
          BY <1>1, <1>7, <3>1, <4>2 DEF Upward
        <5> QED BY <1>3, <5>1, <5>2
      <4> QED BY <4>1, <4>2
    <3> QED BY <3>1, <3>2
  <2> HIDE DEF S
  <2>3. \A i \in 0 .. Height : i \in S
    BY <1>0, <2>1, <2>2, CountingTo
  <2> QED BY <2>3 DEF S
<1>9. ASSUME NEW k \in 1 .. Height, u[k] # u[k - 1]
      PROVE  /\ <<u[k], u[k - 1]>> = <<w1[k], w1[k - 1]>> /\ w1[k] # w1[k - 1]
             /\ <<u[k], u[k - 1]>> \in forwarded /\ u[k] \in holders
  <2>1. k \in 0 .. Height /\ k - 1 \in 0 .. Height
    BY <1>0
  <2>2. u[k - 1] \notin Top /\ u[k] = p[u[k - 1]]
    BY <1>1, <1>9
  <2>3. u[k - 1] \in Node \ {Root} /\ u[k] # NoNode
    BY <1>1, <1>7, <2>1, <2>2 DEF Upward
  <2>4. u[k] = parent[u[k - 1]] /\ <<u[k], u[k - 1]>> \in forwarded
    BY <1>3, <2>2, <2>3
  <2>5. u[k] \in holders
    BY <1>0, <2>4 DEF HoldersHadIt
  <2>6. u[k] = w1[k] /\ u[k - 1] = w1[k - 1]
    BY <1>8, <2>1
  <2> QED BY <1>9, <2>4, <2>5, <2>6
<1> SUFFICES ASSUME NEW e \in Tree!Path(p, {Root}, v)
             PROVE  e \in Tree!Path(parent, roots, v) /\ e \in forwarded /\ e[1] \in holders
  BY DEF p
<1>10. PICK k \in 1 .. Height : u[k] # u[k - 1] /\ e = <<u[k], u[k - 1]>>
  BY <1>5
<1>11. e[1] = u[k]
  BY <1>10
<1> QED BY <1>6, <1>9, <1>10, <1>11

\* With nothing missing, the rebuilt tree reaches the root from whomever the
\* message was sent to.
LEMMA CompleteReaches ==
  ASSUME TreeIInv, treeStage = "collected", roots = {Root}, ledger = Tree!Rows,
         NEW v \in Node, NEW n \in Node, <<n, v>> \in forwarded
  PROVE  /\ Tree!Reaches(Tree!parentOf, {Root}, v)
         /\ <<n, v>> \in Tree!Path(Tree!parentOf, {Root}, v) \/ n = v
<1>0. TreeTypeOK /\ HoldersHadIt /\ Grown /\ Height \in Nat /\ Height >= 1 /\ NoNode \notin Node /\ Root \in Node
  BY HeightIs, VerdictsAssumption DEF TreeIInv, Grown
<1> DEFINE p == Tree!parentOf
           u == Tree!Climb(p, {Root}, v)
           w1 == Tree!Climb(parent, roots, v)
           Top == {Root} \cup {NoNode}
<1>1. /\ u[0] = v /\ \A k \in 0 .. Height : u[k] \in Upward
      /\ \A k \in 1 .. Height : u[k] = IF u[k - 1] \in Top THEN u[k - 1] ELSE p[u[k - 1]]
  <2>1. p \in [Node -> Upward] /\ {Root} \in SUBSET Node
    BY <1>0, RebuiltIsTrue
  <2> HIDE DEF p, u
  <2>2. ClimbsBy(u, p, {Root}, v)
    BY <2>1, Climbs DEF u
  <2> QED BY <2>2 DEF ClimbsBy
<1>2. /\ w1[0] = v
      /\ \A k \in 1 .. Height : w1[k] = IF w1[k - 1] \in Top THEN w1[k - 1] ELSE parent[w1[k - 1]]
  <2>1. parent \in [Node -> Upward] /\ roots \in SUBSET Node /\ Top = roots \cup {NoNode}
    BY <1>0 DEF TreeTypeOK
  <2>2. ClimbsBy(w1, parent, roots, v)
    BY <2>1, Climbs
  <2> HIDE DEF w1
  <2> QED BY <2>1, <2>2 DEF ClimbsBy
<1>3. Tree!Reaches(p, {Root}, v) <=> u[Height] = Root
  BY HeightIs DEF Tree!Reaches
<1>4. Tree!Reaches(parent, roots, v) <=> w1[Height] = Root
  BY HeightIs DEF Tree!Reaches
<1>5. Tree!Path(p, {Root}, v) = {<<u[k], u[k - 1]>> : k \in {j \in 1 .. Height : u[j] # u[j - 1]}}
  BY HeightIs DEF Tree!Path
<1>6. \A x \in Node : \A y \in Node : <<y, x>> \in forwarded => p[x] = y /\ parent[x] = y /\ y \in holders
  BY <1>0, RebuiltIsTrue DEF Tree!Rows, HoldersHadIt
<1> HIDE DEF p, u, w1
<1>7. parent[v] = n /\ p[v] = n /\ n \in holders
  BY <1>6
<1> DEFINE Sent(x) == x = Root \/ (x \in Node /\ <<parent[x], x>> \in forwarded)
<1>8. \A i \in 0 .. Height : u[i] = w1[i] /\ Sent(u[i])
  <2> DEFINE S == {i \in 0 .. Height : u[i] = w1[i] /\ Sent(u[i])}
  <2>1. 0 \in S
    BY <1>0, <1>1, <1>2, <1>7
  <2>2. ASSUME NEW i \in 1 .. Height, i - 1 \in S PROVE i \in S
    <3>1. u[i - 1] = w1[i - 1] /\ Sent(u[i - 1]) /\ i \in 0 .. Height
      BY <1>0, <2>2
    <3>2. CASE u[i - 1] = Root
      BY <1>1, <1>2, <3>1, <3>2
    <3>3. CASE u[i - 1] # Root
      <4>1. u[i - 1] \in Node /\ <<parent[u[i - 1]], u[i - 1]>> \in forwarded /\ parent[u[i - 1]] \in Node
        BY <1>0, <3>1, <3>3 DEF TreeTypeOK
      <4>2. u[i] = p[u[i - 1]] /\ w1[i] = parent[u[i - 1]]
        BY <1>0, <1>1, <1>2, <3>1, <3>3, <4>1
      <4>3. u[i] = w1[i] /\ u[i] \in holders
        BY <1>6, <4>1, <4>2
      <4>4. Sent(u[i])
        BY <1>0, <4>3 DEF HoldersHadIt, HadFromParent, TreeTypeOK
      <4> QED BY <3>1, <4>3, <4>4
    <3> QED BY <3>2, <3>3
  <2> HIDE DEF S, Sent
  <2>3. \A i \in 0 .. Height : i \in S
    BY <1>0, <2>1, <2>2, CountingTo
  <2> QED BY <2>3 DEF S
<1>9. w1[Height] = Root
  BY <1>0, <1>4, <1>7 DEF HoldersHadIt
<1>10. u[Height] = Root
  <2>1. Height \in 0 .. Height
    BY <1>0
  <2> QED BY <1>8, <1>9, <2>1
<1>11. v # Root
  BY <1>0, <1>7 DEF HoldersHadIt
<1>12. 1 \in 1 .. Height /\ u[1] = n /\ u[1 - 1] = v
  <2>1. 1 \in 1 .. Height /\ 1 - 1 = 0
    BY <1>0
  <2> QED BY <1>0, <1>1, <1>7, <1>11, <2>1
<1>13. n # v => <<n, v>> \in Tree!Path(p, {Root}, v)
  BY <1>5, <1>12
<1> QED BY <1>3, <1>10, <1>13 DEF p

\* What the tree says of a reader without the message is what happened to it.
LEMMA VerdictsGrounded == TreeIInv => Tree!VerdictsAreGrounded
<1> SUFFICES ASSUME TreeIInv, treeStage = "collected", ~Tree!voided PROVE Tree!VerdictsAreGrounded
  BY DEF Tree!VerdictsAreGrounded
<1>0. /\ TreeTypeOK /\ HoldersHadIt /\ CollectedIsPart /\ Grown /\ reader \in Node /\ Root \in Node
      /\ ledger \subseteq Tree!Rows /\ recv \subseteq holders /\ delivered \subseteq holders /\ app \subseteq delivered
  BY VerdictsAssumption DEF TreeIInv, Grown, TreeTypeOK, CollectedIsPart
<1> DEFINE v == reader
           classes == {"E", "A", "B", "D", "C root", "C edge", "C tree"}
           blamed(e) == Tree!HasMsg(e[1]) /\ ~Tree!HasMsg(e[2])
           way == Tree!Path(Tree!parentOf, Tree!TheRoot, v)
<1>1. /\ Tree!Class(v) = "E" => v \in app
      /\ v \in app => Tree!Class(v) = "E"
      /\ Tree!Class(v) = "D" => v \in Tree!received
      /\ Tree!Class(v) \in {"C edge", "C tree"} =>
           v \in Tree!belief /\ ~(Tree!Cardinality(roots) > 1)
      /\ Tree!Class(v) = "C edge" =>
           Tree!TheRoot # {} /\ Tree!Reaches(Tree!parentOf, Tree!TheRoot, v) /\ \E e \in way : blamed(e)
      /\ Tree!Class(v) = "C tree" =>
           ~(Tree!TheRoot # {} /\ Tree!Reaches(Tree!parentOf, Tree!TheRoot, v) /\ \E e \in way : blamed(e))
  BY DEF Tree!Class
<1>2. v \in Tree!received => v \in holders
  BY <1>0 DEF Tree!received
<1>3. ~(Tree!Cardinality(roots) > 1) => roots = {Root}
  <2> SUFFICES ASSUME NEW n \in roots, n # Root PROVE Tree!Cardinality(roots) > 1
    BY <1>0 DEF TreeTypeOK
  <2>1. IsFiniteSet(roots) /\ {Root, n} \subseteq roots
    BY <1>0, FS_Subset, VerdictsAssumption DEF TreeTypeOK
  <2>2. Cardinality({Root, n}) = 2
    <3>1. IsFiniteSet({Root}) /\ Cardinality({Root}) = 1
      BY FS_Singleton
    <3>2. n \notin {Root} /\ {Root} \cup {n} = {Root, n}
      OBVIOUS
    <3> QED BY <3>1, <3>2, FS_AddElement
  <2>3. Cardinality({Root, n}) <= Cardinality(roots) /\ Cardinality(roots) \in Nat
    BY <2>1, FS_Subset, FS_CardinalityType
  <2> QED BY <2>2, <2>3, SizesAgree
<1>4. Tree!TheRoot # {} /\ roots = {Root} => Tree!TheRoot = {Root}
  BY <1>0 DEF Tree!TheRoot, Tree!rootSet
<1>5. Tree!complete =>
        /\ ledger = Tree!Rows /\ app = delivered
        /\ roots = {Root} => \A n \in Node : Tree!HasMsg(n) <=> n \in holders
  BY <1>0 DEF Tree!complete, Tree!HasMsg, Tree!received, Tree!TheRoot, Tree!rootSet
<1>6. ASSUME Tree!Class(v) = "C edge"
      PROVE  /\ \E e \in Tree!Path(parent, roots, v) : e[1] \in holders /\ e \in forwarded
             /\ Tree!complete => \E e \in Tree!Path(parent, roots, v) : e[1] \in holders /\ e[2] \notin holders
  <2>1. roots = {Root} /\ Tree!TheRoot = {Root} /\ Tree!Reaches(Tree!parentOf, {Root}, v)
    BY <1>1, <1>3, <1>4, <1>6
  <2>2. PICK e \in Tree!Path(Tree!parentOf, {Root}, v) : blamed(e)
    BY <1>1, <1>6, <2>1
  <2>3. e \in Tree!Path(parent, roots, v) /\ e \in forwarded /\ e[1] \in holders
    BY <1>0, <2>1, <2>2, WaysAgree
  <2>4. e[2] \in Node
    BY <1>0, <2>3 DEF TreeTypeOK
  <2> QED BY <1>5, <2>1, <2>2, <2>3, <2>4
<1>7. ASSUME Tree!complete, roots = {Root}, v \notin holders PROVE Tree!Class(v) \notin {"C tree", "D"}
  <2> SUFFICES ASSUME Tree!Class(v) = "C tree" PROVE FALSE
    BY <1>1, <1>2, <1>7
  <2>1. Tree!rootSet = {Root} /\ Tree!TheRoot = {Root}
    <3>1. Tree!rootSet = {Root}
      BY <1>0, <1>5, <1>7 DEF Tree!rootSet, Tree!Rows
    <3>2. Cardinality({Root}) = 1
      BY FS_Singleton
    <3> QED BY <3>1, <3>2, SizesAgree DEF Tree!TheRoot
  <2>2. Tree!Rows \subseteq holders
    BY <1>0 DEF Tree!Rows, HoldersHadIt
  <2>3. PICK n \in ledger : <<n, v>> \in forwarded
    BY <1>0, <1>1, <1>5, <1>7, <2>2 DEF Tree!belief, Tree!Recips
  <2>4. n \in Node /\ n \in holders
    BY <1>0, <2>2, <2>3 DEF TreeTypeOK
  <2>5. Tree!Reaches(Tree!parentOf, {Root}, v) /\ <<n, v>> \in Tree!Path(Tree!parentOf, {Root}, v)
    BY <1>0, <1>5, <1>7, <2>3, <2>4, CompleteReaches
  <2>6. blamed(<<n, v>>)
    BY <1>0, <1>5, <1>7, <2>4
  <2> QED BY <1>1, <2>1, <2>5, <2>6
<1> QED BY <1>0, <1>1, <1>2, <1>5, <1>6, <1>7 DEF Tree!VerdictsAreGrounded

-----------------------------------------------------------------------------
(* The transition ledger.  What arrives was sent, and arrives once; a       *)
(* routed message leaves a host only after it reached it; and the warm      *)
(* probe has, of the peers it saw, sent to those that proved live and still *)
(* to look at, in this poll, or counted as pending, the others.             *)

Sent ==
  [msg : Nat, from : LedgerHost, to : Edges!Target, exact : BOOLEAN,
   disposition : {"accepted", "attempted-failed", "not-attempted"}]

LedgerTypeOK ==
  /\ runKind \in {"none", "routed", "level", "warm"} /\ withIds \in BOOLEAN
  /\ sends \in Seq(Sent) /\ landedAt \in Seq(Nat) /\ wire \subseteq DOMAIN sends
  /\ round \subseteq Edges!Target /\ watched \subseteq Edges!Target /\ waiting \in Nat /\ poll \in Nat

Landed(j) == \E k \in DOMAIN landedAt : landedAt[k] = j

LandsOnce ==
  /\ \A k \in DOMAIN landedAt : landedAt[k] \in DOMAIN sends /\ landedAt[k] \notin wire
  /\ \A k, m \in DOMAIN landedAt : landedAt[k] = landedAt[m] => k = m

TravelsOn ==
  /\ \A i \in DOMAIN sends : sends[i].exact = withIds
  /\ ~withIds => runKind = "routed"
  /\ runKind = "routed" =>
       \A i \in DOMAIN sends :
         /\ sends[i].msg = 0
         /\ sends[i].from = Driver \/ \E j \in 1 .. i - 1 : Landed(j) /\ sends[j].to = sends[i].from

ProbedPeers == {sends[i].to : i \in DOMAIN sends}

WarmIsFair ==
  /\ runKind = "none" => sends = <<>> /\ proved = {}
  /\ runKind # "warm" => round = {} /\ poll = 0 /\ exitCode = "none"
  /\ runKind = "warm" => proved = ProbedPeers
  /\ poll > 0 /\ waiting = 0 => watched \subseteq proved \cup round
  /\ exitCode # "none" => /\ round = {} /\ (exitCode = "0" <=> watched \subseteq proved)
                          /\ poll < PollCount => exitCode = "0"

LedgerIInv == LedgerTypeOK /\ LandsOnce /\ TravelsOn /\ WarmIsFair

\* An attempt adds a row.
LEMMA AttemptAdds ==
  ASSUME LedgerTypeOK, LandsOnce, NEW a \in Sent, Edges!Attempted(a)
  PROVE  /\ sends' \in Seq(Sent) /\ Len(sends') = Len(sends) + 1 /\ DOMAIN sends' = 1 .. Len(sends) + 1
         /\ DOMAIN sends = 1 .. Len(sends) /\ Len(sends) \in Nat
         /\ \A i \in DOMAIN sends : sends'[i] = sends[i]
         /\ sends'[Len(sends) + 1] = a
         /\ ProbedPeers' = ProbedPeers \cup {a.to}
         /\ wire' \subseteq DOMAIN sends'
         /\ UNCHANGED landedAt => LandsOnce'
<1>1. sends \in Seq(Sent) /\ sends' = Append(sends, a) /\ wire' \subseteq wire \cup {Len(sends) + 1}
  BY DEF Edges!Attempted, LedgerTypeOK
<1>2. /\ sends' \in Seq(Sent) /\ Len(sends') = Len(sends) + 1 /\ DOMAIN sends' = 1 .. Len(sends) + 1
      /\ DOMAIN sends = 1 .. Len(sends) /\ Len(sends) \in Nat
      /\ \A i \in DOMAIN sends : sends'[i] = sends[i]
      /\ sends'[Len(sends) + 1] = a
  BY <1>1
<1>3. ProbedPeers' = ProbedPeers \cup {a.to}
  <2>1. DOMAIN sends' = DOMAIN sends \cup {Len(sends) + 1}
    BY <1>2
  <2> QED BY <1>2, <2>1 DEF ProbedPeers
<1>4. wire' \subseteq DOMAIN sends'
  BY <1>1, <1>2 DEF LedgerTypeOK
<1>5. ASSUME UNCHANGED landedAt PROVE LandsOnce'
  <2>1. \A k \in DOMAIN landedAt : landedAt[k] \in DOMAIN sends' /\ landedAt[k] \notin wire'
    BY <1>1, <1>2 DEF LandsOnce
  <2> QED BY <1>5, <2>1 DEF LandsOnce
<1> QED BY <1>2, <1>3, <1>4, <1>5

\* The run starts.
LEMMA StartKeeps == ASSUME LedgerIInv, Edges!RunStarts PROVE LedgerIInv'
<1>1. /\ runKind = "none" /\ runKind' \in {"routed", "level", "warm"} /\ withIds' \in BOOLEAN
      /\ runKind' # "routed" => withIds' = TRUE
      /\ UNCHANGED <<sends, wire, landedAt, ringing, watched, proved, round, waiting, poll, exitCode>>
  BY DEF Edges!RunStarts, Edges!warmVars
<1>2. LedgerTypeOK /\ LandsOnce /\ WarmIsFair /\ sends = <<>> /\ DOMAIN sends = {}
  BY <1>1 DEF LedgerIInv, WarmIsFair
<1>3. LedgerTypeOK' /\ LandsOnce'
  BY <1>1, <1>2 DEF LedgerTypeOK, LandsOnce
<1>4. TravelsOn'
  BY <1>1, <1>2 DEF TravelsOn
<1>5. WarmIsFair'
  BY <1>1, <1>2 DEF WarmIsFair, ProbedPeers
<1> QED BY <1>3, <1>4, <1>5 DEF LedgerIInv

\* A host that has the routed message sends it on.
LEMMA ForwardKeeps ==
  ASSUME LedgerIInv, NEW from \in LedgerHost, NEW to \in LedgerHost, Edges!Forward(from, to)
  PROVE  LedgerIInv'
<1>0. LedgerTypeOK /\ LandsOnce /\ TravelsOn /\ WarmIsFair
  BY DEF LedgerIInv
<1>1. PICK d \in {"accepted", "attempted-failed", "not-attempted"} :
        Edges!Attempted([msg |-> 0, from |-> from, to |-> to, exact |-> withIds, disposition |-> d])
  BY DEF Edges!Forward
<1>2. /\ runKind = "routed" /\ from \in Edges!Has /\ to \in Edges!Target
      /\ UNCHANGED <<runKind, withIds, dark, landedAt, ringing, watched, proved, round, waiting, poll, exitCode>>
  BY DEF Edges!Forward, Edges!kindVars, Edges!warmVars
<1> DEFINE a == [msg |-> 0, from |-> from, to |-> to, exact |-> withIds, disposition |-> d]
<1>3. a \in Sent /\ a.msg = 0 /\ a.from = from /\ a.exact = withIds /\ Edges!Attempted(a)
  BY <1>0, <1>1, <1>2 DEF Sent, LedgerTypeOK
<1> HIDE DEF a
<1>4. /\ sends' \in Seq(Sent) /\ DOMAIN sends' = 1 .. Len(sends) + 1 /\ DOMAIN sends = 1 .. Len(sends) /\ Len(sends) \in Nat
      /\ \A i \in DOMAIN sends : sends'[i] = sends[i]
      /\ sends'[Len(sends) + 1] = a /\ wire' \subseteq DOMAIN sends' /\ LandsOnce'
  BY <1>0, <1>2, <1>3, AttemptAdds
<1>5. LedgerTypeOK'
  BY <1>0, <1>2, <1>4 DEF LedgerTypeOK
<1>6. from = Driver \/ \E j \in 1 .. Len(sends) : Landed(j) /\ sends[j].to = from
  BY <1>2, <1>4 DEF Edges!Has, Landed
<1>7. \A j : Landed(j)' <=> Landed(j)
  BY <1>2 DEF Landed
<1>8. TravelsOn'
  <2> SUFFICES ASSUME NEW i \in DOMAIN sends'
               PROVE  /\ sends'[i].exact = withIds /\ sends'[i].msg = 0
                      /\ sends'[i].from = Driver \/ \E j \in 1 .. i - 1 : Landed(j) /\ sends'[j].to = sends'[i].from
    BY <1>2, <1>7 DEF TravelsOn
  <2>1. CASE i = Len(sends) + 1
    <3>1. \A j \in 1 .. Len(sends) : j \in 1 .. i - 1 /\ sends'[j] = sends[j]
      BY <1>4, <2>1
    <3> QED BY <1>3, <1>4, <1>6, <2>1, <3>1
  <2>2. CASE i # Len(sends) + 1
    <3>1. i \in DOMAIN sends /\ \A j \in 1 .. i - 1 : sends'[j] = sends[j]
      BY <1>4, <2>2
    <3>2. sends'[i] = sends[i]
      BY <1>4, <3>1
    <3> QED BY <1>0, <1>2, <3>1, <3>2 DEF TravelsOn
  <2> QED BY <2>1, <2>2
<1>9. WarmIsFair'
  BY <1>0, <1>2 DEF WarmIsFair
<1> QED BY <1>4, <1>5, <1>8, <1>9 DEF LedgerIInv

\* A frame arrives or is lost.
LEMMA WireKeeps ==
  ASSUME LedgerIInv, NEW i \in wire, Edges!Arrives(i) \/ Edges!GetsLost(i)
  PROVE  LedgerIInv'
<1>0. LedgerTypeOK /\ LandsOnce /\ TravelsOn /\ WarmIsFair
  BY DEF LedgerIInv
<1>1. /\ UNCHANGED <<runKind, withIds, dark, sends, ringing, watched, proved, round, waiting, poll, exitCode>>
      /\ wire' = wire \ {i} /\ landedAt' \in {landedAt, Append(landedAt, i)}
  BY DEF Edges!Arrives, Edges!GetsLost, Edges!kindVars, Edges!warmVars
<1>2. /\ landedAt \in Seq(Nat) /\ DOMAIN landedAt = 1 .. Len(landedAt) /\ Len(landedAt) \in Nat
      /\ i \in DOMAIN sends /\ i \in Nat
  BY <1>0 DEF LedgerTypeOK
<1>3. /\ landedAt' \in Seq(Nat)
      /\ \A k \in DOMAIN landedAt : k \in DOMAIN landedAt' /\ landedAt'[k] = landedAt[k]
      /\ \A k \in DOMAIN landedAt' : k \in DOMAIN landedAt \/ (k = Len(landedAt) + 1 /\ landedAt'[k] = i)
  <2>1. CASE landedAt' = landedAt
    BY <1>2, <2>1
  <2>2. CASE landedAt' = Append(landedAt, i)
    BY <1>2, <2>2
  <2> QED BY <1>1, <2>1, <2>2
<1>4. LedgerTypeOK'
  BY <1>0, <1>1, <1>3 DEF LedgerTypeOK
<1>5. LandsOnce'
  <2>1. \A k \in DOMAIN landedAt : landedAt[k] \in DOMAIN sends /\ landedAt[k] # i
    BY <1>0 DEF LandsOnce
  <2>2. \A k \in DOMAIN landedAt' : landedAt'[k] \in DOMAIN sends' /\ landedAt'[k] \notin wire'
    BY <1>0, <1>1, <1>2, <1>3 DEF LandsOnce
  <2>3. ASSUME NEW k \in DOMAIN landedAt', NEW m \in DOMAIN landedAt', landedAt'[k] = landedAt'[m] PROVE k = m
    <3>1. CASE k \in DOMAIN landedAt /\ m \in DOMAIN landedAt
      BY <1>0, <1>3, <2>3, <3>1 DEF LandsOnce
    <3>2. CASE ~(k \in DOMAIN landedAt /\ m \in DOMAIN landedAt)
      BY <1>3, <2>1, <2>3, <3>2
    <3> QED BY <3>1, <3>2
  <2> QED BY <2>2, <2>3 DEF LandsOnce
<1>6. \A j : Landed(j) => Landed(j)'
  BY <1>3 DEF Landed
<1>7. TravelsOn'
  BY <1>0, <1>1, <1>6 DEF TravelsOn
<1>8. WarmIsFair'
  BY <1>0, <1>1 DEF WarmIsFair, ProbedPeers
<1> QED BY <1>4, <1>5, <1>7, <1>8 DEF LedgerIInv

\* The level probe has a peer's turn.
LEMMA LevelKeeps == ASSUME LedgerIInv, NEW p \in Edges!Target, Edges!LevelSends(p) PROVE LedgerIInv'
<1>0. LedgerTypeOK /\ LandsOnce /\ TravelsOn /\ WarmIsFair
  BY DEF LedgerIInv
<1>1. /\ runKind = "level" /\ UNCHANGED <<runKind, withIds, dark, landedAt, ringing, watched, round, waiting, poll, exitCode>>
      /\ UNCHANGED <<sends, wire>> \/ \E d \in {"accepted", "attempted-failed"} : Edges!Attempted(Edges!Probe(p, d))
  BY DEF Edges!LevelSends, Edges!kindVars
<1>2. WarmIsFair'
  BY <1>0, <1>1 DEF WarmIsFair, LedgerTypeOK
<1>3. withIds = TRUE
  BY <1>0, <1>1 DEF TravelsOn, LedgerTypeOK
<1>4. CASE UNCHANGED <<sends, wire>>
  BY <1>0, <1>1, <1>2, <1>4 DEF LedgerIInv, LedgerTypeOK, LandsOnce, TravelsOn
<1>5. ASSUME NEW d \in {"accepted", "attempted-failed"}, Edges!Attempted(Edges!Probe(p, d)) PROVE LedgerIInv'
  <2> DEFINE a == Edges!Probe(p, d)
  <2>1. a \in Sent /\ a.exact = TRUE /\ Edges!Attempted(a)
    BY <1>0, <1>5, VerdictsAssumption DEF Edges!Probe, Sent, LedgerTypeOK
  <2> HIDE DEF a
  <2>2. /\ sends' \in Seq(Sent) /\ DOMAIN sends' = 1 .. Len(sends) + 1 /\ DOMAIN sends = 1 .. Len(sends)
        /\ Len(sends) \in Nat /\ \A i \in DOMAIN sends : sends'[i] = sends[i]
        /\ sends'[Len(sends) + 1] = a /\ wire' \subseteq DOMAIN sends' /\ LandsOnce'
    BY <1>0, <1>1, <2>1, AttemptAdds
  <2>3. TravelsOn'
    <3>1. sends'[Len(sends) + 1].exact = withIds
      BY <1>3, <2>1, <2>2
    <3>2. \A i \in DOMAIN sends' : i \in DOMAIN sends \/ i = Len(sends) + 1
      BY <2>2
    <3>3. \A i \in DOMAIN sends' : sends'[i].exact = withIds
      BY <1>0, <2>2, <3>1, <3>2 DEF TravelsOn
    <3>4. runKind' # "routed" /\ withIds' = withIds
      BY <1>1
    <3> QED BY <1>3, <3>3, <3>4 DEF TravelsOn
  <2>4. LedgerTypeOK'
    BY <1>0, <1>1, <2>2 DEF LedgerTypeOK
  <2> QED BY <1>2, <2>2, <2>3, <2>4 DEF LedgerIInv
<1> QED BY <1>1, <1>4, <1>5

\* A poll starts, the probe ends, the mesh moves.
LEMMA PollKeeps ==
  ASSUME LedgerIInv, Edges!PollStarts \/ Edges!ProbeEnds \/ \E p \in Edges!Target : Edges!MeshMoves(p)
  PROVE  LedgerIInv'
<1>0. LedgerTypeOK /\ LandsOnce /\ TravelsOn /\ WarmIsFair
  BY DEF LedgerIInv
<1>1. UNCHANGED <<runKind, withIds, dark, sends, wire, landedAt, proved>> /\ runKind = "warm" /\ exitCode = "none"
  BY DEF Edges!PollStarts, Edges!ProbeEnds, Edges!MeshMoves, Edges!kindVars
<1>2. LandsOnce' /\ TravelsOn'
  BY <1>0, <1>1 DEF LandsOnce, TravelsOn, Landed
<1>3. ProbedPeers' = ProbedPeers
  BY <1>1 DEF ProbedPeers
<1>4. CASE Edges!PollStarts
  <2>1. /\ waiting' = 0 /\ poll' = poll + 1 /\ round' = watched' \ proved /\ exitCode' = exitCode
        /\ watched' = watched \cup {p \in Edges!Target : ringing[p] # "absent"}
    BY <1>4 DEF Edges!PollStarts
  <2>2. round' \subseteq Edges!Target
    BY <1>0, <2>1 DEF LedgerTypeOK
  <2>3. watched' \subseteq Edges!Target
    BY <1>0, <2>1 DEF LedgerTypeOK
  <2> QED BY <1>0, <1>1, <1>2, <1>3, <2>1, <2>2, <2>3 DEF LedgerIInv, LedgerTypeOK, WarmIsFair
<1>5. CASE Edges!ProbeEnds
  <2>1. /\ round = {} /\ exitCode' = IF watched \subseteq proved THEN "0" ELSE "1"
        /\ (poll > 0 /\ waiting = 0) \/ poll = PollCount
        /\ UNCHANGED <<ringing, watched, round, waiting, poll>>
    BY <1>5 DEF Edges!ProbeEnds, Edges!AllLive
  <2>2. exitCode' = "0" <=> watched \subseteq proved
    BY <2>1
  <2>3. poll < PollCount => watched \subseteq proved
    BY <1>0, <2>1, VerdictsAssumption DEF WarmIsFair, LedgerTypeOK
  <2> QED BY <1>0, <1>1, <1>2, <1>3, <2>1, <2>2, <2>3 DEF LedgerIInv, LedgerTypeOK, WarmIsFair
<1>6. CASE \E p \in Edges!Target : Edges!MeshMoves(p)
  <2>1. UNCHANGED <<watched, round, waiting, poll, exitCode>>
    BY <1>6 DEF Edges!MeshMoves
  <2> QED BY <1>0, <1>1, <1>2, <1>3, <2>1 DEF LedgerIInv, LedgerTypeOK, WarmIsFair
<1> QED BY <1>4, <1>5, <1>6

\* A poll looks at a peer.
LEMMA LookKeeps == ASSUME LedgerIInv, NEW p \in Edges!Target, Edges!PollLooks(p) PROVE LedgerIInv'
<1>0. LedgerTypeOK /\ LandsOnce /\ TravelsOn /\ WarmIsFair
  BY DEF LedgerIInv
<1>1. /\ p \in round /\ round' = round \ {p} /\ UNCHANGED <<runKind, withIds, dark, landedAt, ringing, watched, poll, exitCode>>
      /\ \/ proved' = proved \cup {p} /\ waiting' = waiting
            /\ \E d \in {"accepted", "attempted-failed"} : Edges!Attempted(Edges!Probe(p, d))
         \/ waiting' = waiting + 1 /\ UNCHANGED <<proved, sends, wire>>
  BY DEF Edges!PollLooks, Edges!kindVars
<1>2. runKind = "warm" /\ exitCode = "none" /\ withIds = TRUE
  BY <1>0, <1>1 DEF WarmIsFair, TravelsOn, LedgerTypeOK
<1>3. CASE waiting' = waiting + 1 /\ UNCHANGED <<proved, sends, wire>>
  <2>1. LandsOnce' /\ TravelsOn' /\ ProbedPeers' = ProbedPeers
    BY <1>0, <1>1, <1>3 DEF LandsOnce, TravelsOn, Landed, ProbedPeers
  <2>2. waiting' # 0
    BY <1>0, <1>3 DEF LedgerTypeOK
  <2> QED BY <1>0, <1>1, <1>2, <1>3, <2>1, <2>2 DEF LedgerIInv, LedgerTypeOK, WarmIsFair
<1>4. ASSUME proved' = proved \cup {p}, waiting' = waiting,
             NEW d \in {"accepted", "attempted-failed"}, Edges!Attempted(Edges!Probe(p, d))
      PROVE  LedgerIInv'
  <2> DEFINE a == Edges!Probe(p, d)
  <2>1. a \in Sent /\ a.exact = TRUE /\ a.to = p /\ Edges!Attempted(a)
    BY <1>0, <1>4, VerdictsAssumption DEF Edges!Probe, Sent, LedgerTypeOK
  <2> HIDE DEF a
  <2>2. /\ sends' \in Seq(Sent) /\ DOMAIN sends' = 1 .. Len(sends) + 1 /\ DOMAIN sends = 1 .. Len(sends)
        /\ Len(sends) \in Nat /\ \A i \in DOMAIN sends : sends'[i] = sends[i]
        /\ sends'[Len(sends) + 1] = a /\ wire' \subseteq DOMAIN sends' /\ LandsOnce'
        /\ ProbedPeers' = ProbedPeers \cup {p}
    BY <1>0, <1>1, <2>1, AttemptAdds
  <2>3. TravelsOn'
    <3>1. sends'[Len(sends) + 1].exact = withIds
      BY <1>2, <2>1, <2>2
    <3>2. \A i \in DOMAIN sends' : i \in DOMAIN sends \/ i = Len(sends) + 1
      BY <2>2
    <3>3. \A i \in DOMAIN sends' : sends'[i].exact = withIds
      BY <1>0, <2>2, <3>1, <3>2 DEF TravelsOn
    <3>4. runKind' # "routed" /\ withIds' = withIds
      BY <1>1, <1>2
    <3> QED BY <1>2, <3>3, <3>4 DEF TravelsOn
  <2>4. LedgerTypeOK'
    BY <1>0, <1>1, <1>4, <2>2 DEF LedgerTypeOK
  <2>5. WarmIsFair'
    BY <1>0, <1>1, <1>2, <1>4, <2>2 DEF WarmIsFair
  <2> QED BY <2>2, <2>3, <2>4, <2>5 DEF LedgerIInv
<1> QED BY <1>1, <1>3, <1>4

\* So every step of the ledger keeps it.
LEMMA LedgerKept == ASSUME LedgerIInv, [Edges!LedgerStep]_(Edges!ledgerVars) PROVE LedgerIInv'
<1>1. CASE UNCHANGED Edges!ledgerVars
  BY <1>1 DEF Edges!ledgerVars, LedgerIInv, LedgerTypeOK, LandsOnce, TravelsOn, Landed, WarmIsFair, ProbedPeers
<1>2. CASE Edges!LedgerStep
  BY <1>2, StartKeeps, ForwardKeeps, WireKeeps, LevelKeeps, PollKeeps, LookKeeps DEF Edges!LedgerStep
<1> QED BY <1>1, <1>2

\* It holds before a run starts.
LEMMA LedgerBegins == Edges!LedgerInit => LedgerIInv
<1> SUFFICES ASSUME Edges!LedgerInit PROVE LedgerIInv
  OBVIOUS
<1>1. /\ runKind = "none" /\ withIds = TRUE /\ sends = <<>> /\ wire = {} /\ landedAt = <<>>
      /\ watched = {} /\ proved = {} /\ round = {} /\ waiting = 0 /\ poll = 0 /\ exitCode = "none"
  BY DEF Edges!LedgerInit
<1>2. withIds \in BOOLEAN /\ sends \in Seq(Sent) /\ landedAt \in Seq(Nat) /\ DOMAIN sends = {} /\ DOMAIN landedAt = {}
  BY <1>1
<1> QED BY <1>1, <1>2 DEF LedgerIInv, LedgerTypeOK, LandsOnce, TravelsOn, WarmIsFair, ProbedPeers

-----------------------------------------------------------------------------
(* The rows on file, of any sequence without repetitions: those written,    *)
(* each once, and all of them when everything is written.                   *)
IsOnFile(r, s, written) ==
  /\ r \in Seq(Nat) /\ Len(r) <= Len(s)
  /\ (\A i \in DOMAIN s : s[i] \in written) => Len(r) = Len(s)
  /\ \A k \in DOMAIN r : r[k] \in written /\ \E i \in DOMAIN s : r[k] = s[i]
  /\ \A i \in DOMAIN s : s[i] \in written => \E k \in DOMAIN r : r[k] = s[i]
  /\ \A k, m \in DOMAIN r : r[k] = r[m] => k = m

\* What is on file is.
LEMMA OnFileIs ==
  ASSUME NEW s \in Seq(Nat), NEW written, \A i, j \in DOMAIN s : s[i] = s[j] => i = j
  PROVE  IsOnFile(Edges!OnFile(s, written), s, written)
<1> DEFINE top == Len(s)
           D == Seq(Nat)
           on(x, n) == IF s[n] \in written THEN Append(x, s[n]) ELSE x
           body(g, n) == IF n = 0 THEN <<>> ELSE IF s[n] \in written THEN Append(g[n - 1], s[n]) ELSE g[n - 1]
           step == [n \in 1 .. top |-> [x \in D |-> on(x, n)]]
<1>0. top \in Nat /\ DOMAIN s = 1 .. top /\ <<>> \in D /\ \A n \in 1 .. top : s[n] \in Nat
  OBVIOUS
<1> HIDE DEF top
<1>1. \A n \in 1 .. top, x \in D : on(x, n) \in D
  BY <1>0
<1> HIDE DEF D, on
<1>2. step \in [1 .. top -> [D -> D]] /\ \A n \in 1 .. top, x \in D : step[n][x] = on(x, n)
  BY <1>1
<1> HIDE DEF step, body
<1>3. PICK g \in [0 .. top -> D] : g[0] = <<>> /\ \A i \in 1 .. top : g[i] = step[i][g[i - 1]]
  <2>1. Recurs(D, top, <<>>, step)
    BY <1>0, <1>2, Recursion
  <2> QED BY <2>1 DEF Recurs
<1>4. ASSUME NEW n \in 0 .. top PROVE g[n] = body(g, n)
  <2>1. CASE n = 0
    BY <1>3, <2>1 DEF body
  <2>2. CASE n # 0
    <3>1. n \in 1 .. top /\ n - 1 \in 0 .. top
      BY <1>0, <2>2
    <3>2. g[n] = on(g[n - 1], n)
      BY <1>2, <1>3, <3>1
    <3> QED BY <2>2, <3>2 DEF body, on
  <2> QED BY <2>1, <2>2
<1>5. g = [n \in 0 .. top |-> body(g, n)]
  BY <1>3, <1>4
<1> DEFINE f == CHOOSE h : h = [n \in 0 .. top |-> body(h, n)]
<1>6. Edges!OnFile(s, written) = f[top]
  BY DEF Edges!OnFile, body, top
<1>7. f = [n \in 0 .. top |-> body(f, n)]
  <2>1. \E h : h = [n \in 0 .. top |-> body(h, n)]
    BY <1>5
  <2> QED BY <2>1
<1> HIDE DEF f
<1>8. \A n \in 0 .. top : f[n] = body(f, n)
  <2> DEFINE b(n) == body(f, n)
  <2>1. f = [n \in 0 .. top |-> b(n)]
    BY <1>7
  <2> HIDE DEF b
  <2>2. \A n \in 0 .. top : f[n] = b(n)
    BY <2>1
  <2> QED BY <2>2 DEF b
<1>9. f[0] = <<>> /\ \A n \in 1 .. top : f[n] = on(f[n - 1], n)
  <2>1. 0 \in 0 .. top /\ \A n \in 1 .. top : n \in 0 .. top /\ n # 0
    BY <1>0
  <2> QED BY <1>8, <2>1 DEF body, on
<1> DEFINE P(r, n) ==
             /\ r \in D /\ Len(r) <= n
             /\ (\A i \in 1 .. n : s[i] \in written) => Len(r) = n
             /\ \A k \in DOMAIN r : r[k] \in written /\ \E i \in 1 .. n : r[k] = s[i]
             /\ \A i \in 1 .. n : s[i] \in written => \E k \in DOMAIN r : r[k] = s[i]
             /\ \A k, m \in DOMAIN r : r[k] = r[m] => k = m
           T == {n \in 0 .. top : P(f[n], n)}
<1>10. 0 \in T
  <2>1. f[0] = <<>> /\ <<>> \in D /\ DOMAIN <<>> = {} /\ Len(<<>>) = 0
    BY <1>0, <1>9
  <2>2. 1 .. 0 = {}
    OBVIOUS
  <2>3. P(f[0], 0)
    BY <2>1, <2>2
  <2> QED BY <1>0, <2>3
<1>11. ASSUME NEW n \in 1 .. top, n - 1 \in T PROVE n \in T
  <2> DEFINE r == f[n - 1]
             q == f[n]
  <2>0. n \in Nat /\ n >= 1 /\ n \in 0 .. top /\ n \in DOMAIN s /\ P(r, n - 1)
    BY <1>0, <1>11
  <2>1. q = on(r, n)
    BY <1>9
  <2> HIDE DEF r, q
  <2>2. \A i \in 1 .. n : i = n \/ i \in 1 .. n - 1
    BY <2>0
  <2>3. \A i \in 1 .. n - 1 : i \in 1 .. n /\ i \in DOMAIN s /\ s[i] # s[n]
    BY <1>0, <2>0
  <2>4. CASE s[n] \notin written
    <3>1. q = r
      BY <2>1, <2>4 DEF on
    <3> QED BY SMTT(30), <2>0, <2>2, <2>3, <2>4, <3>1 DEF r, q
  <2>5. CASE s[n] \in written
    <3>1. q = Append(r, s[n]) /\ r \in Seq(Nat) /\ s[n] \in Nat
      BY <1>0, <2>0, <2>1, <2>5 DEF on, D
    <3>2. /\ q \in Seq(Nat) /\ Len(q) = Len(r) + 1 /\ Len(r) \in Nat
          /\ DOMAIN q = 1 .. Len(r) + 1 /\ DOMAIN r = 1 .. Len(r)
          /\ \A k \in DOMAIN r : q[k] = r[k]
          /\ q[Len(r) + 1] = s[n]
      BY <3>1
    <3>3. \A k \in DOMAIN q : k \in DOMAIN r \/ k = Len(r) + 1
      BY <3>2
    <3>4. Len(q) <= n /\ ((\A i \in 1 .. n : s[i] \in written) => Len(q) = n)
      BY <2>0, <2>3, <3>2
    <3>5. \A k \in DOMAIN q : q[k] \in written /\ \E i \in 1 .. n : q[k] = s[i]
      <4> SUFFICES ASSUME NEW k \in DOMAIN q PROVE q[k] \in written /\ \E i \in 1 .. n : q[k] = s[i]
        OBVIOUS
      <4>1. CASE k \in DOMAIN r
        <5>1. q[k] = r[k] /\ r[k] \in written /\ \E i \in 1 .. n - 1 : r[k] = s[i]
          BY <2>0, <3>2, <4>1
        <5> QED BY <2>3, <5>1
      <4>2. CASE k = Len(r) + 1
        <5>1. n \in 1 .. n /\ q[k] = s[n]
          BY <2>0, <3>2, <4>2
        <5> QED BY <2>5, <5>1
      <4> QED BY <3>3, <4>1, <4>2
    <3>6. \A i \in 1 .. n : s[i] \in written => \E k \in DOMAIN q : q[k] = s[i]
      <4>1. \A k \in DOMAIN r : k \in DOMAIN q
        BY <3>2
      <4>2. Len(r) + 1 \in DOMAIN q
        BY <3>2
      <4> SUFFICES ASSUME NEW i \in 1 .. n, s[i] \in written PROVE \E k \in DOMAIN q : q[k] = s[i]
        OBVIOUS
      <4>3. CASE i = n
        BY <3>2, <4>2, <4>3
      <4>4. CASE i \in 1 .. n - 1
        <5>1. PICK k \in DOMAIN r : r[k] = s[i]
          BY <2>0, <4>4
        <5> QED BY <3>2, <4>1, <5>1
      <4> QED BY <2>2, <4>3, <4>4
    <3>7. \A k \in DOMAIN r : r[k] # s[n]
      BY <2>0, <2>3
    <3>8. \A k, m \in DOMAIN q : q[k] = q[m] => k = m
      BY <2>0, <3>2, <3>3, <3>7
    <3>9. P(q, n)
      BY <3>2, <3>4, <3>5, <3>6, <3>8 DEF D
    <3> QED BY <2>0, <3>9 DEF q
  <2> QED BY <2>4, <2>5
<1> HIDE DEF T
<1>12. top \in T
  <2>1. \A i \in 0 .. top : i \in T
    BY <1>0, <1>10, <1>11, CountingTo
  <2> QED BY <1>0, <2>1
<1>13. P(f[top], top)
  BY <1>12 DEF T
<1> HIDE DEF P
<1> DEFINE e == f[top]
<1>14. P(e, top) /\ Edges!OnFile(s, written) = e
  BY <1>6, <1>13
<1> HIDE DEF e
<1> QED BY ZenonT(60), <1>0, <1>14 DEF P, IsOnFile, D, top

\* What the two kinds of rows are.
LEMMA RowsOnFile ==
  ASSUME LedgerIInv
  PROVE  /\ Edges!txRows \in Seq(Nat) /\ Edges!rxRows \in Seq(Nat)
         /\ \A k \in DOMAIN Edges!txRows : Edges!txRows[k] \in DOMAIN sends
         /\ \A k, m \in DOMAIN Edges!txRows : Edges!txRows[k] = Edges!txRows[m] => k = m
         /\ \A k, m \in DOMAIN Edges!rxRows : Edges!rxRows[k] = Edges!rxRows[m] => k = m
         /\ \A k \in DOMAIN Edges!rxRows : Edges!rxRows[k] \in DOMAIN sends /\ Landed(Edges!rxRows[k])
         /\ \A j \in DOMAIN sends : Landed(j) /\ sends[j].to \notin dark => \E k \in DOMAIN Edges!rxRows : Edges!rxRows[k] = j
         /\ dark = {} => /\ \A j \in DOMAIN sends : \E k \in DOMAIN Edges!txRows : Edges!txRows[k] = j
                         /\ Len(Edges!rxRows) <= Len(Edges!txRows)
<1>0. LedgerTypeOK /\ LandsOnce
  BY DEF LedgerIInv
<1> DEFINE ids == [i \in DOMAIN sends |-> i]
           txOn == {i \in DOMAIN sends : sends[i].from \notin dark}
           rxOn == {i \in DOMAIN sends : sends[i].to \notin dark}
<1>1. /\ sends \in Seq(Sent) /\ Len(sends) \in Nat /\ DOMAIN sends = 1 .. Len(sends)
      /\ landedAt \in Seq(Nat) /\ Len(landedAt) \in Nat /\ DOMAIN landedAt = 1 .. Len(landedAt)
  BY <1>0 DEF LedgerTypeOK
<1>2. ids \in Seq(Nat) /\ DOMAIN ids = DOMAIN sends /\ Len(ids) = Len(sends) /\ \A i \in DOMAIN sends : ids[i] = i
  BY <1>1
<1> HIDE DEF ids
<1>3. Edges!txRows = Edges!OnFile(ids, txOn) /\ Edges!rxRows = Edges!OnFile(landedAt, rxOn)
  BY DEF Edges!txRows, Edges!rxRows, ids
<1>4. IsOnFile(Edges!txRows, ids, txOn)
  BY <1>2, <1>3, OnFileIs
<1>5. IsOnFile(Edges!rxRows, landedAt, rxOn)
  BY <1>0, <1>1, <1>3, OnFileIs DEF LandsOnce
<1> DEFINE tx == Edges!txRows
           rx == Edges!rxRows
<1>a. /\ \A j \in txOn : j \in DOMAIN sends
      /\ dark = {} => \A j \in DOMAIN sends : j \in txOn
      /\ \A j \in rxOn : j \in DOMAIN sends
      /\ \A j \in DOMAIN sends : sends[j].to \notin dark => j \in rxOn
  OBVIOUS
<1> HIDE DEF tx, rx, txOn, rxOn
<1>6. IsOnFile(tx, ids, txOn) /\ IsOnFile(rx, landedAt, rxOn)
  BY <1>4, <1>5 DEF tx, rx
<1>7. /\ tx \in Seq(Nat) /\ \A k \in DOMAIN tx : tx[k] \in DOMAIN sends
      /\ \A k, m \in DOMAIN tx : tx[k] = tx[m] => k = m
  BY <1>a, <1>6 DEF IsOnFile
<1>8. /\ rx \in Seq(Nat) /\ \A k \in DOMAIN rx : rx[k] \in DOMAIN sends /\ Landed(rx[k])
      /\ \A k, m \in DOMAIN rx : rx[k] = rx[m] => k = m
      /\ \A j \in DOMAIN sends : Landed(j) /\ sends[j].to \notin dark => \E k \in DOMAIN rx : rx[k] = j
  BY <1>0, <1>a, <1>6 DEF IsOnFile, Landed, LandsOnce
<1>9. ASSUME dark = {}
      PROVE  (\A j \in DOMAIN sends : \E k \in DOMAIN tx : tx[k] = j) /\ Len(rx) <= Len(tx)
  <2>1. \A j \in DOMAIN sends : j \in txOn
    BY <1>a, <1>9
  <2>2. \A j \in DOMAIN sends : \E k \in DOMAIN tx : tx[k] = j
    BY <1>2, <1>6, <2>1 DEF IsOnFile
  <2>3. Len(tx) = Len(sends) /\ Len(rx) <= Len(landedAt)
    BY <1>2, <1>6, <2>1 DEF IsOnFile
  <2>4. Len(landedAt) <= Len(sends)
    <3> DEFINE A == 1 .. Len(landedAt)
               B == 1 .. Len(sends)
    <3>1. IsFiniteSet(B) /\ Cardinality(A) = Len(landedAt) /\ Cardinality(B) = Len(sends)
      <4>1. /\ Cardinality(1 .. Len(landedAt)) = IF 1 > Len(landedAt) THEN 0 ELSE Len(landedAt) - 1 + 1
            /\ IsFiniteSet(1 .. Len(sends))
            /\ Cardinality(1 .. Len(sends)) = IF 1 > Len(sends) THEN 0 ELSE Len(sends) - 1 + 1
        <5>1. 1 \in Int /\ Len(landedAt) \in Int /\ Len(sends) \in Int
          BY <1>1
        <5> HIDE DEF A, B
        <5> QED BY <5>1, FS_Interval
      <4> QED BY <1>1, <4>1
    <3>2. landedAt \in [A -> B] /\ \A x, y \in A : landedAt[x] = landedAt[y] => x = y
      BY <1>0, <1>1 DEF LandsOnce
    <3>3. landedAt \in Injection(A, B)
      BY <3>2 DEF Injection, IsInjective
    <3> HIDE DEF A, B
    <3>4. Cardinality(A) <= Cardinality(B)
      BY <3>1, <3>3, FS_Injection
    <3> QED BY <3>1, <3>4
  <2> QED BY <1>1, <1>7, <1>8, <2>2, <2>3, <2>4
<1> QED BY <1>7, <1>8, <1>9 DEF tx, rx

\* The join after its first n sender rows.
JoinedUpTo(acc, n) ==
  /\ acc \in [taken : SUBSET DOMAIN Edges!rxRows, crossed : SUBSET DOMAIN sends]
  /\ \A i \in acc.crossed : \E m \in 1 .. n : Edges!txRows[m] = i
  /\ Cardinality(acc.crossed) <= Cardinality(acc.taken)
  /\ withIds =>
       /\ \A k \in acc.taken : Edges!rxRows[k] \in acc.crossed
       /\ \A i \in acc.crossed : Landed(i)
       /\ \A m \in 1 .. n, k \in DOMAIN Edges!rxRows :
            Edges!rxRows[k] = Edges!txRows[m] => k \in acc.taken /\ Edges!txRows[m] \in acc.crossed
  /\ ~withIds => acc.taken = DOMAIN Edges!rxRows \/ n <= Cardinality(acc.taken)

\* A row joins as the rules of its kernel say.
LEMMA RowJoins ==
  ASSUME LedgerIInv, NEW n \in 1 .. Len(Edges!txRows), NEW acc, JoinedUpTo(acc, n - 1)
  PROVE  JoinedUpTo(Edges!JoinRow(acc, Edges!txRows[n]), n)
<1> DEFINE tx == Edges!txRows
           rx == Edges!rxRows
           i == tx[n]
           at == {k \in DOMAIN rx : Edges!Joins(i, k, acc.taken)}
           least == CHOOSE k \in at : \A j \in at : k <= j
           new == Edges!JoinRow(acc, i)
<1>0. LedgerTypeOK /\ TravelsOn
  BY DEF LedgerIInv
<1>1. /\ tx \in Seq(Nat) /\ rx \in Seq(Nat)
      /\ \A k \in DOMAIN tx : tx[k] \in DOMAIN sends
      /\ \A k, m \in DOMAIN tx : tx[k] = tx[m] => k = m
      /\ \A k, m \in DOMAIN rx : rx[k] = rx[m] => k = m
      /\ \A k \in DOMAIN rx : rx[k] \in DOMAIN sends /\ Landed(rx[k])
  BY RowsOnFile
<1>2. /\ acc.taken \subseteq DOMAIN rx /\ acc.crossed \subseteq DOMAIN sends
      /\ \A j \in acc.crossed : \E m \in 1 .. n - 1 : tx[m] = j
      /\ Cardinality(acc.crossed) <= Cardinality(acc.taken)
      /\ withIds => /\ \A k \in acc.taken : rx[k] \in acc.crossed
                    /\ \A j \in acc.crossed : Landed(j)
                    /\ \A m \in 1 .. n - 1, k \in DOMAIN rx : rx[k] = tx[m] => k \in acc.taken /\ tx[m] \in acc.crossed
      /\ ~withIds => acc.taken = DOMAIN rx \/ n - 1 <= Cardinality(acc.taken)
      /\ acc \in [taken : SUBSET DOMAIN rx, crossed : SUBSET DOMAIN sends]
  BY DEF JoinedUpTo
<1>3. new = IF at = {} THEN acc ELSE [taken |-> acc.taken \cup {least}, crossed |-> acc.crossed \cup {i}]
  BY DEF Edges!JoinRow
<1>4. \A k : k \in at <=> k \in DOMAIN rx /\ (IF sends[i].exact THEN rx[k] = i
                                              ELSE sends[rx[k]].msg = sends[i].msg /\ k \notin acc.taken)
  BY DEF Edges!Joins
<1>5. JoinedUpTo(new, n) <=>
        /\ new \in [taken : SUBSET DOMAIN rx, crossed : SUBSET DOMAIN sends]
        /\ \A j \in new.crossed : \E m \in 1 .. n : tx[m] = j
        /\ Cardinality(new.crossed) <= Cardinality(new.taken)
        /\ withIds => /\ \A k \in new.taken : rx[k] \in new.crossed
                      /\ \A j \in new.crossed : Landed(j)
                      /\ \A m \in 1 .. n, k \in DOMAIN rx : rx[k] = tx[m] => k \in new.taken /\ tx[m] \in new.crossed
        /\ ~withIds => new.taken = DOMAIN rx \/ n <= Cardinality(new.taken)
  BY DEF JoinedUpTo
<1> HIDE DEF tx, rx
<1>6. at \subseteq Nat /\ (at # {} => least \in at)
  <2>1. DOMAIN rx \subseteq Nat
    BY <1>1
  <2>2. at \subseteq Nat
    BY <1>4, <2>1
  <2> HIDE DEF at
  <2>3. at # {} => \E k \in at : \A j \in at : k <= j
    BY <2>2, LeastOf
  <2> QED BY <2>2, <2>3
<1> SUFFICES JoinedUpTo(new, n)
  BY DEF new, tx
<1> HIDE DEF at, least, new
<1>7. /\ n \in Nat /\ n \in DOMAIN tx /\ i \in DOMAIN sends
      /\ \A m \in 1 .. n : m = n \/ m \in 1 .. n - 1
      /\ \A m \in 1 .. n - 1 : m \in 1 .. n /\ m \in DOMAIN tx /\ m # n
  <2>1. n \in 1 .. Len(tx)
    BY DEF tx
  <2> QED BY <1>1, <2>1
<1>8. sends[i].exact = withIds
  BY <1>0, <1>7 DEF TravelsOn
<1>9. IsFiniteSet(acc.taken) /\ IsFiniteSet(acc.crossed) /\ Cardinality(acc.taken) \in Nat /\ Cardinality(acc.crossed) \in Nat
  <2>1. IsFiniteSet(DOMAIN rx) /\ IsFiniteSet(DOMAIN sends)
    <3>1. DOMAIN rx = 1 .. Len(rx) /\ Len(rx) \in Int /\ DOMAIN sends = 1 .. Len(sends) /\ Len(sends) \in Int /\ 1 \in Int
      BY <1>0, <1>1 DEF LedgerTypeOK
    <3> QED BY <3>1, FS_Interval
  <2>2. IsFiniteSet(acc.taken) /\ IsFiniteSet(acc.crossed)
    BY <1>2, <2>1, FS_Subset
  <2> QED BY <2>2, FS_CardinalityType
<1>10. i \notin acc.crossed
  BY <1>1, <1>2, <1>7
<1>11. CASE at = {}
  <2>1. new = acc
    BY <1>3, <1>11
  <2>2. \A j \in new.crossed : \E m \in 1 .. n : tx[m] = j
    BY <1>2, <1>7, <2>1
  <2>3. ASSUME withIds
        PROVE  \A m \in 1 .. n, k \in DOMAIN rx : rx[k] = tx[m] => k \in new.taken /\ tx[m] \in new.crossed
    <3>1. \A k \in DOMAIN rx : rx[k] # i
      BY <1>4, <1>8, <1>11, <2>3
    <3> QED BY <1>2, <1>7, <2>1, <2>3, <3>1
  <2>4. ASSUME ~withIds PROVE new.taken = DOMAIN rx
    <3>1. \A k \in DOMAIN rx : k \in acc.taken
      <4>1. \A j \in DOMAIN sends : sends[j].msg = 0
        BY <1>0, <2>4 DEF TravelsOn
      <4> QED BY <1>1, <1>4, <1>7, <1>8, <1>11, <2>4, <4>1
    <3> QED BY <1>2, <2>1, <3>1
  <2>5. withIds => \A k \in new.taken : rx[k] \in new.crossed
    BY <1>2, <2>1
  <2>6. withIds => \A j \in new.crossed : Landed(j)
    BY <1>2, <2>1
  <2>7. new \in [taken : SUBSET DOMAIN rx, crossed : SUBSET DOMAIN sends] /\ Cardinality(new.crossed) <= Cardinality(new.taken)
    BY <1>2, <2>1
  <2> QED BY <1>5, <2>2, <2>3, <2>4, <2>5, <2>6, <2>7
<1>12. CASE at # {}
  <2>1. /\ new.taken = acc.taken \cup {least} /\ new.crossed = acc.crossed \cup {i}
        /\ new = [taken |-> new.taken, crossed |-> new.crossed]
    BY <1>3, <1>12
  <2>2. least \in at /\ least \in DOMAIN rx
    BY <1>4, <1>6, <1>12
  <2>3. least \notin acc.taken
    BY <1>2, <1>4, <1>8, <1>10, <2>2
  <2>4. new \in [taken : SUBSET DOMAIN rx, crossed : SUBSET DOMAIN sends]
    BY <1>2, <1>7, <2>1, <2>2
  <2>5. \A j \in new.crossed : \E m \in 1 .. n : tx[m] = j
    <3>1. n \in 1 .. n
      BY <1>7
    <3> QED BY <1>2, <1>7, <2>1, <3>1
  <2>6. Cardinality(new.taken) = Cardinality(acc.taken) + 1 /\ Cardinality(new.crossed) = Cardinality(acc.crossed) + 1
    BY <1>9, <1>10, <2>1, <2>3, FS_AddElement
  <2>7. ASSUME withIds
        PROVE  /\ \A k \in new.taken : rx[k] \in new.crossed
               /\ \A j \in new.crossed : Landed(j)
               /\ \A m \in 1 .. n, k \in DOMAIN rx : rx[k] = tx[m] => k \in new.taken /\ tx[m] \in new.crossed
    <3>1. rx[least] = i /\ Landed(i)
      BY <1>1, <1>4, <1>8, <2>2, <2>7
    <3>2. \A k \in DOMAIN rx : rx[k] = i => k = least
      BY <1>1, <2>2, <3>1
    <3> QED BY <1>2, <1>7, <2>1, <2>7, <3>1, <3>2
  <2>8. ASSUME ~withIds PROVE new.taken = DOMAIN rx \/ n <= Cardinality(new.taken)
    <3>1. acc.taken # DOMAIN rx
      BY <2>2, <2>3
    <3> QED BY <1>2, <1>7, <1>9, <2>6, <2>8, <3>1
  <2>9. Cardinality(new.crossed) <= Cardinality(new.taken)
    BY <1>2, <1>9, <2>6
  <2> QED BY <1>5, <2>4, <2>5, <2>7, <2>8, <2>9
<1> QED BY <1>11, <1>12

\* So is the whole join.
LEMMA JoinIs ==
  ASSUME LedgerIInv
  PROVE  JoinedUpTo(Edges!Joined, Len(Edges!txRows))
<1> DEFINE top == Len(Edges!txRows)
           tx == Edges!txRows
           base == [taken |-> {}, crossed |-> {}]
           body(g, n) == IF n = 0 THEN [taken |-> {}, crossed |-> {}] ELSE Edges!JoinRow(g[n - 1], Edges!txRows[n])
           D == {acc \in [taken : SUBSET DOMAIN Edges!rxRows, crossed : SUBSET DOMAIN sends] : TRUE}
           S == {acc \in D : \E n \in 0 .. top : JoinedUpTo(acc, n)}
<1>0. top \in Nat
  BY RowsOnFile
<1>1. JoinedUpTo(base, 0)
  <2>1. /\ base \in [taken : SUBSET DOMAIN Edges!rxRows, crossed : SUBSET DOMAIN sends]
        /\ base.taken = {} /\ base.crossed = {}
    OBVIOUS
  <2>2. 1 .. 0 = {} /\ Cardinality({}) = 0
    BY FS_EmptySet
  <2> HIDE DEF base
  <2> QED BY <2>1, <2>2 DEF JoinedUpTo
<1> HIDE DEF top, body
\* The join after n rows, whichever way it was built.
<1> DEFINE Q(n) == \E g : g = [m \in 0 .. n |-> body(g, m)]
           T == {n \in 0 .. top : Q(n)}
<1>2. 0 \in T
  <2> DEFINE g == [m \in 0 .. 0 |-> base]
  <2>1. g = [m \in 0 .. 0 |-> body(g, m)]
    <3>1. \A m \in 0 .. 0 : body(g, m) = base
      BY DEF body
    <3> QED BY <3>1
  <2>2. Q(0)
    BY <2>1
  <2> QED BY <1>0, <2>2
<1>3. ASSUME NEW n \in 1 .. top, n - 1 \in T PROVE n \in T
  <2>1. PICK g : g = [m \in 0 .. n - 1 |-> body(g, m)]
    BY <1>3
  <2> DEFINE last == body(g, n)
             h == [m \in 0 .. n |-> IF m = n THEN last ELSE g[m]]
  <2>0. n \in Nat /\ n # 0 /\ n \in 0 .. top
    BY <1>0
  <2>2. \A m \in 0 .. n - 1 : g[m] = body(g, m)
    <3> DEFINE b(m) == body(g, m)
    <3>1. g = [m \in 0 .. n - 1 |-> b(m)]
      BY <2>1
    <3> HIDE DEF b
    <3>2. \A m \in 0 .. n - 1 : g[m] = b(m)
      BY <3>1
    <3> QED BY <3>2 DEF b
  <2>3. ASSUME NEW m \in 0 .. n PROVE h[m] = body(h, m)
    <3>1. CASE m = n
      <4>1. n - 1 \in 0 .. n /\ n - 1 # n
        BY <2>0
      <4>2. h[n - 1] = g[n - 1]
        BY <4>1
      <4> QED BY <2>0, <3>1, <4>2 DEF body
    <3>2. CASE m # n
      <4>1. m \in 0 .. n - 1 /\ (m # 0 => m - 1 \in 0 .. n /\ m - 1 # n)
        BY <2>0, <3>2
      <4>2. h[m] = g[m] /\ (m # 0 => h[m - 1] = g[m - 1])
        BY <3>2, <4>1
      <4> HIDE DEF h
      <4> QED BY <2>2, <4>1, <4>2 DEF body
    <3> QED BY <3>1, <3>2
  <2>4. h = [m \in 0 .. n |-> body(h, m)]
    BY <2>3
  <2> HIDE DEF h
  <2>5. Q(n)
    BY <2>4
  <2> QED BY <2>0, <2>5
<1> DEFINE f == CHOOSE g : g = [m \in 0 .. top |-> body(g, m)]
<1>4. Edges!Joined = f[top]
  BY DEF Edges!Joined, body, top
<1>5. f = [m \in 0 .. top |-> body(f, m)]
  <2> HIDE DEF T
  <2>1. \A i \in 0 .. top : i \in T
    BY <1>0, <1>2, <1>3, CountingTo
  <2>2. Q(top)
    BY <1>0, <2>1 DEF T
  <2>3. \E g : g = [m \in 0 .. top |-> body(g, m)]
    BY <2>2
  <2> QED BY <2>3
<1> HIDE DEF f
<1>6. \A m \in 0 .. top : f[m] = body(f, m)
  <2> DEFINE b(m) == body(f, m)
  <2>1. f = [m \in 0 .. top |-> b(m)]
    BY <1>5
  <2> HIDE DEF b
  <2>2. \A m \in 0 .. top : f[m] = b(m)
    BY <2>1
  <2> QED BY <2>2 DEF b
<1> DEFINE U == {n \in 0 .. top : JoinedUpTo(f[n], n)}
<1>7. 0 \in U
  <2>1. 0 \in 0 .. top
    BY <1>0
  <2>2. f[0] = base
    BY <1>6, <2>1 DEF body
  <2> QED BY <1>1, <2>1, <2>2
<1>8. ASSUME NEW n \in 1 .. top, n - 1 \in U PROVE n \in U
  <2>1. n \in 0 .. top /\ n # 0 /\ n \in 1 .. Len(Edges!txRows)
    BY <1>0 DEF top
  <2>2. f[n] = Edges!JoinRow(f[n - 1], Edges!txRows[n])
    BY <1>6, <2>1 DEF body
  <2>3. JoinedUpTo(f[n], n)
    BY <1>8, <2>1, <2>2, RowJoins
  <2> QED BY <2>1, <2>3
<1> HIDE DEF U
<1>9. \A i \in 0 .. top : i \in U
  BY <1>0, <1>7, <1>8, CountingTo
<1>10. JoinedUpTo(f[top], top)
  BY <1>0, <1>9 DEF U
<1> QED BY <1>4, <1>10 DEF top

-----------------------------------------------------------------------------
(* The path that is drawn: from the driver, breadth first, over the edges   *)
(* that were crossed.  A level that is not closed under them has one host   *)
(* more than the one before, and there are not so many hosts.               *)

Crossings == {<<sends[i].from, sends[i].to>> : i \in {j \in Edges!Joined.crossed : sends[j].msg = 0}}
Fleet == Cardinality(LedgerHost)

Beyond(s) == {e[2] : e \in {x \in Crossings : x[1] \in s}}

Layered(f) ==
  /\ f[0] = {Driver} /\ \A n \in 0 .. Fleet : f[n] \in SUBSET LedgerHost
  /\ \A n \in 1 .. Fleet : f[n] = f[n - 1] \cup Beyond(f[n - 1])

WalksTo(s) == \E f : Layered(f) /\ s = f[Fleet]

\* The path that is drawn is the last level.
LEMMA ReachedIs ==
  ASSUME Crossings \subseteq LedgerHost \X LedgerHost
  PROVE  WalksTo(Edges!Reached)
<1> DEFINE D == SUBSET LedgerHost
           on(s) == s \cup Beyond(s)
           body(g, n) == IF n = 0 THEN {Driver} ELSE g[n - 1] \cup Beyond(g[n - 1])
           step == [i \in 1 .. Fleet |-> [s \in D |-> on(s)]]
<1>0. Fleet \in Nat /\ {Driver} \in D /\ Edges!Cardinality(LedgerHost) = Fleet
  BY VerdictsAssumption, FS_CardinalityType, SizesAgree DEF Fleet
<1>1. \A s \in D : on(s) \in D
  BY DEF Beyond
<1> HIDE DEF D, on
<1>2. step \in [1 .. Fleet -> [D -> D]] /\ \A i \in 1 .. Fleet, s \in D : step[i][s] = on(s)
  BY <1>1
<1> HIDE DEF step, body
<1>3. PICK g \in [0 .. Fleet -> D] : g[0] = {Driver} /\ \A i \in 1 .. Fleet : g[i] = step[i][g[i - 1]]
  <2>1. Recurs(D, Fleet, {Driver}, step)
    BY <1>0, <1>2, Recursion
  <2> QED BY <2>1 DEF Recurs
<1>4. ASSUME NEW n \in 0 .. Fleet PROVE g[n] = body(g, n)
  <2>1. CASE n = 0
    BY <1>3, <2>1 DEF body
  <2>2. CASE n # 0
    <3>1. n \in 1 .. Fleet /\ n - 1 \in 0 .. Fleet
      BY <1>0, <2>2
    <3>2. g[n] = on(g[n - 1])
      BY <1>2, <1>3, <3>1
    <3> QED BY <2>2, <3>2 DEF body, on
  <2> QED BY <2>1, <2>2
<1>5. g = [n \in 0 .. Fleet |-> body(g, n)]
  BY <1>3, <1>4
<1> DEFINE f == CHOOSE h : h = [n \in 0 .. Fleet |-> body(h, n)]
<1>6. Edges!Reached = f[Fleet]
  BY <1>0 DEF Edges!Reached, body, Beyond, Crossings
<1>7. f = [n \in 0 .. Fleet |-> body(f, n)]
  <2>1. \E h : h = [n \in 0 .. Fleet |-> body(h, n)]
    BY <1>5
  <2> QED BY <2>1
<1> HIDE DEF f
<1>8. \A n \in 0 .. Fleet : f[n] = body(f, n)
  <2> DEFINE b(n) == body(f, n)
  <2>1. f = [n \in 0 .. Fleet |-> b(n)]
    BY <1>7
  <2> HIDE DEF b
  <2>2. \A n \in 0 .. Fleet : f[n] = b(n)
    BY <2>1
  <2> QED BY <2>2 DEF b
<1>9. f[0] = {Driver} /\ \A n \in 1 .. Fleet : f[n] = on(f[n - 1])
  <2>1. 0 \in 0 .. Fleet /\ \A n \in 1 .. Fleet : n \in 0 .. Fleet /\ n # 0
    BY <1>0
  <2> QED BY <1>8, <2>1 DEF body, on
<1>10. \A n \in 1 .. Fleet : f[n - 1] \in D => f[n] \in D
  BY <1>1, <1>9
<1>11. \A n \in 0 .. Fleet : f[n] \in D
  BY <1>0, <1>9, <1>10, Stays
<1>12. Layered(f)
  BY <1>9, <1>11 DEF Layered, on, D
<1> QED BY <1>6, <1>12 DEF WalksTo

Closed(s) == \A e \in Crossings : e[1] \in s => e[2] \in s

\* The last level is closed: no edge that was crossed leads out of it.
LEMMA LastIsClosed == ASSUME NEW f, Layered(f) PROVE Closed(f[Fleet])
<1> DEFINE T == {n \in 0 .. Fleet : Closed(f[n]) \/ n + 1 <= Cardinality(f[n])}
<1>0. Fleet \in Nat /\ IsFiniteSet(LedgerHost)
  BY VerdictsAssumption, FS_CardinalityType DEF Fleet
<1>1. /\ f[0] = {Driver} /\ \A n \in 0 .. Fleet : f[n] \in SUBSET LedgerHost
      /\ \A n \in 1 .. Fleet : f[n] = f[n - 1] \cup Beyond(f[n - 1])
  BY DEF Layered
<1>2. \A n \in 0 .. Fleet : IsFiniteSet(f[n]) /\ Cardinality(f[n]) \in Nat /\ Cardinality(f[n]) <= Fleet
  <2> SUFFICES ASSUME NEW n \in 0 .. Fleet
               PROVE  IsFiniteSet(f[n]) /\ Cardinality(f[n]) \in Nat /\ Cardinality(f[n]) <= Fleet
    OBVIOUS
  <2>1. IsFiniteSet(f[n]) /\ Cardinality(f[n]) <= Fleet
    BY <1>0, <1>1, FS_Subset DEF Fleet
  <2> QED BY <2>1, FS_CardinalityType
<1>3. 0 \in T
  <2>1. Cardinality(f[0]) = 1
    BY <1>1, FS_Singleton
  <2> QED BY <1>0, <2>1
<1>4. ASSUME NEW n \in 1 .. Fleet, n - 1 \in T PROVE n \in T
  <2> DEFINE a == f[n - 1]
             b == f[n]
  <2>0. n \in 0 .. Fleet /\ n - 1 \in 0 .. Fleet /\ n \in Nat
    BY <1>0
  <2>1. b = a \cup Beyond(a) /\ IsFiniteSet(a) /\ IsFiniteSet(b) /\ Cardinality(a) \in Nat /\ Cardinality(b) \in Nat
    BY <1>1, <1>2, <2>0
  <2>2. Closed(a) \/ n <= Cardinality(a)
    BY <1>4, <2>0
  <2> HIDE DEF a, b
  <2>3. CASE Closed(a)
    <3>1. Beyond(a) \subseteq a
      BY <2>3 DEF Closed, Beyond
    <3>2. b = a
      BY <2>1, <3>1
    <3>3. Closed(b)
      BY <2>3, <3>2
    <3> QED BY <2>0, <3>3 DEF b
  <2>4. CASE ~Closed(a)
    <3>1. PICK e \in Crossings : e[1] \in a /\ e[2] \notin a
      BY <2>4 DEF Closed
    <3>2. e[2] \in b /\ a \subseteq b
      BY <2>1, <3>1 DEF Beyond
    <3>3. Cardinality(a) < Cardinality(b)
      <4>1. a # b
        BY <3>1, <3>2
      <4>2. Cardinality(a) <= Cardinality(b) /\ (Cardinality(a) = Cardinality(b) => a = b)
        BY <2>1, <3>2, FS_Subset
      <4> QED BY <2>1, <4>1, <4>2
    <3>4. n + 1 <= Cardinality(b)
      BY <2>0, <2>1, <2>2, <2>4, <3>3
    <3> QED BY <2>0, <3>4 DEF b
  <2> QED BY <2>3, <2>4
<1> HIDE DEF T
<1>5. Fleet \in T
  <2>1. \A n \in 0 .. Fleet : n \in T
    BY <1>0, <1>3, <1>4, CountingTo
  <2>2. Fleet \in 0 .. Fleet
    BY <1>0
  <2> QED BY <2>1, <2>2
<1>6. ~(Fleet + 1 <= Cardinality(f[Fleet]))
  <2>1. Fleet \in 0 .. Fleet
    BY <1>0
  <2>2. Cardinality(f[Fleet]) \in Nat /\ Cardinality(f[Fleet]) <= Fleet
    BY <1>2, <2>1
  <2> QED BY <1>0, <2>2
<1> QED BY <1>5, <1>6 DEF T

\* With named attempts it goes where the message did, and everywhere it did
\* when every host writes its rows.
LEMMA ReachedIsHad ==
  ASSUME LedgerIInv, withIds, runKind = "routed"
  PROVE  Edges!Reached \subseteq Edges!Has /\ (dark = {} => Edges!Reached = Edges!Has)
<1> DEFINE tx == Edges!txRows
           rx == Edges!rxRows
           crossing == Edges!Joined.crossed
<1>0. LedgerTypeOK /\ TravelsOn
  BY DEF LedgerIInv
<1>1. /\ tx \in Seq(Nat) /\ \A k \in DOMAIN tx : tx[k] \in DOMAIN sends
      /\ \A j \in DOMAIN sends : Landed(j) /\ sends[j].to \notin dark => \E k \in DOMAIN rx : rx[k] = j
      /\ dark = {} => \A j \in DOMAIN sends : \E k \in DOMAIN tx : tx[k] = j
  BY RowsOnFile
<1>2. /\ crossing \subseteq DOMAIN sends /\ \A i \in crossing : Landed(i)
      /\ \A m \in 1 .. Len(tx), k \in DOMAIN rx : rx[k] = tx[m] => tx[m] \in crossing
  BY JoinIs DEF JoinedUpTo
<1>3. /\ sends \in Seq(Sent) /\ DOMAIN sends \subseteq Nat
      /\ \A i \in DOMAIN sends : sends[i].from \in LedgerHost /\ sends[i].to \in LedgerHost
  <2>1. sends \in Seq(Sent) /\ DOMAIN sends \subseteq Nat /\ \A i \in DOMAIN sends : sends[i] \in Sent
    BY <1>0 DEF LedgerTypeOK
  <2>2. \A a \in Sent : a.from \in LedgerHost /\ a.to \in LedgerHost
    BY DEF Sent, Edges!Target
  <2> QED BY <2>1, <2>2
<1>a. Edges!Has = {Driver} \cup {sends[i].to : i \in {j \in DOMAIN sends : Landed(j)}}
  BY DEF Edges!Has, Landed
<1> HIDE DEF tx, rx, crossing
<1>4. Crossings = {<<sends[i].from, sends[i].to>> : i \in {j \in crossing : sends[j].msg = 0}}
  BY DEF Crossings, crossing
<1>5. Crossings \subseteq LedgerHost \X LedgerHost
  BY <1>2, <1>3, <1>4
<1>6. PICK f : Layered(f) /\ Edges!Reached = f[Fleet]
  BY <1>5, ReachedIs DEF WalksTo
<1>7. Closed(Edges!Reached)
  BY <1>6, LastIsClosed
<1>8. /\ Fleet \in Nat /\ f[0] = {Driver}
      /\ \A n \in 1 .. Fleet : f[n] = f[n - 1] \cup Beyond(f[n - 1])
  BY <1>6, VerdictsAssumption, FS_CardinalityType DEF Layered, Fleet
<1>9. \A e \in Crossings : e[2] \in Edges!Has
  BY <1>2, <1>4, <1>a
<1>10. Edges!Reached \subseteq Edges!Has
  <2> DEFINE S == SUBSET Edges!Has
  <2>1. f[0] \in S
    BY <1>8, <1>a
  <2>2. \A n \in 1 .. Fleet : f[n - 1] \in S => f[n] \in S
    BY <1>8, <1>9 DEF Beyond
  <2> HIDE DEF S
  <2>3. \A n \in 0 .. Fleet : f[n] \in S
    BY <1>8, <2>1, <2>2, Stays
  <2>4. Fleet \in 0 .. Fleet
    BY <1>8
  <2>5. f[Fleet] \in S
    BY <2>3, <2>4
  <2> QED BY <1>6, <2>5 DEF S
<1>11. Driver \in Edges!Reached
  <2>1. \A n \in 1 .. Fleet : Driver \in f[n - 1] => Driver \in f[n]
    BY <1>8
  <2> DEFINE T == {n \in 0 .. Fleet : Driver \in f[n]}
  <2>2. 0 \in T /\ \A n \in 1 .. Fleet : n - 1 \in T => n \in T
    BY <1>8, <2>1
  <2> HIDE DEF T
  <2>3. \A n \in 0 .. Fleet : n \in T
    BY <1>8, <2>2, CountingTo
  <2>4. Fleet \in T
    BY <1>8, <2>3
  <2> QED BY <1>6, <2>4 DEF T
<1>12. ASSUME dark = {} PROVE Edges!Has \subseteq Edges!Reached
  <2> DEFINE Missed == {i \in DOMAIN sends : Landed(i) /\ sends[i].to \notin Edges!Reached}
  <2>1. Missed \subseteq Nat
    BY <1>3
  <2>2. ASSUME Missed # {} PROVE FALSE
    <3> HIDE DEF Missed
    <3>1. PICK i \in Missed : \A j \in Missed : i <= j
      BY <2>1, <2>2, LeastOf
    <3>2. i \in DOMAIN sends /\ i \in Nat /\ Landed(i) /\ sends[i].to \notin Edges!Reached
      BY <2>1, <3>1 DEF Missed
    <3>3. /\ sends[i].msg = 0
          /\ sends[i].from = Driver \/ \E j \in 1 .. i - 1 : Landed(j) /\ sends[j].to = sends[i].from
      BY <1>0, <3>2 DEF TravelsOn
    <3>4. \A j \in 1 .. i - 1 : j \in DOMAIN sends /\ ~(i <= j)
      BY <1>3, <3>2
    <3>5. sends[i].from \in Edges!Reached
      BY <1>11, <3>1, <3>3, <3>4 DEF Missed
    <3>6. i \in crossing
      <4>1. PICK k \in DOMAIN rx : rx[k] = i
        BY <1>1, <1>12, <3>2
      <4>2. PICK m \in DOMAIN tx : tx[m] = i
        BY <1>1, <1>12, <3>2
      <4>3. m \in 1 .. Len(tx)
        BY <1>1, <4>2
      <4> QED BY <1>2, <4>1, <4>2, <4>3
    <3>7. <<sends[i].from, sends[i].to>> \in Crossings
      BY <1>4, <3>3, <3>6
    <3> QED BY <1>7, <3>2, <3>5, <3>7 DEF Closed
  <2> QED BY <1>11, <1>a, <2>2
<1> QED BY <1>10, <1>12

\* What the joins leave over: no more edges are crossed than receipts are on
\* file, and with every row on file none is an orphan.
LEMMA NoneIsLeft ==
  ASSUME LedgerIInv
  PROVE  /\ Edges!Cardinality(Edges!Joined.crossed) <= Len(Edges!rxRows)
         /\ dark = {} => Edges!Orphans = {}
<1> DEFINE tx == Edges!txRows
           rx == Edges!rxRows
           j == Edges!Joined
<1>1. /\ tx \in Seq(Nat) /\ rx \in Seq(Nat) /\ \A k \in DOMAIN rx : rx[k] \in DOMAIN sends
      /\ dark = {} => /\ \A i \in DOMAIN sends : \E k \in DOMAIN tx : tx[k] = i
                      /\ Len(rx) <= Len(tx)
  BY RowsOnFile
<1>2. /\ j.taken \subseteq DOMAIN rx /\ j.crossed \subseteq DOMAIN sends
      /\ Cardinality(j.crossed) <= Cardinality(j.taken)
      /\ withIds => \A m \in 1 .. Len(tx), k \in DOMAIN rx : rx[k] = tx[m] => k \in j.taken
      /\ ~withIds => j.taken = DOMAIN rx \/ Len(tx) <= Cardinality(j.taken)
  BY JoinIs DEF JoinedUpTo
<1>3. Edges!Orphans = DOMAIN rx \ j.taken /\ Edges!Cardinality(j.crossed) = Cardinality(j.crossed)
  BY SizesAgree DEF Edges!Orphans
<1> HIDE DEF tx, rx, j
<1>4. DOMAIN rx = 1 .. Len(rx) /\ Len(rx) \in Nat /\ Len(tx) \in Nat /\ DOMAIN tx = 1 .. Len(tx)
  BY <1>1
<1>5. IsFiniteSet(DOMAIN rx) /\ Cardinality(DOMAIN rx) = Len(rx)
  <2>1. 1 \in Int /\ Len(rx) \in Int
    BY <1>4
  <2>2. /\ IsFiniteSet(1 .. Len(rx))
        /\ Cardinality(1 .. Len(rx)) = IF 1 > Len(rx) THEN 0 ELSE Len(rx) - 1 + 1
    BY <2>1, FS_Interval
  <2> QED BY <1>4, <2>2
<1>6. /\ IsFiniteSet(j.taken) /\ Cardinality(j.taken) <= Len(rx)
      /\ Cardinality(j.taken) = Len(rx) => j.taken = DOMAIN rx
  BY <1>2, <1>5, FS_Subset
<1>7. Cardinality(j.taken) \in Nat
  BY <1>6, FS_CardinalityType
<1>8. Cardinality(j.crossed) \in Nat
  <2>1. IsFiniteSet(DOMAIN sends)
    <3>1. sends \in Seq(Sent)
      BY DEF LedgerIInv, LedgerTypeOK
    <3>2. DOMAIN sends = 1 .. Len(sends) /\ 1 \in Int /\ Len(sends) \in Int
      BY <3>1
    <3> QED BY <3>2, FS_Interval
  <2>2. IsFiniteSet(j.crossed)
    BY <1>2, <2>1, FS_Subset
  <2> QED BY <2>2, FS_CardinalityType
<1>9. Cardinality(j.crossed) <= Len(rx)
  BY <1>2, <1>4, <1>6, <1>7, <1>8
<1>10. ASSUME dark = {} PROVE DOMAIN rx \ j.taken = {}
  <2>1. CASE withIds
    <3> SUFFICES ASSUME NEW k \in DOMAIN rx PROVE k \in j.taken
      OBVIOUS
    <3>1. PICK m \in DOMAIN tx : tx[m] = rx[k]
      BY <1>1, <1>10
    <3> QED BY <1>2, <1>4, <2>1, <3>1
  <2>2. CASE ~withIds /\ j.taken # DOMAIN rx
    <3>1. Len(tx) <= Cardinality(j.taken) /\ Len(rx) <= Len(tx)
      BY <1>1, <1>2, <1>10, <2>2
    <3>2. Cardinality(j.taken) = Len(rx)
      BY <1>4, <1>6, <1>7, <3>1
    <3> QED BY <1>6, <2>2, <3>2
  <2> QED BY <2>1, <2>2
<1> QED BY <1>3, <1>9, <1>10 DEF rx, j

\* The paths that are reconstructed are those the message took.
LEMMA PathsTold == ASSUME LedgerIInv PROVE Edges!PathsAreTrue
<1>0. LedgerTypeOK /\ LandsOnce /\ TravelsOn /\ WarmIsFair
  BY DEF LedgerIInv
<1>1. (withIds /\ runKind = "routed") => Edges!Reached \subseteq Edges!Has /\ (dark = {} => Edges!Reached = Edges!Has)
  BY ReachedIsHad
<1>2. ASSUME withIds, Edges!Foreign = {}, NEW i \in Edges!Classified, Edges!ClassOf(i) = "ACCEPTED_NO_RX",
             NEW k \in DOMAIN landedAt, landedAt[k] = i
      PROVE  FALSE
  <2>1. i \notin Edges!Joined.crossed
    BY <1>2 DEF Edges!ClassOf
  <2>2. PICK m \in DOMAIN Edges!txRows : Edges!txRows[m] = i
    BY <1>2 DEF Edges!Classified
  <2>3. i \in DOMAIN sends /\ Landed(i) /\ m \in 1 .. Len(Edges!txRows)
    BY <1>2, <2>2, RowsOnFile DEF Landed
  <2>4. sends[i].to \notin dark
    <3> DEFINE rows == Edges!Classified \cup {Edges!rxRows[r] : r \in Edges!Orphans}
               ends == UNION {{sends[r].from, sends[r].to} : r \in rows}
    <3>1. i \in rows
      BY <1>2
    <3> HIDE DEF rows
    <3>2. sends[i].to \in ends
      BY <3>1
    <3>3. ends \cap dark = {}
      BY <1>2 DEF Edges!Foreign, rows
    <3> HIDE DEF ends
    <3> QED BY <3>2, <3>3
  <2>5. PICK r \in DOMAIN Edges!rxRows : Edges!rxRows[r] = i
    BY <2>3, <2>4, RowsOnFile
  <2> QED BY <1>2, <2>1, <2>2, <2>3, <2>5, JoinIs DEF JoinedUpTo
<1>3. exitCode # "none" /\ poll < PollCount => exitCode = "0"
  BY <1>0 DEF WarmIsFair
<1>4. exitCode # "none" => (exitCode = "0" <=> \A p \in watched : \E i \in DOMAIN sends : sends[i].to = p)
  <2>1. exitCode # "none" => proved = ProbedPeers /\ (exitCode = "0" <=> watched \subseteq proved)
    BY <1>0 DEF WarmIsFair
  <2>2. watched \subseteq ProbedPeers <=> \A p \in watched : \E i \in DOMAIN sends : sends[i].to = p
    BY DEF ProbedPeers
  <2> QED BY <2>1, <2>2
<1> QED BY <1>1, <1>2, <1>3, <1>4, NoneIsLeft DEF Edges!PathsAreTrue

-----------------------------------------------------------------------------
(* Together.                                                                *)

\* The class of a lost message, the readers that are required, the latencies,
\* losses and lives that are counted and the path that is drawn of a message
\* follow from what happened: for trees and fleets of any size, any sequence
\* of lives, any clock errors and any number of attempts.
THEOREM VerdictsFollowFromWhatHappened == ToolSpec => []VerdictsFollow
<1> DEFINE IInv == TreeIInv /\ WindowIInv /\ RunIInv /\ LedgerIInv
<1>1. ToolInit => IInv
  BY TreeBegins, WindowBegins, RunBegins, LedgerBegins DEF ToolInit
<1>2. [ToolNext]_toolVars => [Tree!TreeStep]_(Tree!treeVars)
  BY DEF ToolNext, toolVars, Others, treeVs, Tree!treeVars, Tree!truth, Tree!logs
<1>3. [ToolNext]_toolVars => [Window!WindowStep]_(Window!windowVars)
  BY DEF ToolNext, toolVars, Others, windowVs, Window!windowVars
<1>4. [ToolNext]_toolVars => [Harness!RunStep]_(Harness!runVars)
  BY DEF ToolNext, toolVars, Others, runVs, Harness!runVars
<1>5. [ToolNext]_toolVars => [Edges!LedgerStep]_(Edges!ledgerVars)
  BY DEF ToolNext, toolVars, Others, edgeVs, Edges!ledgerVars
<1>6. IInv /\ [ToolNext]_toolVars => IInv'
  BY <1>2, <1>3, <1>4, <1>5, TreeKept, WindowKept, RunKept, LedgerKept
<1>7. IInv => VerdictsFollow
  BY VerdictsGrounded, ActiveIsSubscribed, JudgedRight, PathsTold DEF VerdictsFollow
<1> QED BY <1>1, <1>6, <1>7, PTL DEF ToolSpec
=============================================================================
