----------------------------- MODULE HeadSweep -----------------------------
(***************************************************************************)
(* The head of a topic as its readers see it: a reader keeps the highest   *)
(* number its watch has heard, writes it to its ledger on every sweep      *)
(* (harness/sidecar.mjs), and the analyzer looks in those rows for heads   *)
(* that went down, heads that moved while the watch was silent, and heads  *)
(* of two readers that disagree (harness/analyze.mjs).  One topic with one *)
(* publisher; a sidecar that is started again is a new author and begins   *)
(* its numbers anew.                                                       *)
(***************************************************************************)
EXTENDS Naturals, Sequences, FiniteSets

CONSTANTS
  Reader,
  LastTick,   \* bound: time
  SweepEvery, \* HEAD_SWEEP_MS, of the environment
  Silence,    \* three cadences of the topic, in whole units
  Near,       \* two heads this close are compared
  LastSeq,    \* bound: numbers of a publisher's life
  Restarts,   \* bound: restarts, of the publisher and the readers together
  RowBound    \* bound: rows with a head, of all readers

VARIABLES
  tick,     \* the wall clock, the same for all and never set back
  author,   \* lives of the publisher
  seqs,     \* numbers it has published in this life
  lives,    \* each reader: its lives
  sampler,  \* each reader: "joining", "watching" (this topic's sub() is called,
            \*   the others and the readiness wait go on), "sampling", "over"
  due,      \* each reader: the earliest time of its next sweep
  head,     \* each reader: [seq, by] its watch has made its head, NoHead
  headRows, \* each reader: the rows of its sweeps
  heardAt   \* each reader: the time of its last watch arrival, 0 for never

sweepVars == <<tick, author, seqs, lives, sampler, due, head, headRows, heardAt>>

NoHead == [seq |-> 0, by |-> 0]
SweepInit ==
  /\ tick = 1 /\ author = 1 /\ seqs = [a \in 1 .. (Restarts + 1) |-> 0]
  /\ lives = [r \in Reader |-> 1] /\ sampler = [r \in Reader |-> "joining"]
  /\ due = [r \in Reader |-> 0] /\ head = [r \in Reader |-> NoHead]
  /\ headRows = [r \in Reader |-> <<>>] /\ heardAt = [r \in Reader |-> 0]

-----------------------------------------------------------------------------
Ticks ==
  /\ tick < LastTick /\ tick' = tick + 1
  /\ UNCHANGED <<author, seqs, lives, sampler, due, head, headRows, heardAt>>

PublishNext ==
  /\ seqs[author] < LastSeq /\ seqs' = [seqs EXCEPT ![author] = @ + 1]
  /\ UNCHANGED <<tick, author, lives, sampler, due, head, headRows, heardAt>>

Again == UNION {{r} \X (2 .. lives[r]) : r \in Reader}

PublisherRestarts ==
  /\ author <= Restarts /\ author + Cardinality(Again) <= Restarts /\ author' = author + 1
  /\ UNCHANGED <<tick, seqs, lives, sampler, due, head, headRows, heardAt>>

(* The bootstrap and the subscriptions before this one are done, however    *)
(* long they took.  A sub() that fails leaves a watch that hears nothing.   *)
Subscribes(r) ==
  /\ sampler[r] = "joining" /\ sampler' = [sampler EXCEPT ![r] = "watching"]
  /\ UNCHANGED <<tick, author, seqs, lives, due, head, headRows, heardAt>>

\* Mutant: the last message heard is the head.
LatestHeard(r, m) == TRUE

Newer(r, m) == m.seq > head[r].seq

(* The watch hears a message, new, late or replayed, from the moment sub()  *)
(* is called to the exit.                                                   *)
Hears(r) ==
  /\ sampler[r] # "joining"
  /\ \E a \in 1 .. author : \E n \in 1 .. seqs[a] :
       head' = [head EXCEPT ![r] = IF Newer(r, [seq |-> n, by |-> a]) THEN [seq |-> n, by |-> a] ELSE @]
  /\ heardAt' = [heardAt EXCEPT ![r] = tick]
  /\ UNCHANGED <<tick, author, seqs, lives, sampler, due, headRows>>

(* The subscriptions and the readiness wait are over: the timer is set.     *)
StartsSampling(r) ==
  /\ sampler[r] = "watching" /\ sampler' = [sampler EXCEPT ![r] = "sampling"]
  /\ due' = [due EXCEPT ![r] = tick + SweepEvery]
  /\ UNCHANGED <<tick, author, seqs, lives, head, headRows, heardAt>>

(* A row; a reader without a head writes no number.                         *)
Row(r)   == [at |-> tick, seq |-> head[r].seq, by |-> head[r].by]
Rows     == UNION {{r} \X DOMAIN headRows[r] : r \in Reader}
Wrote(r) ==
  \/ head[r] = NoHead /\ UNCHANGED headRows
  \/ head[r] # NoHead /\ Cardinality(Rows) < RowBound /\ headRows' = [headRows EXCEPT ![r] = Append(@, Row(r))]

(* The timer, on time or late.                                              *)
Sweep(r) ==
  /\ sampler[r] = "sampling" /\ due[r] <= tick /\ due' = [due EXCEPT ![r] = tick + SweepEvery]
  /\ Wrote(r)
  /\ UNCHANGED <<tick, author, seqs, lives, sampler, head, heardAt>>

(* The end of the window: one last row.                                     *)
LastSweep(r) ==
  /\ sampler[r] = "sampling" /\ sampler' = [sampler EXCEPT ![r] = "over"]
  /\ due' = [due EXCEPT ![r] = 0] /\ Wrote(r)
  /\ UNCHANGED <<tick, author, seqs, lives, head, heardAt>>

ReaderRestarts(r) ==
  /\ author + Cardinality(Again) <= Restarts /\ lives' = [lives EXCEPT ![r] = @ + 1]
  /\ sampler' = [sampler EXCEPT ![r] = "joining"] /\ due' = [due EXCEPT ![r] = 0]
  /\ head' = [head EXCEPT ![r] = NoHead]
  /\ UNCHANGED <<tick, author, seqs, headRows, heardAt>>

SweepStep ==
  \/ Ticks \/ PublishNext \/ PublisherRestarts
  \/ \E r \in Reader : Subscribes(r) \/ Hears(r) \/ StartsSampling(r) \/ Sweep(r) \/ LastSweep(r) \/ ReaderRestarts(r)

-----------------------------------------------------------------------------
(* The detectors, over the rows in time order.                              *)
StalePull(r) == \E i, j \in DOMAIN headRows[r] : i < j /\ headRows[r][j].seq < headRows[r][i].seq

WedgedAt(r, i) ==
  /\ i > 1 /\ headRows[r][i].seq > headRows[r][i - 1].seq
  /\ heardAt[r] > 0 /\ headRows[r][i].at > heardAt[r] + Silence

SplitRoot ==
  \E r, s \in Reader : \E i \in DOMAIN headRows[r], j \in DOMAIN headRows[s] :
    /\ r # s /\ headRows[r][i].at <= headRows[s][j].at /\ headRows[s][j].at < headRows[r][i].at + Near
    /\ headRows[r][i].seq = headRows[s][j].seq /\ headRows[r][i].by # headRows[s][j].by

(* What the detectors can mean since the head is the reader's own record:   *)
(* a stale pull is a reader that was started again, a split root a          *)
(* publisher that was, and a wedged watch is a gap between two rows of the  *)
(* ledger longer than the silence it looks for (a sweep slower than three   *)
(* cadences, a late timer, the time from a kill to the next life's first    *)
(* row), whatever the watch did (sidecar.mjs 157-171, 231-248 and 270-279,  *)
(* analyze.mjs 88-95 and 224-288).                                          *)
DetectorsMeanRestarts ==
  /\ \A r \in Reader : StalePull(r) => lives[r] > 1
  /\ SplitRoot => author > 1
  /\ \A r \in Reader : \A i \in DOMAIN headRows[r] :
       WedgedAt(r, i) => headRows[r][i].at > headRows[r][i - 1].at + Silence
=============================================================================
