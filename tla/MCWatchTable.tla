---- MODULE MCWatchTable ----
(* Two watched topics and four calls on them, for model checking. *)
EXTENDS WatchTable, TLC

CONSTANTS t1, t2, m1, m2, m3, c1, c2, c3, c4

PostedTo == [m \in Message |-> IF m = m3 THEN t2 ELSE t1]
Symmetric == Permutations(Call)
====
