---------------------------- MODULE CouncilWatch ----------------------------
(***************************************************************************)
(* The standing watcher of a board, scripts/council-watch.mjs (and, without *)
(* its memory on disk, scripts/chat-watch.mjs): posts arrive live or by a  *)
(* backup pull of the newest, are told apart by id, captured in a file and *)
(* announced to the agent by a wake line.  The watcher may die at any      *)
(* point and starts from its state file.  Posts are numbered in the order  *)
(* they are made; the post of the watched agent itself is not among them.  *)
(***************************************************************************)
EXTENDS Naturals, Sequences

CONSTANTS
  PostCount,   \* bound: posts on the board
  SEEN_CAP,    \* ids the state file keeps
  DeathCount,  \* bound: deaths of the watcher
  FailCount    \* bound: appends to the capture that fail

Post == 1 .. PostCount
Handling == 0 .. PostCount

VARIABLES
  board,         \* posts made
  seen,          \* ids this process has handled
  seenMsgIds,    \* state.seenMsgIds
  onDisk,        \* the state file
  captured,      \* INBOX: how often each post is in it
  woken,         \* WAKE_FILE: how often each post woke the agent
  handling,      \* the post handleArrival is at (0: none) and whether it wakes
  up,            \* "down", "boot" (no pull answered yet), "on"
  seeded,        \* history: posts taken in by the first pull, without a wake
  skipped,       \* history: posts a death or a failed append left without one
  died, fails

watchVars == <<board, seen, seenMsgIds, onDisk, captured, woken, handling, up,
               seeded, skipped, died, fails>>
memory == <<seen, seenMsgIds, onDisk>>
tallies == <<seeded, skipped, died, fails>>
NotHandling == [post |-> 0, step |-> "none", wake |-> FALSE]
Ids(s) == {s[i] : i \in DOMAIN s}

CouncilInit ==
  /\ board = 0 /\ seen = {} /\ seenMsgIds = <<>> /\ onDisk = <<>>
  /\ captured = [p \in Post |-> 0] /\ woken = [p \in Post |-> 0]
  /\ handling = NotHandling /\ up = "down"
  /\ seeded = {} /\ skipped = {} /\ died = 0 /\ fails = 0

-----------------------------------------------------------------------------
PostMade ==
  /\ board < PostCount /\ board' = board + 1
  /\ UNCHANGED <<memory, captured, woken, handling, up, tallies>>

(* A start reads the state; one with ids in it counts as bootstrapped.      *)
Start ==
  /\ up = "down" /\ seenMsgIds' = onDisk /\ seen' = Ids(onDisk)
  /\ up' = IF onDisk = <<>> THEN "boot" ELSE "on"
  /\ UNCHANGED <<board, onDisk, captured, woken, handling, tallies>>

-----------------------------------------------------------------------------
(* handleArrival(), in the order it writes.  It does not yield: nothing     *)
(* else of the watcher runs before it is through, but it may die or throw.  *)
Take(p, wake) ==
  /\ seen' = seen \cup {p} /\ seenMsgIds' = Append(seenMsgIds, p)
  /\ handling' = [post |-> p, step |-> "capture", wake |-> wake]

(* A live post, or one the subscription repeats. *)
SubHandsOver(p) ==
  /\ up # "down" /\ handling = NotHandling /\ p <= board /\ p \notin seen /\ Take(p, TRUE)
  /\ UNCHANGED <<board, onDisk, captured, woken, up, tallies>>

(* backupPull(): the newest post, if the board has one; the first answer a  *)
(* watcher without a memory gets is taken in quietly.                       *)
BackupPull ==
  /\ up # "down" /\ handling = NotHandling /\ up' = "on"
  /\ IF board > 0 /\ board \notin seen
     THEN /\ Take(board, up = "on")
          /\ seeded' = IF up = "boot" THEN seeded \cup {board} ELSE seeded
     ELSE UNCHANGED <<seen, seenMsgIds, handling, seeded>>
  /\ UNCHANGED <<board, onDisk, captured, woken, skipped, died, fails>>

\* Mutant: the agent is woken before the state is written.
WakeBeforeState ==
  /\ handling.step = "capture" /\ woken' = [woken EXCEPT ![handling.post] = @ + 1]
  /\ captured' = [captured EXCEPT ![handling.post] = @ + 1]
  /\ handling' = [handling EXCEPT !.step = "state", !.wake = FALSE]
  /\ UNCHANGED <<board, memory, up, tallies>>

(* The append to the capture; when it throws the post counts as handled.    *)
Capture ==
  /\ handling.step = "capture"
  /\ \/ /\ captured' = [captured EXCEPT ![handling.post] = @ + 1]
        /\ handling' = [handling EXCEPT !.step = "state"]
        /\ UNCHANGED <<skipped, fails>>
     \/ /\ fails < FailCount /\ fails' = fails + 1 /\ handling' = NotHandling
        /\ skipped' = skipped \cup {handling.post} /\ UNCHANGED captured
  /\ UNCHANGED <<board, memory, woken, up, seeded, died>>

(* writeState(): the last SEEN_CAP ids. *)
Capped(s) == IF Len(s) > SEEN_CAP THEN SubSeq(s, Len(s) - SEEN_CAP + 1, Len(s)) ELSE s

WriteState ==
  /\ handling.step = "state"
  /\ seenMsgIds' = Capped(seenMsgIds) /\ onDisk' = Capped(seenMsgIds)
  /\ handling' = IF handling.wake THEN [handling EXCEPT !.step = "wake"] ELSE NotHandling
  /\ UNCHANGED <<board, seen, captured, woken, up, tallies>>

(* The wake line, and the state once more (its ids have not changed).       *)
Wake ==
  /\ handling.step = "wake" /\ woken' = [woken EXCEPT ![handling.post] = @ + 1]
  /\ handling' = NotHandling
  /\ UNCHANGED <<board, memory, captured, up, tallies>>

(* The watcher dies, between two posts or within one. *)
Die ==
  /\ up # "down" /\ died < DeathCount /\ died' = died + 1 /\ up' = "down"
  /\ seen' = {} /\ seenMsgIds' = <<>> /\ handling' = NotHandling
  /\ skipped' = IF handling = NotHandling THEN skipped ELSE skipped \cup {handling.post}
  /\ UNCHANGED <<board, onDisk, captured, woken, seeded, fails>>

(* SIGINT, SIGTERM: the state is written, the peer closed. *)
Leaves ==
  /\ up # "down" /\ handling = NotHandling /\ died < DeathCount /\ died' = died + 1
  /\ onDisk' = Capped(seenMsgIds) /\ seen' = {} /\ seenMsgIds' = <<>> /\ up' = "down"
  /\ UNCHANGED <<board, captured, woken, handling, seeded, skipped, fails>>

CouncilStep ==
  \/ PostMade \/ Start \/ BackupPull \/ Capture \/ WriteState \/ Wake \/ Die \/ Leaves
  \/ \E p \in Post : SubHandsOver(p)

-----------------------------------------------------------------------------
(* A post wakes the agent at most once, over repetitions, pulls, deaths and *)
(* restarts, until the board has more posts than the file keeps ids of, and *)
(* at most once a life of the watcher from then on; and one that was        *)
(* handled to the end woke it or was the seed, unless a death or a failed   *)
(* append cut its handling short (council-watch.mjs 65-70, 72-73, 95-152).  *)
WakesOnce ==
  \A p \in Post :
    /\ board <= SEEN_CAP => woken[p] <= 1
    /\ woken[p] <= died + 1
    /\ (p \in seen /\ p # handling.post) => woken[p] > 0 \/ p \in seeded \cup skipped
=============================================================================
