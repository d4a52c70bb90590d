----------------------------- MODULE AuthorSeat -----------------------------
(***************************************************************************)
(* The seat lock of an author key: src/mcp-session.js keeps one lock file  *)
(* beside each identity file, and every MCP server process that resolves   *)
(* to that identity goes through claimAuthorIdentity() before it loads the *)
(* key, and through release() when it leaves.                              *)
(*                                                                         *)
(* The processes are operating-system processes, so the file system calls  *)
(* of a claim (read, then truncate, then write) and of a release (read,    *)
(* then unlink) interleave with those of every other process, and a        *)
(* process may be killed between any two of them.  A pid names a process   *)
(* only while it lives: the OS may hand the pid of a dead process to a new *)
(* server or to an unrelated program.                                      *)
(***************************************************************************)
EXTENDS Naturals

CONSTANTS
  Pid,        \* the process ids the operating system hands out
  Recyclable, \* the pids it may hand out again after their process died
  Handle,     \* the display handles an install can be configured with
  Config,     \* the environments a server can be started with
  NoLock,     \* there is no lock file
  Torn        \* the file exists and is not valid JSON: truncated, half written, corrupt

Lock == [pid : Pid, handle : Handle]

ASSUME SeatAssumption ==
  /\ Recyclable \subseteq Pid
  /\ Config \subseteq [handle : Handle, strict : BOOLEAN, shared : BOOLEAN, usingDefault : BOOLEAN]
  /\ NoLock \notin Lock /\ Torn \notin Lock /\ NoLock # Torn

VARIABLES
  lock,    \* the content of the lock file
  life,    \* what runs under each pid
  conf,    \* the environment of the server that runs, or last ran, under a pid
  pc,      \* where that server is in claimAuthorIdentity() or release()
  held,    \* what its claim read from the lock file
  leaving, \* shutdown() has begun in that server: it refuses to sign
  raced    \* history: some claim overwrote a lock file it had not read

seatVars == <<lock, life, conf, pc, held, leaving, raced>>

Lives == {"unborn", "server", "foreign", "dead"}

(***************************************************************************)
(* "unclaimed" no claim made yet, or the last one was refused;             *)
(* "read"      the lock file was read, the decision is still to be made;   *)
(* "write"     the file was opened for writing: truncated, not yet written;*)
(* "owner"     the claim returned the release() that unlinks;              *)
(* "joiner"    the claim returned the release() of a shared seat: a no-op; *)
(* "unlink"    release() read this pid in the file, unlinkSync() is next;  *)
(* "freed"     a release() has run; further ones may.                      *)
(***************************************************************************)
Stages == {"unclaimed", "read", "write", "owner", "joiner", "unlink", "freed"}

SeatTypeOK ==
  /\ lock \in Lock \cup {NoLock, Torn}
  /\ life \in [Pid -> Lives]
  /\ conf \in [Pid -> Config]
  /\ pc   \in [Pid -> Stages]
  /\ held \in [Pid -> Lock \cup {NoLock, Torn}]
  /\ leaving \in [Pid -> BOOLEAN]
  /\ raced \in BOOLEAN

SeatInit ==
  /\ lock \in {NoLock, Torn}
  /\ life = [p \in Pid |-> "unborn"]
  /\ \E c \in Config : conf = [p \in Pid |-> c]    \* of no consequence before Spawn
  /\ pc   = [p \in Pid |-> "unclaimed"]
  /\ held = [p \in Pid |-> NoLock]
  /\ leaving = [p \in Pid |-> FALSE]
  /\ raced = FALSE

Alive(p)  == life[p] \in {"server", "foreign"}    \* pidAlive: ours or not, it answers kill(pid, 0)
Server(p) == life[p] = "server"
Names(l, p) == l \in Lock /\ l.pid = p

-----------------------------------------------------------------------------
(* Process life: started by an editor host, killed, replaced. *)

\* The process is gone, and its memory with it.
Ended(p) ==
  /\ life' = [life EXCEPT ![p] = "dead"]
  /\ pc'   = [pc EXCEPT ![p] = "unclaimed"]
  /\ held' = [held EXCEPT ![p] = NoLock]
  /\ leaving' = [leaving EXCEPT ![p] = FALSE]

Free(p) == life[p] = "unborn" \/ (p \in Recyclable /\ ~Alive(p))

\* A new server comes up under a free pid with some environment.
Spawn(p) ==
  /\ Free(p)
  /\ \E c \in Config : conf' = [conf EXCEPT ![p] = c]
  /\ life' = [life EXCEPT ![p] = "server"]
  /\ UNCHANGED <<lock, pc, held, leaving, raced>>

\* An unrelated program comes up under the pid of a process that died.
SpawnForeign(p) ==
  /\ p \in Recyclable /\ life[p] = "dead"
  /\ life' = [life EXCEPT ![p] = "foreign"]
  /\ UNCHANGED <<lock, conf, pc, held, leaving, raced>>

\* SIGKILL, power loss, an unrelated program ending: nothing is released.
Die(p) ==
  /\ Alive(p)
  /\ Ended(p)
  /\ UNCHANGED <<lock, conf, raced>>

-----------------------------------------------------------------------------
(* claimAuthorIdentity() *)

\* The strict guard throws before anything is read.
MayFallBack(c) == ~(c.strict /\ c.usingDefault)

ReadLock(p) ==
  /\ Server(p) /\ pc[p] = "unclaimed" /\ ~leaving[p]
  /\ MayFallBack(conf[p])
  /\ held' = [held EXCEPT ![p] = lock]
  /\ pc'   = [pc EXCEPT ![p] = "read"]
  /\ UNCHANGED <<lock, life, conf, leaving, raced>>

\* The mutants: no lock ever refuses; a lock refuses whether or not its process lives.
NeverHeld(p)    == FALSE
HeldByAnyone(p) == held[p] \in Lock /\ held[p].pid # p

\* The lock that was read names another process, and that process answers.
HeldByOther(p) == held[p] \in Lock /\ held[p].pid # p /\ Alive(held[p].pid)

MayJoin(p) ==
  conf[p].shared /\ ~conf[p].usingDefault /\ held[p].handle = conf[p].handle

\* The claim goes on to stage s; what it read goes out of scope.
Decided(p, s) ==
  /\ pc'   = [pc EXCEPT ![p] = s]
  /\ held' = [held EXCEPT ![p] = NoLock]
  /\ UNCHANGED <<life, conf, leaving>>

ShareSeat(p) ==
  /\ Server(p) /\ pc[p] = "read"
  /\ HeldByOther(p) /\ MayJoin(p)
  /\ Decided(p, "joiner")
  /\ UNCHANGED <<lock, raced>>

\* The claim throws; the next tool call of this server tries again.
Refuse(p) ==
  /\ Server(p) /\ pc[p] = "read"
  /\ HeldByOther(p) /\ ~MayJoin(p)
  /\ Decided(p, "unclaimed")
  /\ UNCHANGED <<lock, raced>>

\* The check has gone stale when the file is no longer what this claim read,
\* or when what it read as corrupt was another live claim half way through.
Stale(p) ==
  \/ lock # held[p]
  \/ \E q \in Pid \ {p} : Server(q) /\ pc[q] = "write"

\* The pid check and the truncating open of writeFileSync() are one step.
Truncate(p) ==
  /\ Server(p) /\ pc[p] = "read"
  /\ ~HeldByOther(p)
  /\ raced' = (raced \/ Stale(p))
  /\ lock' = Torn
  /\ Decided(p, "write")

\* The mutant: the lock names the pid and not the handle.
WriteBarePid(p) ==
  /\ Server(p) /\ pc[p] = "write"
  /\ lock' = p
  /\ pc'   = [pc EXCEPT ![p] = "owner"]
  /\ UNCHANGED <<life, conf, held, leaving, raced>>

WriteLock(p) ==
  /\ Server(p) /\ pc[p] = "write"
  /\ lock' = [pid |-> p, handle |-> conf[p].handle]
  /\ pc'   = [pc EXCEPT ![p] = "owner"]
  /\ UNCHANGED <<life, conf, held, leaving, raced>>

-----------------------------------------------------------------------------
(* release(): at entry of shutdown(), in its finally, in the exit handlers *)

\* shutdown() is reached from JavaScript, never from inside the synchronous
\* claim: a server that is leaving has finished its claim or made none.
BeginShutdown(p) ==
  /\ Server(p) /\ ~leaving[p]
  /\ pc[p] \in {"unclaimed", "owner", "joiner"}
  /\ leaving' = [leaving EXCEPT ![p] = TRUE]
  /\ UNCHANGED <<lock, life, conf, pc, held, raced>>

\* The mutant: release() unlinks whatever lock is there.
AnyLockRelease(p) ==
  /\ Server(p) /\ leaving[p] /\ pc[p] \in {"owner", "freed"}
  /\ pc' = [pc EXCEPT ![p] = IF lock \in Lock THEN "unlink" ELSE "freed"]
  /\ UNCHANGED <<lock, life, conf, held, leaving, raced>>

\* The mutant: the seat is never given back.
NoRelease(p) ==
  /\ Server(p) /\ leaving[p] /\ pc[p] \in {"owner", "freed"}
  /\ pc' = [pc EXCEPT ![p] = "freed"]
  /\ UNCHANGED <<lock, life, conf, held, leaving, raced>>

ReleaseRead(p) ==
  /\ Server(p) /\ leaving[p] /\ pc[p] \in {"owner", "freed"}
  /\ pc' = [pc EXCEPT ![p] = IF Names(lock, p) THEN "unlink" ELSE "freed"]
  /\ UNCHANGED <<lock, life, conf, held, leaving, raced>>

Unlink(p) ==
  /\ Server(p) /\ pc[p] = "unlink"
  /\ lock' = NoLock
  /\ pc'   = [pc EXCEPT ![p] = "freed"]
  /\ UNCHANGED <<life, conf, held, leaving, raced>>

\* process.exit() at the end of terminate(): an owner has released by then.
Quit(p) ==
  /\ Server(p) /\ leaving[p]
  /\ pc[p] \in {"unclaimed", "joiner", "freed"}
  /\ Ended(p)
  /\ UNCHANGED <<lock, conf, raced>>

-----------------------------------------------------------------------------
Step(p) ==
  \/ Spawn(p) \/ SpawnForeign(p) \/ Die(p)
  \/ ReadLock(p) \/ ShareSeat(p) \/ Refuse(p) \/ Truncate(p) \/ WriteLock(p)
  \/ BeginShutdown(p) \/ ReleaseRead(p) \/ Unlink(p) \/ Quit(p)

SeatNext == \E p \in Pid : Step(p)

SeatSpec == SeatInit /\ [][SeatNext]_seatVars

-----------------------------------------------------------------------------
(* Properties *)

Owner(p)  == Server(p) /\ pc[p] \in {"owner", "unlink"}
Signer(p) == Server(p) /\ pc[p] \in {"owner", "joiner"} /\ ~leaving[p]

(***************************************************************************)
(* As long as no claim overwrote a lock it had not read, one author key    *)
(* has at most one live owner, through kills, stale and corrupt locks,     *)
(* recycled pids and replacements that start while the owner is leaving.   *)
(***************************************************************************)
SoleOwner ==
  ~raced => \A p, q \in Pid : Owner(p) /\ Owner(q) => p = q

(***************************************************************************)
(* ... and the lock file names that owner for as long as it owns: whoever  *)
(* starts later reads who holds the key, whatever other processes released *)
(* or reclaimed in the meantime.                                           *)
(***************************************************************************)
OwnerIsNamed ==
  ~raced => \A p \in Pid : Owner(p) => Names(lock, p)

(***************************************************************************)
(* release() touches only its own lock: a step that removes the file       *)
(* removes the lock of the process that takes the step, so the second      *)
(* release of a leaving server never frees the seat of its replacement.    *)
(***************************************************************************)
RemovesOwnLock ==
  [][ ~raced /\ lock # NoLock /\ lock' = NoLock
        => \E p \in Pid : Names(lock, p) /\ pc[p] = "unlink" /\ pc'[p] = "freed" ]_seatVars

(***************************************************************************)
(* A server that went through release() has left no lock of its own behind *)
(* (only a killed process leaves a stale one), although its second release *)
(* runs when a replacement may already have claimed the seat.              *)
(***************************************************************************)
ReleasedSeatIsFree ==
  ~raced => \A p \in Pid : Server(p) /\ pc[p] = "freed" => ~Names(lock, p)

(***************************************************************************)
(* A claim is refused only because of a server that claimed the key and is *)
(* still running: never because of a crash, of a corrupt file, or of a     *)
(* process that has nothing to do with the key.  The exception is the pid  *)
(* of a dead holder that the operating system has handed out again, which  *)
(* the code cannot tell from the holder.                                   *)
(***************************************************************************)
RefusedByOwner ==
  [][ \A p \in Pid :
        pc[p] = "read" /\ pc'[p] = "unclaimed" /\ life'[p] = "server"
          => \E q \in Pid \ {p} :
               /\ Names(held[p], q) /\ Alive(q)
               /\ q \in Recyclable \/ (Server(q) /\ pc[q] \in {"owner", "unlink", "freed"}) ]_seatVars

(***************************************************************************)
(* src/mcp-session.js:108: a second live process on the same author file   *)
(* is refused outright.  Stated for installs that do not share a seat.     *)
(***************************************************************************)
SecondProcessRefused ==
  \A p, q \in Pid : Owner(p) /\ Owner(q) => p = q

=============================================================================
