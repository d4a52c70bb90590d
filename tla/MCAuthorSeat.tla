---------------------------- MODULE MCAuthorSeat ----------------------------
(***************************************************************************)
(* Small instances of AuthorSeat: three pids, two handles, and the         *)
(* environments an operator can give a server.                             *)
(***************************************************************************)
EXTENDS AuthorSeat, TLC

CONSTANTS h1, h2

Env(h, st, sh, df) == [handle |-> h, strict |-> st, shared |-> sh, usingDefault |-> df]

\* Without sharing (an explicit path, the default path, a strict install) and
\* with it (both handles, and a misconfigured install on the default path).
Installs ==
  {Env(h1, FALSE, FALSE, FALSE), Env(h2, TRUE, FALSE, TRUE),
   Env(h1, FALSE, TRUE, FALSE), Env(h2, FALSE, TRUE, FALSE), Env(h1, FALSE, TRUE, TRUE)}

\* p1 is the pid that may be handed out again.
Pids == Permutations(Pid \ Recyclable)

=============================================================================
