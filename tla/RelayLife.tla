----------------------------- MODULE RelayLife -----------------------------
(***************************************************************************)
(* What a relay process promises whoever runs it, from the moment its      *)
(* shutdown wiring is up: it serves until it is asked to stop, then leaves, *)
(* and what it held in the mesh is handed off before it is gone.  The      *)
(* connect loop that RelayDaemon models is one way to keep this promise;   *)
(* RelayService relies on nothing else of the relay.                       *)
(***************************************************************************)

VARIABLES
  life,   \* "up", "leaving", "gone"
  holds   \* the process is in the mesh and may hold roots and backups

lifeVars == <<life, holds>>

Init == life = "up" /\ holds = FALSE

\* The bridge welcomes the node.
Join == life \in {"up", "leaving"} /\ holds' = TRUE /\ UNCHANGED life

\* A failed connect is torn down.
Drop == life \in {"up", "leaving"} /\ holds' = FALSE /\ UNCHANGED life

\* shutdown(why): a signal, or the stop file.
Stop == life = "up" /\ life' = "leaving" /\ UNCHANGED holds

\* stopRelay() has handed everything off; process.exit(0).
Leave == life = "leaving" /\ life' = "gone" /\ holds' = FALSE

Next == Join \/ Drop \/ Stop \/ Leave

Spec == Init /\ [][Next]_lifeVars /\ WF_lifeVars(Leave)

SafeSpec == Init /\ [][Next]_lifeVars

=============================================================================
