------------------------------ MODULE PostHeld ------------------------------
(***************************************************************************)
(* Posting and holding until somebody else reads it: scripts/mcp-post.mjs  *)
(* and scripts/mcp-bot-post.mjs.  A script loads the durable author from   *)
(* its file, or mints one, connects, warms the route, publishes, and keeps *)
(* the publisher alive while an independent probe looks for the message,   *)
(* by replay and by reads; the first script also publishes again.  Scripts *)
(* take no lock.                                                           *)
(***************************************************************************)
EXTENDS Naturals

CONSTANTS
  Script,      \* runs of the scripts
  HoldTime,    \* time units until a script gives up: 150 s
  RepostEvery  \* time units between publishes: 45 s

VARIABLES
  idFile,   \* the author file: [author, whole]; author 0 before there is one
  minted,   \* authors minted
  doing,    \* each script: "off", "save", "write", "connect", "warm", "hold",
            \* "report", "gone"
  kind,     \* each: "post" or "bot"
  signs,    \* each: the author it signs as
  copy,     \* its message: "none", "publisher" (only there), "mesh", "lost"
  older,    \* its topic holds an older message of the same text
  heldFor,     \* each: time since it holds
  lastPub,  \* each: when it published last, of heldFor
  via,      \* how the probe saw it: "none", "replay", "pull"
  saw,      \* history: what the probe saw was this message
  timeouts, \* reads of the probe that ran out of time: 0 or more (1)
  said,     \* what was printed: "none", "confirmed", "not disproven", "not seen"
  raced     \* history: somebody looked for the author, or was killed, while it was saved

postVars == <<idFile, minted, doing, kind, signs, copy, older, heldFor, lastPub, via, saw, timeouts, said, raced>>

All(v) == [p \in Script |-> v]
PostInit ==
  /\ idFile = [author |-> 0, whole |-> TRUE] /\ minted = 0 /\ doing = All("off") /\ kind = All("post")
  /\ signs = All(0) /\ copy = All("none") /\ older = FALSE /\ heldFor = All(0) /\ lastPub = All(0)
  /\ via = All("none") /\ saw = All(FALSE) /\ timeouts = All(0) /\ said = All("none") /\ raced = FALSE

At(p, from, to) == doing[p] = from /\ doing' = [doing EXCEPT ![p] = to]
Saving(p) == doing[p] \in {"save", "write"}

-----------------------------------------------------------------------------
(* createAuthorIdentity({persistAs, store}): a file that does not parse is  *)
(* a file without an author.                                                *)
LoadAuthor(p) ==
  /\ \E k \in {"post", "bot"}, o \in BOOLEAN : kind' = [kind EXCEPT ![p] = k] /\ older' = (older \/ o)
  /\ IF idFile.whole /\ idFile.author # 0
     THEN At(p, "off", "connect") /\ signs' = [signs EXCEPT ![p] = idFile.author] /\ UNCHANGED minted
     ELSE At(p, "off", "save") /\ minted' = minted + 1 /\ signs' = [signs EXCEPT ![p] = minted']
  /\ raced' = (raced \/ \E q \in Script : Saving(q))
  /\ UNCHANGED <<idFile, copy, heldFor, lastPub, via, saw, timeouts, said>>

SaveAuthor(p) ==
  /\ \/ At(p, "save", "write") /\ idFile' = [author |-> signs[p], whole |-> FALSE]
     \/ At(p, "write", "connect") /\ idFile' = [author |-> signs[p], whole |-> TRUE]
  /\ UNCHANGED <<minted, kind, signs, copy, older, heldFor, lastPub, via, saw, timeouts, said, raced>>

(* The publisher's peer, then a read of the topic that only warms it.       *)
Connects(p) ==
  /\ At(p, "connect", "warm")
  /\ UNCHANGED <<idFile, minted, kind, signs, copy, older, heldFor, lastPub, via, saw, timeouts, said, raced>>

(* peer.pub() comes back when the message is accepted here; it may be at a  *)
(* root, or not yet.  The probe connects and asks for history.              *)
Published(p) == copy' = [copy EXCEPT ![p] = IF copy[p] = "mesh" THEN "mesh" ELSE "publisher"]
Publish(p) ==
  /\ At(p, "warm", "hold") /\ Published(p)
  /\ UNCHANGED <<idFile, minted, kind, signs, older, heldFor, lastPub, via, saw, timeouts, said, raced>>

MeshTakes(p) ==
  /\ copy[p] = "publisher" /\ copy' = [copy EXCEPT ![p] = "mesh"]
  /\ UNCHANGED <<idFile, minted, doing, kind, signs, older, heldFor, lastPub, via, saw, timeouts, said, raced>>

(* The copy a root held is gone; publishing again brings it back.           *)
MeshDrops(p) ==
  /\ copy[p] = "mesh" /\ copy' = [copy EXCEPT ![p] = "lost"]
  /\ UNCHANGED <<idFile, minted, doing, kind, signs, older, heldFor, lastPub, via, saw, timeouts, said, raced>>

-----------------------------------------------------------------------------
Holding(p) == doing[p] = "hold" /\ via[p] = "none" /\ heldFor[p] < HoldTime

\* Mutant: any message of the topic will do.
AnyMessage(p, mine) == TRUE

(* seen(): the message, or one of the same text.                            *)
Seen(p, mine) == mine \/ older

(* The probe sees something on its topic, in its history or by a read; what *)
(* it sees need not be the message.                                         *)
ProbeSees(p, how) ==
  /\ Holding(p)
  /\ \E mine \in {copy[p] \in {"publisher", "mesh"}, FALSE} :
       /\ Seen(p, mine) /\ saw' = [saw EXCEPT ![p] = mine]
  /\ via' = [via EXCEPT ![p] = how]
  /\ UNCHANGED <<idFile, minted, doing, kind, signs, copy, older, heldFor, lastPub, timeouts, said, raced>>

(* Time goes by with a read that saw something else, threw, or took all the *)
(* time it had; the second script does not count one that took it and threw.*)
ReadFails(p) ==
  /\ Holding(p) /\ heldFor' = [heldFor EXCEPT ![p] = @ + 1]
  /\ \E late \in BOOLEAN : timeouts' = [timeouts EXCEPT ![p] = IF late THEN 1 ELSE @]
  /\ UNCHANGED <<idFile, minted, doing, kind, signs, older, via, saw, said, raced>>

(* After its read the first script publishes again when it is time; a       *)
(* publish that fails is tried at the next round.                           *)
PostReads(p) ==
  /\ kind[p] = "post" /\ ReadFails(p)
  /\ \/ /\ heldFor'[p] - lastPub[p] >= RepostEvery
        /\ Published(p) /\ lastPub' = [lastPub EXCEPT ![p] = heldFor'[p]]
     \/ UNCHANGED <<copy, lastPub>>

(* The second script publishes once.                                        *)
BotReads(p) == kind[p] = "bot" /\ ReadFails(p) /\ UNCHANGED <<copy, lastPub>>

Said(p) == IF via[p] # "none" THEN "confirmed" ELSE IF timeouts[p] > 0 THEN "not disproven" ELSE "not seen"
Report(p) ==
  /\ ~Holding(p) /\ At(p, "hold", "report") /\ said' = [said EXCEPT ![p] = Said(p)]
  /\ UNCHANGED <<idFile, minted, kind, signs, copy, older, heldFor, lastPub, via, saw, timeouts, raced>>

(* Closing the probe and the publisher, an error on the way, or a kill:     *)
(* what only the publisher has goes with it.                                *)
Leaves(p) ==
  /\ doing[p] \notin {"off", "gone"} /\ doing' = [doing EXCEPT ![p] = "gone"]
  /\ copy' = [copy EXCEPT ![p] = IF @ = "publisher" THEN "lost" ELSE @]
  /\ raced' = (raced \/ Saving(p))
  /\ UNCHANGED <<idFile, minted, kind, signs, older, heldFor, lastPub, via, saw, timeouts, said>>

PostStep ==
  \E p \in Script : \/ LoadAuthor(p) \/ SaveAuthor(p) \/ Connects(p) \/ Publish(p) \/ MeshTakes(p) \/ MeshDrops(p)
                    \/ ProbeSees(p, "replay") \/ ProbeSees(p, "pull") \/ PostReads(p) \/ BotReads(p) \/ Report(p) \/ Leaves(p)

-----------------------------------------------------------------------------
(* A post is reported as it was seen, by the author of the file.            *)
(* "Confirmed" is said of a message somebody else read, or whose text the   *)
(* topic had before; a message is not given up before its time; and two     *)
(* scripts sign alike unless one looked for the author while the other was  *)
(* writing it, or its write was cut short (mcp-post.mjs 60-66 and 93-149,   *)
(* mcp-bot-post.mjs 47-56 and 70-115).                                      *)
PostsAreTrue ==
  \A p \in Script :
    /\ said[p] = "confirmed" => saw[p] \/ older
    /\ said[p] \in {"not disproven", "not seen"} => heldFor[p] >= HoldTime
    /\ \A q \in Script : ~raced /\ signs[p] # 0 /\ signs[q] # 0 => signs[p] = signs[q]
=============================================================================
