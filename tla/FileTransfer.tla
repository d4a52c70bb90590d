---------------------------- MODULE FileTransfer ----------------------------
(***************************************************************************)
(* Files over topics, src/file-transfer.js: the bytes go to a topic named  *)
(* by their hash and a pointer to the shared topic; a fetch asks for a     *)
(* hash, hashes what arrived, and writes it under a name that is free.     *)
(* A hash is identified with the content it is of.  A name is a sequence   *)
(* of kinds of character: "x" an ordinary one, "c" a control character,    *)
(* "*" one no file name may have; lengths are scaled (120 to NameMax, the  *)
(* 16 of an extension to ExtMax).  A path is a name and its n-th variant.  *)
(***************************************************************************)
EXTENDS Naturals, SequencesExt

CONSTANTS
  Content,     \* the contents files have, which are also their hashes
  Large,       \* those above MAX_FILE_BYTES
  Fetcher,     \* bound: fetches, each runs once
  PathBound,   \* bound: variants of the file name
  NoContent    \* nothing: a topic without bytes, a path without a file

NameMax == 2
ExtMax == 1
Char == {"x", ".", "/", "*", "c"}
RawName == SeqOf(Char, NameMax + 1) \cup {<<"f", "i", "l", "e">>}

VARIABLES
  sending,   \* a send per content: "idle", "pointer" (bytes out), "sent"
  bytesAt,   \* bytes held under a hash's topic: anybody may publish there
  pointers,     \* messages of the shared topic: [hash, by, and whether each field is ours]
  fetching,  \* each fetch: "idle", "asked", "named", "saved", "refused"
  asked,     \* the hash it asked for
  arrived,   \* what it reassembled
  chosen,    \* the path it chose: [name, n], n = 0 before
  disk,      \* the files: [path, content]
  shared     \* history: paths two fetches had chosen, neither having written

fileVars == <<sending, bytesAt, pointers, fetching, asked, arrived, chosen, disk, shared>>
fetchVars == <<fetching, asked, arrived, chosen>>
sendVars == <<sending, bytesAt, pointers>>

NoPath == [name |-> <<>>, n |-> 0]
FileInit ==
  /\ sending = [c \in Content |-> "idle"]
  /\ bytesAt = [c \in Content |-> NoContent] /\ pointers = {}
  /\ fetching = [f \in Fetcher |-> "idle"] /\ asked = [f \in Fetcher |-> NoContent]
  /\ arrived = [f \in Fetcher |-> NoContent] /\ chosen = [f \in Fetcher |-> NoPath]
  /\ disk = {} /\ shared = {}

-----------------------------------------------------------------------------
(* makePointer fills every field; readPointer takes a message whose fields  *)
(* all are what it knows, and anybody may post one that is.                 *)
makePointer(c) == [hash |-> c, by |-> "us", v |-> "ours", kind |-> "ours", bytes |-> "ours", encoding |-> "ours"]
readPointer(m) == /\ m.v = "ours" /\ m.kind = "ours" /\ m.hash # NoContent
                  /\ m.bytes = "ours" /\ m.encoding = "ours"
\* Mutant: whatever was posted is listed.
ListedUnread == {m.hash : m \in pointers}

Listed == {m.hash : m \in {q \in pointers : readPointer(q)}}

(* sendFileBytes: the chunks, awaited, then the pointer; either may fail,   *)
(* and neither is sent of a file above the ceiling.                         *)
PublishBytes(c) ==
  /\ c \notin Large
  /\ sending[c] = "idle" /\ sending' = [sending EXCEPT ![c] = "pointer"]
  /\ bytesAt' = [bytesAt EXCEPT ![c] = c]
  /\ UNCHANGED <<pointers, fetchVars, disk, shared>>

\* Mutant: the pointer does not wait for the bytes.
PublishPointerFirst(c) ==
  /\ sending[c] \in {"idle", "pointer"} /\ sending' = [sending EXCEPT ![c] = "sent"]
  /\ pointers' = pointers \cup {makePointer(c)}
  /\ UNCHANGED <<bytesAt, fetchVars, disk, shared>>

PublishPointer(c) ==
  /\ sending[c] = "pointer" /\ sending' = [sending EXCEPT ![c] = "sent"]
  /\ pointers' = pointers \cup {makePointer(c)}
  /\ UNCHANGED <<bytesAt, fetchVars, disk, shared>>

(* Chat, another version's pointer, a pointer to anything (one such post).  *)
OthersPost ==
  /\ \A m \in pointers : m.by = "us"
  /\ \E c \in Content \cup {NoContent}, field \in {"v", "kind", "bytes", "encoding", "by"} :
       pointers' = pointers \cup {[[makePointer(c) EXCEPT !.by = "them"] EXCEPT ![field] = "other"]}
  /\ UNCHANGED <<sending, bytesAt, fetchVars, disk, shared>>

(* The topic is public: other bytes may be published under the same name.   *)
Foreign(c) ==
  /\ \E d \in Content \ {c} : bytesAt' = [bytesAt EXCEPT ![c] = d]
  /\ bytesAt[c] # NoContent
  /\ UNCHANGED <<sending, pointers, fetchVars, disk, shared>>

-----------------------------------------------------------------------------
(* The part of a name after its last separator, one at the end apart.       *)
LastOf(s, C) == Max({0} \cup {i \in DOMAIN s : s[i] \in C})
basename(s) ==
  LET stem == SubSeq(s, 1, LastOf(s, Char \ {"/"})) IN SubSeq(stem, LastOf(stem, {"/"}) + 1, Len(stem))
extname(s) == IF LastOf(s, {"."}) <= 1 THEN <<>> ELSE SubSeq(s, LastOf(s, {"."}), Len(s))

\* Mutant: the name is used as it came, and looked at only by containedPath.
UnsafeFilename(raw) == raw

(* Control characters go, and reserved ones become an underscore.           *)
Cleaned(s) ==
  LET upTo[n \in 0 .. Len(s)] ==
        IF n = 0 THEN <<>>
        ELSE IF s[n] = "c" THEN upTo[n - 1]
        ELSE Append(upTo[n - 1], IF s[n] = "*" THEN "_" ELSE s[n])
  IN  upTo[Len(s)]

(* One component: cleaned, without dots in front, never empty, and cut with *)
(* its extension kept.                                                      *)
safeFilename(raw) ==
  LET clean   == Cleaned(basename(raw))
      visible == {i \in DOMAIN clean : clean[i] # "."}
      bare  == IF visible = {} THEN <<>> ELSE SubSeq(clean, Min(visible), Len(clean))
      s     == IF bare = <<>> THEN <<"f", "i", "l", "e">> ELSE bare
      ext   == SubSeq(extname(s), 1, Min({ExtMax, Len(extname(s))}))
  IN IF Len(bare) > NameMax THEN SubSeq(s, 1, NameMax - Len(ext)) \o ext ELSE s

(* containedPath joins the name to FILES_DIR, resolves it, and throws when  *)
(* it is not inside.                                                        *)
containedPath(raw) == LET s == safeFilename(raw) IN
  IF s \in {<<".">>, <<".", ".">>} \/ "/" \in ToSet(s) THEN {} ELSE {s}

(* fetchFileToDisk: the hash comes from a listed pointer.                   *)
Ask(f) ==
  /\ fetching[f] = "idle" /\ fetching' = [fetching EXCEPT ![f] = "asked"]
  /\ \E c \in Listed : asked' = [asked EXCEPT ![f] = c]
  /\ UNCHANGED <<sendVars, arrived, chosen, disk, shared>>

(* uniquePath: the first variant with no file.                              *)
Taken(name, n) == \E d \in disk : d.path = [name |-> name, n |-> n]
FreePath(name, n) == ~Taken(name, n) /\ \A m \in 1 .. n - 1 : Taken(name, m)

Name(f, path) ==
  /\ fetching' = [fetching EXCEPT ![f] = "named"]
  /\ arrived' = [arrived EXCEPT ![f] = bytesAt[asked[f]]]
  /\ chosen' = [chosen EXCEPT ![f] = path]
  /\ shared' = IF \E g \in Fetcher : fetching[g] = "named" /\ chosen[g] = path
               THEN shared \cup {path} ELSE shared
  /\ UNCHANGED <<sendVars, asked, disk>>

FreshName(f) ==
  \E raw \in RawName : \E s \in containedPath(raw), n \in 1 .. PathBound :
    FreePath(s, n) /\ Name(f, [name |-> s, n |-> n])

\* Mutants: the hash of what arrived is not compared; the name is not looked up.
VerifyNothing(f) == fetching[f] = "asked" /\ bytesAt[asked[f]] # NoContent /\ FreshName(f)
VerifiedFirstName(f) == /\ fetching[f] = "asked" /\ bytesAt[asked[f]] = asked[f]
                        /\ Name(f, [name |-> <<"x">>, n |-> 1])

(* The bytes reassembled are what was asked for: a name is chosen, and the  *)
(* directory made (awaited) before the file is written.                     *)
Verified(f) == fetching[f] = "asked" /\ bytesAt[asked[f]] = asked[f] /\ FreshName(f)

(* Something else arrived, or nothing did in time. *)
Refused(f) ==
  /\ fetching[f] = "asked" /\ bytesAt[asked[f]] # asked[f]
  /\ fetching' = [fetching EXCEPT ![f] = "refused"]
  /\ UNCHANGED <<sendVars, asked, arrived, chosen, disk, shared>>

WriteOut(f) ==
  /\ fetching[f] = "named" /\ fetching' = [fetching EXCEPT ![f] = "saved"]
  /\ disk' = {d \in disk : d.path # chosen[f]} \cup {[path |-> chosen[f], content |-> arrived[f]]}
  /\ UNCHANGED <<sendVars, asked, arrived, chosen, shared>>

FileStep ==
  \/ \E c \in Content : PublishBytes(c) \/ PublishPointer(c) \/ Foreign(c)
  \/ OthersPost
  \/ \E f \in Fetcher : Ask(f) \/ Verified(f) \/ Refused(f) \/ WriteOut(f)

-----------------------------------------------------------------------------
(* A fetch that reported a path and a hash told the truth for as long as    *)
(* the file is not touched, except when another fetch chose the same free   *)
(* path before either wrote: a mismatch never reaches the disk, no file     *)
(* that was there is overwritten, and whatever the file is called where it  *)
(* was sent, here its name is one visible component that is not too long    *)
(* (file-transfer.js 91-121, 173-188).                                      *)
SavedIsWhatWasAsked ==
  \A f \in Fetcher :
    fetching[f] = "saved" =>
      /\ chosen[f] \in shared \/ [path |-> chosen[f], content |-> asked[f]] \in disk
      /\ LET s == chosen[f].name IN /\ ToSet(s) \subseteq {"x", ".", "_", "f", "i", "l", "e"}
                                    /\ s # <<>> /\ s[1] # "."
                                    /\ Len(s) <= NameMax \/ s = <<"f", "i", "l", "e">>

(* A hash is announced here only when its bytes were published, so that a   *)
(* fetch by one of our pointers never waits for bytes nobody sent, and never*)
(* of a file too large to be reassembled; and what a list shows is a hash   *)
(* one can ask for, whatever else is posted on the topic (file-transfer.js  *)
(* 37-40, 68-79, 127-142, 152-157).                                         *)
AnnouncedIsPublished ==
  /\ \A m \in pointers : m.by = "us" => m.hash \notin Large /\ bytesAt[m.hash] # NoContent
  /\ NoContent \notin Listed
=============================================================================
