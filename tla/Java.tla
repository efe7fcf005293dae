-------------------------------- MODULE Java --------------------------------
(***************************************************************************)
(* JavaProvisioner::provision for one component: the listing Mojang        *)
(* publishes is fetched, its files are downloaded side by side into a      *)
(* directory that outlives crashes and older listings, links are made, and *)
(* a marker with the digest of the listing says that all of it is there.   *)
(* A file is taken by its size; nothing but the marker is looked at once   *)
(* it names the listing.                                                   *)
(*                                                                         *)
(* A file is the length of what is on disk and the body it is a prefix of; *)
(* bodies differ from their first unit on.  Provisions of one component    *)
(* take turns here: two at once share paths as two assets of one hash do   *)
(* (FileFetch).                                                            *)
(***************************************************************************)
EXTENDS Naturals, Sequences

CONSTANTS
    File,        \* paths of the regular files of all listings
    JavaFile,    \* the one that is bin/java
    Body,        \* published contents
    Garbled,     \* a content that is no prefix of a published one
    None,        \* no listing, no link, no body
    Torn,        \* a marker that was emptied and not written yet
    Published,   \* the listings in the order Mojang publishes them: for each
                 \* file [body, size, executable], or None
    Target,      \* listing by listing, what the link points to
    MaxLen,      \* bound: the longest file a server sends
    Attempts,    \* Builder::attempts of the fetcher
    MaxFaults    \* bound: failures and crashes in a behaviour

Listing == DOMAIN Published
Entry == [body : Body, size : 1..MaxLen, executable : BOOLEAN]

\* RuntimeFiles::regular_files.
Files(l) == {f \in File : Published[l][f] # None}

ASSUME JavaAssumption ==
    /\ {MaxLen, Attempts, MaxFaults} \subseteq Nat /\ Attempts > 0
    /\ Published \in Seq([File -> Entry \cup {None}]) /\ Published # <<>>
    /\ Target \in [Listing -> File]
    /\ \A l \in Listing : JavaFile \in Files(l) /\ Published[l][JavaFile].executable
    /\ None \notin Entry \cup Listing \cup File \cup Body
    /\ Torn \notin Listing \cup {None} /\ Garbled \notin Body \cup {None}

VARIABLES
    current,   \* the listing Mojang publishes now
    disk,      \* the files of the runtime
    link,      \* what its link points to
    marker,    \* .acelus-runtime
    op,        \* the provision in progress
    faults,    \* failures and crashes so far
    honest     \* servers only ever send what is published

vars == <<current, disk, link, marker, op, faults, honest>>

Pc == {"idle", "listing", "files", "unlink", "symlink", "markEmpty", "mark", "finish"}
Stage == {"todo", "send", "body", "chmod", "done", "failed"}

OnDisk == [body : Body \cup {Garbled, None}, len : 0..MaxLen, executable : BOOLEAN]

Op == [pc      : Pc,
       listing : Listing,
       stage   : [File -> Stage],           \* of the downloads of download_files
       tries   : [File -> 1..Attempts],
       result  : {"none", "ok", "error"}]

Missing == [body |-> None, len |-> 0, executable |-> FALSE]

Idle(l) == [pc |-> "idle", listing |-> l, stage |-> [f \in File |-> "todo"],
            tries |-> [f \in File |-> 1], result |-> "none"]

TypeOK ==
    /\ current \in Listing
    /\ disk \in [File -> OnDisk]
    /\ link \in File \cup {None}
    /\ marker \in Listing \cup {None, Torn}
    /\ op \in Op
    /\ faults \in 0..MaxFaults
    /\ honest \in BOOLEAN

Init ==
    /\ current = 1
    /\ disk = [f \in File |-> Missing]
    /\ link = None
    /\ marker = None
    /\ op = Idle(1)
    /\ faults = 0
    /\ honest \in BOOLEAN

------------------------------------------------------------------------------
(* Helpers *)

Wanted(f) == Published[op.listing][f]

\* is_present_and_sized.
IsPresent(f) == disk[f].len = Wanted(f).size

\* Fault: the response is appended whatever its status.
OpenedAppended(found, wanted, partial) ==
    LET resumed == found.len \in 1..wanted.size - 1
    IN  [body       |-> IF resumed /\ (~partial \/ found.body # wanted.body) THEN Garbled
                        ELSE wanted.body,
         len        |-> IF resumed THEN found.len ELSE 0,
         executable |-> found.executable]

\* The file as the body of a response starts: a shorter one is resumed if the
\* server does (206), any other is written anew.  A prefix of something else
\* spoils what follows.
Opened(found, wanted, partial) ==
    LET resumed == partial /\ found.len \in 1..wanted.size - 1
    IN  [body       |-> IF resumed /\ found.body # wanted.body THEN Garbled ELSE wanted.body,
         len        |-> IF resumed THEN found.len ELSE 0,
         executable |-> found.executable]

Goto(pc) == op' = [op EXCEPT !.pc = pc]
Return(result) == op' = [Idle(op.listing) EXCEPT !.result = result]
GotoStage(f, stage) == op' = [op EXCEPT !.stage[f] = stage]

Faulty == faults < MaxFaults /\ faults' = faults + 1

------------------------------------------------------------------------------
(* Actions *)

\* Mojang publishes a new listing; all.json never goes back to an older one.
Publish ==
    /\ current + 1 \in Listing
    /\ current' = current + 1
    /\ UNCHANGED <<disk, link, marker, op, faults, honest>>

\* provision with the listing of the plan, and is_complete.
Provision ==
    /\ op.pc = "idle"
    /\ op' = [Idle(current) EXCEPT !.pc = IF marker = current THEN "finish" ELSE "listing"]
    /\ UNCHANGED <<current, disk, link, marker, faults, honest>>

\* The listing has arrived and has its digest; directories are made.
GetListing ==
    /\ op.pc = "listing"
    /\ Goto("files")
    /\ UNCHANGED <<current, disk, link, marker, faults, honest>>

\* Fault: only a file that was downloaded is made executable.
CheckForgetsMode(f) ==
    /\ op.pc = "files" /\ f \in Files(op.listing) /\ op.stage[f] = "todo"
    /\ GotoStage(f, IF IsPresent(f) THEN "done" ELSE "send")
    /\ UNCHANGED <<current, disk, link, marker, faults, honest>>

\* A download of download_files: a file of the right size is not fetched.
Check(f) ==
    /\ op.pc = "files" /\ f \in Files(op.listing) /\ op.stage[f] = "todo"
    /\ GotoStage(f, IF IsPresent(f) THEN "chmod" ELSE "send")
    /\ UNCHANGED <<current, disk, link, marker, faults, honest>>

\* to_file, an attempt: the response comes, and the file is opened for it.
Respond(f) ==
    /\ op.pc = "files" /\ op.stage[f] = "send"
    /\ \E partial \in BOOLEAN :
        disk' = [disk EXCEPT ![f] = Opened(disk[f], Wanted(f), partial)]
    /\ GotoStage(f, "body")
    /\ UNCHANGED <<current, link, marker, faults, honest>>

Chunk(f) ==
    /\ op.pc = "files" /\ op.stage[f] = "body"
    /\ disk[f].len < (IF honest THEN Wanted(f).size ELSE MaxLen)
    /\ \E good \in BOOLEAN :
        /\ honest => good
        /\ disk' = [disk EXCEPT ![f].len = disk[f].len + 1,
                                ![f].body = IF good THEN disk[f].body ELSE Garbled]
    /\ UNCHANGED <<current, link, marker, op, faults, honest>>

\* The body ends; if it is not what the listing says, that is an error nobody
\* retries, and the file stays as it is.
BodyEnds(f) ==
    /\ op.pc = "files" /\ op.stage[f] = "body"
    /\ honest => disk[f].len = Wanted(f).size
    /\ GotoStage(f, IF disk[f].len = Wanted(f).size /\ disk[f].body = Wanted(f).body
                    THEN "chmod" ELSE "failed")
    /\ UNCHANGED <<current, disk, link, marker, faults, honest>>

\* Fault: one attempt too many.
RetryOnceMore(f) ==
    /\ op.pc = "files" /\ op.stage[f] \in {"send", "body"}
    /\ op' = IF op.tries[f] <= Attempts
             THEN [op EXCEPT !.stage[f] = "send", !.tries[f] = op.tries[f] + 1]
             ELSE [op EXCEPT !.stage[f] = "failed"]
    /\ Faulty
    /\ UNCHANGED <<current, disk, link, marker, honest>>

\* The connection breaks; retrying, until the attempts are used up.
Retry(f) ==
    /\ op.pc = "files" /\ op.stage[f] \in {"send", "body"}
    /\ op' = IF op.tries[f] < Attempts
             THEN [op EXCEPT !.stage[f] = "send", !.tries[f] = op.tries[f] + 1]
             ELSE [op EXCEPT !.stage[f] = "failed"]
    /\ Faulty
    /\ UNCHANGED <<current, disk, link, marker, honest>>

\* set_executable, also of a file that was there; a file that is not executable
\* keeps the mode it has.
SetExecutable(f) ==
    /\ op.pc = "files" /\ op.stage[f] = "chmod"
    /\ disk' = [disk EXCEPT ![f].executable = disk[f].executable \/ Wanted(f).executable]
    /\ GotoStage(f, "done")
    /\ UNCHANGED <<current, link, marker, faults, honest>>

\* A download fails for good: no connection, a full disk.  The others go on.
FileFails(f) ==
    /\ op.pc = "files" /\ op.stage[f] \in {"todo", "send", "body", "chmod"}
    /\ f \in Files(op.listing)
    /\ GotoStage(f, "failed")
    /\ Faulty
    /\ UNCHANGED <<current, disk, link, marker, honest>>

\* buffer_unordered and collect: all downloads end before any error counts.
Collect ==
    /\ op.pc = "files"
    /\ \A f \in Files(op.listing) : op.stage[f] \in {"done", "failed"}
    /\ IF \E f \in Files(op.listing) : op.stage[f] = "failed" THEN Return("error")
       ELSE Goto("unlink")
    /\ UNCHANGED <<current, disk, link, marker, faults, honest>>

\* Fault: a link that is there is not removed first.
UnlinkSkipped ==
    /\ op.pc = "unlink"
    /\ Goto("symlink")
    /\ UNCHANGED <<current, disk, link, marker, faults, honest>>

\* create_links: remove_file, whose error is ignored, then symlink.
Unlink ==
    /\ op.pc = "unlink"
    /\ link' = None
    /\ Goto("symlink")
    /\ UNCHANGED <<current, disk, marker, faults, honest>>

\* symlink fails where something is.
Symlink ==
    /\ op.pc = "symlink"
    /\ IF link = None THEN Goto("markEmpty") /\ link' = Target[op.listing]
       ELSE Return("error") /\ UNCHANGED link
    /\ UNCHANGED <<current, disk, marker, faults, honest>>

\* mark_complete: fs::write empties the marker, then fills it.
MarkEmpty ==
    /\ op.pc = "markEmpty"
    /\ marker' = Torn
    /\ Goto("mark")
    /\ UNCHANGED <<current, disk, link, faults, honest>>

Mark ==
    /\ op.pc = "mark"
    /\ marker' = op.listing
    /\ Goto("finish")
    /\ UNCHANGED <<current, disk, link, faults, honest>>

\* finish: java_executable or discover_java_executable names bin/java; it must
\* be a file, which an empty one is too.
Finish ==
    /\ op.pc = "finish"
    /\ Return(IF disk[JavaFile] = Missing THEN "error" ELSE "ok")
    /\ UNCHANGED <<current, disk, link, marker, faults, honest>>

\* The listing cannot be fetched or has another digest; the disk fails.
Fail ==
    /\ op.pc \in {"listing", "unlink", "symlink", "markEmpty", "mark"}
    /\ Return("error")
    /\ Faulty
    /\ UNCHANGED <<current, disk, link, marker, honest>>

Crash ==
    /\ op.pc # "idle"
    /\ op' = Idle(op.listing)
    /\ Faulty
    /\ UNCHANGED <<current, disk, link, marker, honest>>

Step ==
    \/ GetListing \/ Collect \/ Unlink \/ Symlink \/ MarkEmpty \/ Mark \/ Finish
    \/ \E f \in File : Check(f) \/ Respond(f) \/ BodyEnds(f) \/ SetExecutable(f)

Next ==
    \/ Publish \/ Provision \/ Step \/ Fail \/ Crash
    \/ \E f \in File : Chunk(f) \/ Retry(f) \/ FileFails(f)

Spec == Init /\ [][Next]_vars

\* A provision goes on, the network delivers or fails, and whoever wants to play
\* asks again when installing failed.
Fairness == WF_vars(Provision) /\ WF_vars(Step) /\ \A f \in File : WF_vars(Chunk(f))

FairSpec == Spec /\ Fairness

------------------------------------------------------------------------------
(* Properties *)

\* Files, modes and the link are there as listing l has them.
Whole(l) ==
    /\ \A f \in Files(l) :
        /\ disk[f].len = Published[l][f].size
        /\ Published[l][f].executable => disk[f].executable
    /\ link = Target[l]

\* Nothing is looked at once the marker names the listing (is_complete), so while
\* it names the one that is published every file is there at its size, what must
\* be executable is, and the link is made, wherever earlier provisions failed.
MarkerSound == marker = current => Whole(current)

\* The file is published alike by every listing up to now.
Alike(f) == \A l \in 1..current : Published[l][f] = Published[current][f]

\* With servers that send what is published, files that no listing has changed
\* are the published ones: taking them by size after an interruption is right.
RuntimeGenuine ==
    honest /\ marker = current =>
        \A f \in Files(current) : Alike(f) => disk[f].body = Published[current][f].body

\* Whatever failures, crashes and older listings left behind, asking again after
\* they are over completes the runtime: nothing on disk stands in the way.
Recovers == honest => <>[](marker = current)
==============================================================================
