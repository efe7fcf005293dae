--------------------------------- MODULE Cas ---------------------------------
(***************************************************************************)
(* The content addressed store of acelus-cas, at the grain of the system   *)
(* calls it makes.  Workers are the daemon's threads (or a second daemon   *)
(* on the same directory): each runs one store operation at a time, and    *)
(* operations of different workers interleave between system calls.        *)
(*                                                                         *)
(* Files are inodes.  A path (an object, a destination inside an instance) *)
(* names an inode, hard links make two paths name the same one, and an     *)
(* inode that no path names and nobody holds open is blank.  The blake3    *)
(* digest is taken to be injective: the address of some bytes is the bytes *)
(* themselves.                                                             *)
(***************************************************************************)
EXTENDS Naturals, Sequences

CONSTANTS
    Worker,       \* threads that use the store
    Chunk,        \* the pieces a content is written in
    MaxLen,       \* bound: chunks in the longest content
    Inode,        \* bound: files that exist at one time
    SharedDest,   \* paths materialized with Materialize::Shared
    PrivateDest,  \* paths materialized with Materialize::Private
    NoInode,      \* what a path names when there is no file
    NoDest,       \* the destination of an operation that has none
    Reflinks,     \* the file system can clone a file
    Overlap,      \* two workers may materialize one path at the same time,
                  \* and a file may be edited while it is being placed
    EditShared,   \* programs also edit the files placed for sharing, when
                  \* the permissions let them
    Crashes       \* the daemon may die between two system calls

ASSUME CasAssumption ==
    /\ MaxLen \in Nat
    /\ NoInode \notin Inode
    /\ NoInode \notin UNION {[1..n -> Chunk] : n \in 0..MaxLen}
    /\ NoDest \notin SharedDest \cup PrivateDest
    /\ SharedDest \cap PrivateDest = {}
    /\ {Reflinks, Overlap, EditShared, Crashes} \subseteq BOOLEAN

Dest == SharedDest \cup PrivateDest

\* The contents a file can have: at most MaxLen chunks.
Bytes == UNION {[1..n -> Chunk] : n \in 0..MaxLen}

VARIABLES
    file,     \* bytes and permission ("ro": 0444, "rw": 0644) of each inode
    objects,  \* the inode at objects/<address>, or NoInode
    dests,    \* the inode at each destination path, or NoInode
    op        \* the operation each worker is in the middle of

vars == <<file, objects, dests, op>>

File == [bytes : Bytes, mode : {"ro", "rw"}]
Blank == [bytes |-> <<>>, mode |-> "rw"]

\* The stages of Writer::commit, Store::materialize and Store::gc: each is the
\* point before the next system call.
WriterPc == {"writing", "synced", "renaming"}
MatPc == {"unlink", "reflink", "relink", "link", "recopy", "copy", "copying", "chmod"}

Pc == {"idle", "sealing", "gc"} \cup WriterPc \cup MatPc

Op == [pc   : Pc,
       fd   : Inode \cup {NoInode},   \* the temporary file, or the copy being filled
       src  : Inode \cup {NoInode},   \* the object a copy reads from
       addr : Bytes,                  \* hashed so far, or the object to place
       dest : Dest \cup {NoDest},     \* where to place it
       live : SUBSET Bytes]           \* what gc must keep

Idle == [pc |-> "idle", fd |-> NoInode, src |-> NoInode, addr |-> <<>>,
         dest |-> NoDest, live |-> {}]

TypeOK ==
    /\ file \in [Inode -> File]
    /\ objects \in [Bytes -> Inode \cup {NoInode}]
    /\ dests \in [Dest -> Inode \cup {NoInode}]
    /\ op \in [Worker -> Op]

Init ==
    /\ file = [i \in Inode |-> Blank]
    /\ objects = [a \in Bytes |-> NoInode]
    /\ dests = [d \in Dest |-> NoInode]
    /\ op = [w \in Worker |-> Idle]

------------------------------------------------------------------------------
(* Files and paths *)

\* Inodes some path names or some worker holds.
InUse ==
    {objects[a] : a \in Bytes} \cup {dests[d] : d \in Dest}
      \cup {op[w].fd : w \in Worker} \cup {op[w].src : w \in Worker}

\* After a step the file system holds f, and forgets what nothing refers to.
FilesAre(f) == file' = [i \in Inode |-> IF i \in InUse' THEN f[i] ELSE Blank]

\* Creating a file takes an inode that is not in use.
Fresh(i) == i \in Inode /\ i \notin InUse

Contains(a) == objects[a] # NoInode

\* Another worker is in the middle of materializing d.
Busy(d) == \E w \in Worker : op[w].dest = d

Finish(w) == op' = [op EXCEPT ![w] = Idle]
Goto(w, pc) == op' = [op EXCEPT ![w].pc = pc]

------------------------------------------------------------------------------
(* Writer: stream into a private temporary file, then commit *)

WriterNew(w) ==
    /\ op[w].pc = "idle"
    /\ \E i \in Inode :
        /\ Fresh(i)
        /\ op' = [op EXCEPT ![w] = [Idle EXCEPT !.pc = "writing", !.fd = i]]
        /\ file' = [file EXCEPT ![i] = Blank]
    /\ UNCHANGED <<objects, dests>>

\* Faults: a short write is sent again whole; the hasher is fed what was offered
\* rather than what the file took.
WriterWriteTwice(w) ==
    /\ op[w].pc = "writing"
    /\ Len(op[w].addr) < MaxLen
    /\ \E c \in Chunk :
        /\ file' = [file EXCEPT ![op[w].fd].bytes = Append(Append(@, c), c)]
        /\ op' = [op EXCEPT ![w].addr = Append(@, c)]
    /\ UNCHANGED <<objects, dests>>

WriterWriteShort(w) ==
    /\ op[w].pc = "writing"
    /\ Len(op[w].addr) < MaxLen
    /\ \E c \in Chunk : op' = [op EXCEPT ![w].addr = Append(@, c)]
    /\ UNCHANGED <<file, objects, dests>>

\* One write call: the hasher is fed exactly what the file took.
WriterWrite(w) ==
    /\ op[w].pc = "writing"
    /\ Len(op[w].addr) < MaxLen
    /\ \E c \in Chunk :
        /\ file' = [file EXCEPT ![op[w].fd].bytes = Append(@, c)]
        /\ op' = [op EXCEPT ![w].addr = Append(@, c)]
    /\ UNCHANGED <<objects, dests>>

\* The writer is dropped: the stream failed, or was not what was expected.
\* (A commit that fails at flush, sync or rename leaves its temporary file
\* behind; nothing ever reads it again.)
WriterDrop(w) ==
    /\ op[w].pc \in WriterPc
    /\ Finish(w)
    /\ UNCHANGED <<objects, dests>>
    /\ FilesAre(file)

CommitSync(w) ==
    /\ op[w].pc = "writing"
    /\ Goto(w, "synced")
    /\ UNCHANGED <<file, objects, dests>>

\* The object is already there: drop the temporary file and use it.
CommitFound(w) ==
    /\ op[w].pc = "synced"
    /\ Contains(op[w].addr)
    /\ Finish(w)
    /\ UNCHANGED <<objects, dests>>
    /\ FilesAre(file)

CommitAbsent(w) ==
    /\ op[w].pc = "synced"
    /\ ~Contains(op[w].addr)
    /\ Goto(w, "renaming")
    /\ UNCHANGED <<file, objects, dests>>

\* The rename replaces whatever another worker put there since the check.
CommitRename(w) ==
    /\ op[w].pc = "renaming"
    /\ objects' = [objects EXCEPT ![op[w].addr] = op[w].fd]
    /\ op' = [op EXCEPT ![w] = [@ EXCEPT !.pc = "sealing", !.fd = NoInode]]
    /\ UNCHANGED dests
    /\ FilesAre(file)

\* set_permissions(&dest, Shared): by path, so on the inode now at the path.
CommitSeal(w) ==
    /\ op[w].pc = "sealing"
    /\ file' = IF Contains(op[w].addr)
               THEN [file EXCEPT ![objects[op[w].addr]].mode = "ro"]
               ELSE file
    /\ Finish(w)
    /\ UNCHANGED <<objects, dests>>

------------------------------------------------------------------------------
(* materialize: put an object at a path inside an instance *)

\* The object must be there; the path is then unlinked, whatever it held.
MatBegin(w) ==
    /\ op[w].pc = "idle"
    /\ \E a \in Bytes, d \in Dest :
        /\ Contains(a)
        /\ Overlap \/ ~Busy(d)
        /\ op' = [op EXCEPT ![w] =
                    [Idle EXCEPT !.pc = "unlink", !.addr = a, !.dest = d]]
    /\ UNCHANGED <<file, objects, dests>>

\* remove_if_present(dest), before each way of placing the file.
MatUnlink(w) ==
    /\ op[w].pc \in {"unlink", "relink", "recopy"}
    /\ dests' = [dests EXCEPT ![op[w].dest] = NoInode]
    /\ Goto(w, CASE op[w].pc = "unlink" -> "reflink"
                 [] op[w].pc = "relink" -> "link"
                 [] op[w].pc = "recopy" -> "copy")
    /\ UNCHANGED objects
    /\ FilesAre(file)

\* A clone is a file of its own with the object's bytes.
Reflink(w) ==
    /\ op[w].pc = "reflink"
    /\ Reflinks
    /\ Contains(op[w].addr)
    /\ dests[op[w].dest] = NoInode
    /\ \E i \in Inode :
        /\ Fresh(i)
        /\ dests' = [dests EXCEPT ![op[w].dest] = i]
        /\ file' = [file EXCEPT ![i] =
                        [bytes |-> file[objects[op[w].addr]].bytes, mode |-> "rw"]]
    /\ Goto(w, "chmod")
    /\ UNCHANGED objects

\* Fault: a private file is linked too when it cannot be cloned.
ReflinkFailsLinked(w) ==
    /\ op[w].pc = "reflink"
    /\ Goto(w, "relink")
    /\ UNCHANGED <<file, objects, dests>>

\* Cloning may fail for any reason of the file system; a private file must
\* then be copied, a shared one may be linked.
ReflinkFails(w) ==
    /\ op[w].pc = "reflink"
    /\ Goto(w, IF op[w].dest \in SharedDest THEN "relink" ELSE "recopy")
    /\ UNCHANGED <<file, objects, dests>>

HardLink(w) ==
    /\ op[w].pc = "link"
    /\ Contains(op[w].addr)
    /\ dests[op[w].dest] = NoInode
    /\ dests' = [dests EXCEPT ![op[w].dest] = objects[op[w].addr]]
    /\ Goto(w, "chmod")
    /\ UNCHANGED <<file, objects>>

\* The path is taken, the object is gone, or the file system cannot link.
HardLinkFails(w) ==
    /\ op[w].pc = "link"
    /\ Goto(w, "recopy")
    /\ UNCHANGED <<file, objects, dests>>

\* fs::copy opens both files and gives the copy the object's permissions.  It
\* truncates a file already at the path, unless that file is read only.
CopyOpen(w) ==
    /\ op[w].pc = "copy"
    /\ Contains(op[w].addr)
    /\ \E i \in Inode :
        /\ \/ dests[op[w].dest] = NoInode /\ Fresh(i)
           \/ dests[op[w].dest] = i /\ file[i].mode = "rw"
        /\ dests' = [dests EXCEPT ![op[w].dest] = i]
        /\ file' = [file EXCEPT ![i] =
                        [bytes |-> <<>>, mode |-> file[objects[op[w].addr]].mode]]
        /\ op' = [op EXCEPT ![w] = [@ EXCEPT !.pc = "copying", !.fd = i,
                                             !.src = objects[op[w].addr]]]
    /\ UNCHANGED objects

\* Fault: source and destination are swapped.
CopyDataSwapped(w) ==
    /\ op[w].pc = "copying"
    /\ op' = [op EXCEPT ![w] = [@ EXCEPT !.pc = "chmod", !.fd = NoInode, !.src = NoInode]]
    /\ UNCHANGED <<objects, dests>>
    /\ FilesAre([file EXCEPT ![op[w].src].bytes = file[op[w].fd].bytes])

\* The copy runs on open files: neither needs its path any more.
CopyData(w) ==
    /\ op[w].pc = "copying"
    /\ op' = [op EXCEPT ![w] = [@ EXCEPT !.pc = "chmod", !.fd = NoInode, !.src = NoInode]]
    /\ UNCHANGED <<objects, dests>>
    /\ FilesAre([file EXCEPT ![op[w].fd].bytes = file[op[w].src].bytes])

\* Fault: a copy cut short is taken for a whole one.
CopyFailsUnseen(w) ==
    /\ op[w].pc = "copying"
    /\ op' = [op EXCEPT ![w] = [@ EXCEPT !.pc = "chmod", !.fd = NoInode, !.src = NoInode]]
    /\ UNCHANGED <<objects, dests>>
    /\ \E n \in 0..Len(file[op[w].src].bytes) :
          FilesAre([file EXCEPT ![op[w].fd].bytes =
                        SubSeq(file[op[w].src].bytes, 1, n)])

\* The copy cannot be opened (the object is gone, the path holds a read-only
\* file) or the disk fills up: materialize fails and what was copied stays.
CopyFails(w) ==
    /\ op[w].pc \in {"copy", "copying"}
    /\ Finish(w)
    /\ UNCHANGED <<objects, dests>>
    /\ IF op[w].pc = "copy"
       THEN FilesAre(file)
       ELSE \E n \in 0..Len(file[op[w].src].bytes) :
                FilesAre([file EXCEPT ![op[w].fd].bytes =
                                SubSeq(file[op[w].src].bytes, 1, n)])

\* Fault: a shared file is left writable.
MatChmodWritable(w) ==
    /\ op[w].pc = "chmod"
    /\ file' = IF dests[op[w].dest] = NoInode THEN file
               ELSE [file EXCEPT ![dests[op[w].dest]].mode = "rw"]
    /\ Finish(w)
    /\ UNCHANGED <<objects, dests>>

\* set_permissions(dest, mode), by path; fails if the path is gone.
MatChmod(w) ==
    /\ op[w].pc = "chmod"
    /\ file' = IF dests[op[w].dest] = NoInode THEN file
               ELSE [file EXCEPT ![dests[op[w].dest]].mode =
                        IF op[w].dest \in SharedDest THEN "ro" ELSE "rw"]
    /\ Finish(w)
    /\ UNCHANGED <<objects, dests>>

------------------------------------------------------------------------------
(* gc, and what happens around the store *)

GcBegin(w) ==
    /\ op[w].pc = "idle"
    /\ \E live \in SUBSET Bytes :
        op' = [op EXCEPT ![w] = [Idle EXCEPT !.pc = "gc", !.live = live]]
    /\ UNCHANGED <<file, objects, dests>>

\* The directory walk removes one object after another.
GcRemove(w) ==
    /\ op[w].pc = "gc"
    /\ \E a \in Bytes \ op[w].live :
        /\ Contains(a)
        /\ objects' = [objects EXCEPT ![a] = NoInode]
    /\ UNCHANGED <<op, dests>>
    /\ FilesAre(file)

GcEnd(w) ==
    /\ op[w].pc = "gc"
    /\ Finish(w)
    /\ UNCHANGED <<file, objects, dests>>

\* The daemon dies: every operation stops where it is.
Crash ==
    /\ Crashes
    /\ op' = [w \in Worker |-> Idle]
    /\ UNCHANGED <<objects, dests>>
    /\ FilesAre(file)

\* The game, a mod or the user edits a file of an instance in place.
Edit(d) ==
    /\ dests[d] # NoInode
    /\ file[dests[d]].mode = "rw"
    /\ EditShared \/ d \in PrivateDest
    /\ Overlap \/ ~Busy(d)
    /\ \E b \in Bytes : file' = [file EXCEPT ![dests[d]].bytes = b]
    /\ UNCHANGED <<objects, dests, op>>

\* An instance is deleted, with the file at d.
Remove(d) ==
    /\ dests[d] # NoInode
    /\ Overlap \/ ~Busy(d)
    /\ dests' = [dests EXCEPT ![d] = NoInode]
    /\ UNCHANGED <<objects, op>>
    /\ FilesAre(file)

Next ==
    \/ \E w \in Worker :
        \/ WriterNew(w) \/ WriterWrite(w) \/ WriterDrop(w)
        \/ CommitSync(w) \/ CommitFound(w) \/ CommitAbsent(w)
        \/ CommitRename(w) \/ CommitSeal(w)
        \/ MatBegin(w) \/ MatUnlink(w) \/ Reflink(w) \/ ReflinkFails(w)
        \/ HardLink(w) \/ HardLinkFails(w)
        \/ CopyOpen(w) \/ CopyData(w) \/ CopyFails(w) \/ MatChmod(w)
        \/ GcBegin(w) \/ GcRemove(w) \/ GcEnd(w)
    \/ Crash
    \/ \E d \in Dest : Edit(d) \/ Remove(d)

Spec == Init /\ [][Next]_vars

------------------------------------------------------------------------------
(* Properties *)

\* An object holds the bytes its address names: no crash, race, garbage
\* collection, edit of an instance or half-written file ever shows through an
\* address (Writer::commit, Store::materialize).
ObjectsIntact ==
    \A a \in Bytes : Contains(a) => file[objects[a]].bytes = a

\* A file placed with Materialize::Private is at no other path: editing it can
\* change neither the store nor another instance (Store::place never links it).
PrivateApart ==
    \A d \in PrivateDest : dests[d] # NoInode =>
        /\ \A a \in Bytes : objects[a] # dests[d]
        /\ \A e \in Dest \ {d} : dests[e] # dests[d]

\* An object that nobody is about to seal is read only (the permissions are
\* all that protects it from a program that opens a link to it for writing).
ObjectsSealed ==
    \A a \in Bytes : Contains(a) =>
        \/ file[objects[a]].mode = "ro"
        \/ \E w \in Worker : op[w].pc = "sealing" /\ op[w].addr = a

\* A file in a shared place keeps its bytes for as long as it is there, except
\* while it is itself being placed: nothing done to the store, or to another
\* instance linked to the same object, reaches it.
InstancesIsolated ==
    [][\A d \in SharedDest :
         (dests[d] # NoInode /\ dests'[d] = dests[d] /\ ~Busy(d)) =>
            file'[dests[d]].bytes = file[dests[d]].bytes]_vars

\* When materialize returns success the path holds the whole object, with the
\* permissions of its mode (Store::materialize).
MaterializeDelivers ==
    [][\A w \in Worker :
         (op[w].pc = "chmod" /\ MatChmod(w)) =>
            LET d == op[w].dest IN
            /\ dests'[d] # NoInode
            /\ file'[dests'[d]] =
                 [bytes |-> op[w].addr, mode |-> IF d \in SharedDest THEN "ro" ELSE "rw"]]_vars

\* The store as its callers see it: whole contents that come and go.
Stored == [a \in Bytes |-> IF Contains(a) THEN file[objects[a]].bytes ELSE NoInode]
Blob == INSTANCE BlobStore WITH Address <- Bytes, Absent <- NoInode, blob <- Stored

\* The file-level store implements BlobStore.
ImplementsBlobStore == Blob!Spec
==============================================================================
