------------------------------ MODULE CasProofs ------------------------------
(***************************************************************************)
(* What holds of the content addressed store for any number of workers,    *)
(* paths, files and contents: first however it is used, then when it is    *)
(* used the way the daemon means to.                                       *)
(***************************************************************************)
EXTENDS Cas, SequenceTheorems, TLAPS

\* Contents are the sequences of chunks no longer than MaxLen.
LEMMA BytesAreSequences ==
    ASSUME CasAssumption
    PROVE  /\ <<>> \in Bytes
           /\ \A s \in Bytes : s \in Seq(Chunk) /\ Len(s) \in 0..MaxLen
           /\ \A s \in Seq(Chunk) : Len(s) <= MaxLen => s \in Bytes
<1>0. MaxLen \in Nat
  BY DEF CasAssumption
<1>1. \A s \in Bytes : s \in Seq(Chunk) /\ Len(s) \in 0..MaxLen
  <2> TAKE s \in Bytes
  <2>1. PICK n \in 0..MaxLen : s \in [1..n -> Chunk]
    BY DEF Bytes
  <2>2. s \in Seq(Chunk) /\ n \in Nat
    BY <1>0, <2>1, SeqDef
  <2>3. Len(s) = n
    BY <2>1, <2>2, LenProperties
  <2> QED BY <2>2, <2>3
<1>2. \A s \in Seq(Chunk) : Len(s) <= MaxLen => s \in Bytes
  <2> SUFFICES ASSUME NEW s \in Seq(Chunk), Len(s) <= MaxLen
               PROVE  s \in Bytes
    OBVIOUS
  <2>1. s \in [1..Len(s) -> Chunk] /\ Len(s) \in 0..MaxLen
    BY <1>0, LenProperties
  <2> QED BY <2>1 DEF Bytes
<1>3. <<>> \in Bytes
  <2>1. <<>> \in Seq(Chunk)
    BY EmptySeq
  <2>2. Len(<<>>) <= MaxLen
    BY <1>0, EmptySeq
  <2> QED BY <1>2, <2>1, <2>2
<1> QED BY <1>1, <1>2, <1>3

\* Appending a chunk below the bound, and cutting a content short, give contents.
LEMMA BytesClosed ==
    ASSUME CasAssumption, NEW s \in Bytes
    PROVE  /\ \A c \in Chunk : Len(s) < MaxLen => Append(s, c) \in Bytes
           /\ \A n \in 0..Len(s) : SubSeq(s, 1, n) \in Bytes
<1>0. MaxLen \in Nat
  BY DEF CasAssumption
<1>1. s \in Seq(Chunk) /\ Len(s) \in 0..MaxLen
  BY BytesAreSequences
<1>2. ASSUME NEW c \in Chunk, Len(s) < MaxLen
      PROVE  Append(s, c) \in Bytes
  <2>1. Append(s, c) \in Seq(Chunk) /\ Len(Append(s, c)) = Len(s) + 1
    BY <1>1
  <2>2. Len(Append(s, c)) <= MaxLen
    BY <1>0, <1>1, <1>2, <2>1
  <2> QED BY <2>1, <2>2, BytesAreSequences
<1>3. ASSUME NEW n \in 0..Len(s)
      PROVE  SubSeq(s, 1, n) \in Bytes
  <2>1. /\ SubSeq(s, 1, n) \in Seq(Chunk)
        /\ Len(SubSeq(s, 1, n)) = IF 1 <= n THEN n - 1 + 1 ELSE 0
    <3>1. \A i \in 1..n : s[i] \in Chunk
      BY <1>1, ElementOfSeq
    <3> QED BY <1>1, <3>1, SubSeqProperties
  <2>2. Len(SubSeq(s, 1, n)) <= MaxLen
    BY <1>0, <1>1, <2>1
  <2> QED BY <2>1, <2>2, BytesAreSequences
<1> QED BY <1>2, <1>3

------------------------------------------------------------------------------
(* Inodes *)

\* What a step leaves of the files: all that a path or a worker still refers to.
LEMMA FilesKept ==
    ASSUME CasAssumption, NEW f \in [Inode -> File], FilesAre(f)
    PROVE  /\ file' \in [Inode -> File]
           /\ \A a \in Bytes : objects'[a] \in Inode => file'[objects'[a]] = f[objects'[a]]
           /\ \A d \in Dest : dests'[d] \in Inode => file'[dests'[d]] = f[dests'[d]]
           /\ \A w \in Worker :
                /\ op'[w].fd \in Inode => file'[op'[w].fd] = f[op'[w].fd]
                /\ op'[w].src \in Inode => file'[op'[w].src] = f[op'[w].src]
<1>1. file' \in [Inode -> File]
  BY BytesAreSequences DEF FilesAre, File, Blank
<1>2. \A i \in Inode : i \in InUse' => file'[i] = f[i]
  BY DEF FilesAre
<1> QED BY <1>1, <1>2 DEF InUse

\* A file about to be created is at no path and in nobody's hands.
LEMMA FreshApart ==
    ASSUME NEW i, Fresh(i)
    PROVE  /\ i \in Inode
           /\ \A a \in Bytes : objects[a] # i
           /\ \A d \in Dest : dests[d] # i
           /\ \A w \in Worker : op[w].fd # i /\ op[w].src # i
BY DEF Fresh, InUse

------------------------------------------------------------------------------
(* The invariant that holds however the store is used *)

\* Each stage holds the files and the destination it is using, and no other.
Stages ==
    \A w \in Worker :
        /\ op[w].pc \in WriterPc => op[w].fd \in Inode
        /\ op[w].pc = "copying" => op[w].fd \in Inode /\ op[w].src \in Inode
        /\ op[w].pc \notin WriterPc \cup {"copying"} => op[w].fd = NoInode
        /\ op[w].pc # "copying" => op[w].src = NoInode
        /\ op[w].pc \in MatPc <=> op[w].dest \in Dest
        /\ op[w].pc \in {"relink", "link"} => op[w].dest \in SharedDest

\* A temporary file holds what was hashed, and is nobody else's.
TempsApart ==
    \A w \in Worker : op[w].pc \in WriterPc =>
        /\ file[op[w].fd].bytes = op[w].addr
        /\ \A a \in Bytes : objects[a] # op[w].fd
        /\ \A d \in Dest : dests[d] # op[w].fd
        /\ \A v \in Worker : op[v].src # op[w].fd /\ (v # w => op[v].fd # op[w].fd)

AnyUse == TypeOK /\ Stages /\ TempsApart /\ PrivateApart

LEMMA AnyUseInit == ASSUME CasAssumption, Init PROVE AnyUse
BY BytesAreSequences DEF Init, AnyUse, TypeOK, Stages, TempsApart, PrivateApart, Idle, Blank,
                         File, Op, Pc, WriterPc, MatPc, Dest

\* The facts about types that the steps below need.
TypeFacts ==
    /\ <<>> \in Bytes /\ Idle \in Op /\ Blank \in File
    /\ \A i \in Inode : file[i] \in File /\ file[i].bytes \in Bytes
    /\ \A i \in Inode, b \in Bytes, m \in {"ro", "rw"} :
        /\ [file EXCEPT ![i].bytes = b] \in [Inode -> File]
        /\ [file EXCEPT ![i].mode = m] \in [Inode -> File]
        /\ [file EXCEPT ![i] = [bytes |-> b, mode |-> m]] \in [Inode -> File]
    /\ \A w \in Worker : op[w] \in Op /\ op[w].addr \in Bytes
    /\ NoInode \notin Inode /\ NoDest \notin Dest /\ NoInode \notin Bytes

LEMMA Typed == ASSUME CasAssumption, TypeOK PROVE TypeFacts
<1>1. <<>> \in Bytes
  BY BytesAreSequences
<1>2. Idle \in Op /\ Blank \in File
  BY <1>1 DEF Idle, Blank, File, Op, Pc
<1>3. \A i \in Inode : file[i] \in File /\ file[i].bytes \in Bytes
  BY DEF TypeOK, File
<1>4. \A i \in Inode, b \in Bytes, m \in {"ro", "rw"} :
         /\ [file EXCEPT ![i].bytes = b] \in [Inode -> File]
         /\ [file EXCEPT ![i].mode = m] \in [Inode -> File]
         /\ [file EXCEPT ![i] = [bytes |-> b, mode |-> m]] \in [Inode -> File]
  BY DEF TypeOK, File
<1>5. \A w \in Worker : op[w] \in Op /\ op[w].addr \in Bytes
  BY DEF TypeOK, Op
<1>6. NoInode \notin Inode /\ NoDest \notin Dest
  BY DEF CasAssumption, Dest
<1>7. NoInode \notin Bytes
  BY DEF CasAssumption, Bytes
<1> QED BY <1>1, <1>2, <1>3, <1>4, <1>5, <1>6, <1>7 DEF TypeFacts

\* Moving a worker on to another stage keeps the operations well typed.
LEMMA GotoTyped ==
    ASSUME NEW w \in Worker, NEW pc \in Pc, op \in [Worker -> Op], Goto(w, pc)
    PROVE  op' \in [Worker -> Op]
BY DEF Goto, Op

\* Every step leaves each worker with what its stage needs.
LEMMA StagesStep ==
    ASSUME CasAssumption, AnyUse, [Next]_vars
    PROVE  Stages'
<1> USE DEF Stages, TypeOK, WriterPc, MatPc
<1>0. /\ TypeOK /\ Stages /\ NoDest \notin Dest
      /\ \A w \in Worker : op[w].addr \in Bytes
  BY Typed DEF AnyUse, TypeFacts
<1>1. ASSUME NEW w \in Worker, WriterNew(w) PROVE Stages'
  BY <1>0, <1>1 DEF WriterNew, Idle
<1>2. ASSUME NEW w \in Worker, WriterWrite(w) PROVE Stages'
  BY <1>0, <1>2 DEF WriterWrite
<1>3. ASSUME NEW w \in Worker, WriterDrop(w) PROVE Stages'
  BY <1>0, <1>3 DEF WriterDrop, Finish, Idle
<1>4. ASSUME NEW w \in Worker, CommitSync(w) PROVE Stages'
  BY <1>0, <1>4 DEF CommitSync, Goto
<1>5. ASSUME NEW w \in Worker, CommitFound(w) PROVE Stages'
  BY <1>0, <1>5 DEF CommitFound, Finish, Idle
<1>6. ASSUME NEW w \in Worker, CommitAbsent(w) PROVE Stages'
  BY <1>0, <1>6 DEF CommitAbsent, Goto
<1>7. ASSUME NEW w \in Worker, CommitRename(w) PROVE Stages'
  BY <1>0, <1>7 DEF CommitRename
<1>8. ASSUME NEW w \in Worker, CommitSeal(w) PROVE Stages'
  BY <1>0, <1>8 DEF CommitSeal, Finish, Idle
<1>9. ASSUME NEW w \in Worker, MatBegin(w) PROVE Stages'
  BY <1>0, <1>9 DEF MatBegin, Idle
<1>10. ASSUME NEW w \in Worker, MatUnlink(w) PROVE Stages'
  BY <1>0, <1>10 DEF MatUnlink, Goto
<1>11. ASSUME NEW w \in Worker, Reflink(w) PROVE Stages'
  BY <1>0, <1>11 DEF Reflink, Goto
<1>12. ASSUME NEW w \in Worker, ReflinkFails(w) PROVE Stages'
  BY <1>0, <1>12 DEF ReflinkFails, Goto
<1>13. ASSUME NEW w \in Worker, HardLink(w) PROVE Stages'
  BY <1>0, <1>13 DEF HardLink, Goto
<1>14. ASSUME NEW w \in Worker, HardLinkFails(w) PROVE Stages'
  BY <1>0, <1>14 DEF HardLinkFails, Goto
<1>15. ASSUME NEW w \in Worker, CopyOpen(w) PROVE Stages'
  BY <1>0, <1>15 DEF CopyOpen, Contains
<1>16. ASSUME NEW w \in Worker, CopyData(w) PROVE Stages'
  BY <1>0, <1>16 DEF CopyData
<1>17. ASSUME NEW w \in Worker, CopyFails(w) PROVE Stages'
  BY <1>0, <1>17 DEF CopyFails, Finish, Idle
<1>18. ASSUME NEW w \in Worker, MatChmod(w) PROVE Stages'
  BY <1>0, <1>18 DEF MatChmod, Finish, Idle
<1>19. ASSUME NEW w \in Worker, GcBegin(w) PROVE Stages'
  BY <1>0, <1>19 DEF GcBegin, Idle
<1>20. ASSUME NEW w \in Worker, GcRemove(w) PROVE Stages'
  BY <1>0, <1>20 DEF GcRemove
<1>21. ASSUME NEW w \in Worker, GcEnd(w) PROVE Stages'
  BY <1>0, <1>21 DEF GcEnd, Finish, Idle
<1>22. CASE Crash
  BY <1>0, <1>22 DEF Crash, Idle
<1>23. ASSUME NEW d \in Dest, Edit(d) PROVE Stages'
  BY <1>0, <1>23 DEF Edit
<1>24. ASSUME NEW d \in Dest, Remove(d) PROVE Stages'
  BY <1>0, <1>24 DEF Remove
<1>25. CASE UNCHANGED vars
  BY <1>25, <1>0 DEF vars
<1> QED
  BY <1>1, <1>2, <1>3, <1>4, <1>5, <1>6, <1>7, <1>8, <1>9, <1>10, <1>11, <1>12,
     <1>13, <1>14, <1>15, <1>16, <1>17, <1>18, <1>19, <1>20, <1>21, <1>22, <1>23,
     <1>24, <1>25 DEF Next

\* Every step keeps the types.  WriterWrite needs that the temporary file is as
\* long as what was hashed.
LEMMA TypeStep ==
    ASSUME CasAssumption, AnyUse, [Next]_vars
    PROVE  TypeOK'
<1> USE DEF TypeOK
<1>0. TypeOK /\ Stages /\ TempsApart /\ TypeFacts
  BY Typed DEF AnyUse
<1>1. ASSUME NEW w \in Worker, WriterNew(w) PROVE TypeOK'
  <2>1. PICK i \in Inode :
           /\ op' = [op EXCEPT ![w] = [Idle EXCEPT !.pc = "writing", !.fd = i]]
           /\ file' = [file EXCEPT ![i] = Blank]
    BY <1>0, <1>1 DEF WriterNew
  <2>2. [Idle EXCEPT !.pc = "writing", !.fd = i] \in Op
    BY <1>0 DEF Op, Pc, WriterPc, TypeFacts
  <2> QED BY <1>0, <1>1, <2>1, <2>2 DEF WriterNew, TypeFacts
<1>2. ASSUME NEW w \in Worker, WriterWrite(w) PROVE TypeOK'
  <2>1. PICK c \in Chunk :
           /\ file' = [file EXCEPT ![op[w].fd].bytes = Append(@, c)]
           /\ op' = [op EXCEPT ![w].addr = Append(@, c)]
    BY <1>0, <1>2 DEF WriterWrite
  <2>2. op[w].fd \in Inode /\ file[op[w].fd].bytes = op[w].addr
    BY <1>0, <1>2 DEF WriterWrite, Stages, TempsApart, WriterPc
  <2>3. Append(op[w].addr, c) \in Bytes
    BY <1>0, <1>2, BytesClosed DEF WriterWrite, TypeFacts
  <2> DEFINE o == [op[w] EXCEPT !.addr = Append(op[w].addr, c)]
             fl == [file[op[w].fd] EXCEPT !.bytes = Append(op[w].addr, c)]
  <2>4. o \in Op
    <3>1. op[w] \in Op
      BY <1>0
    <3> QED BY <3>1, <2>3 DEF Op
  <2>5. fl \in File
    <3>1. file[op[w].fd] \in File
      BY <1>0, <2>2
    <3> QED BY <3>1, <2>3 DEF File
  <2>6. op' = [op EXCEPT ![w] = o] /\ file' = [file EXCEPT ![op[w].fd] = fl]
    BY <1>0, <2>1, <2>2
  <2> HIDE DEF o, fl
  <2>7. op' \in [Worker -> Op] /\ file' \in [Inode -> File]
    BY <1>0, <2>2, <2>4, <2>5, <2>6
  <2> QED BY <1>0, <1>2, <2>7 DEF WriterWrite
<1>3. ASSUME NEW w \in Worker, WriterDrop(w) PROVE TypeOK'
  BY <1>0, <1>3, FilesKept DEF WriterDrop, Finish, TypeFacts
<1>4. ASSUME NEW w \in Worker, CommitSync(w) PROVE TypeOK'
  BY <1>0, <1>4, GotoTyped DEF CommitSync, Pc, WriterPc, MatPc
<1>5. ASSUME NEW w \in Worker, CommitFound(w) PROVE TypeOK'
  BY <1>0, <1>5, FilesKept DEF CommitFound, Finish, TypeFacts
<1>6. ASSUME NEW w \in Worker, CommitAbsent(w) PROVE TypeOK'
  BY <1>0, <1>6, GotoTyped DEF CommitAbsent, Pc, WriterPc, MatPc
<1>7. ASSUME NEW w \in Worker, CommitRename(w) PROVE TypeOK'
  <2> DEFINE o == [op[w] EXCEPT !.pc = "sealing", !.fd = NoInode]
  <2>3. o \in Op
    <3>1. op[w] \in Op
      BY <1>0
    <3> QED BY <3>1 DEF Op, Pc
  <2>4. op' = [op EXCEPT ![w] = o]
    BY <1>7 DEF CommitRename
  <2> HIDE DEF o
  <2>1. op' \in [Worker -> Op]
    BY <1>0, <2>3, <2>4
  <2>2. objects' \in [Bytes -> Inode \cup {NoInode}]
    BY <1>0, <1>7 DEF CommitRename, Stages, WriterPc
  <2> QED BY <1>0, <1>7, <2>1, <2>2, FilesKept DEF CommitRename
<1>8. ASSUME NEW w \in Worker, CommitSeal(w) PROVE TypeOK'
  BY <1>0, <1>8 DEF CommitSeal, Contains, Finish, TypeFacts
<1>9. ASSUME NEW w \in Worker, MatBegin(w) PROVE TypeOK'
  <2>1. PICK a \in Bytes, d \in Dest :
           op' = [op EXCEPT ![w] = [Idle EXCEPT !.pc = "unlink", !.addr = a, !.dest = d]]
    BY <1>0, <1>9 DEF MatBegin
  <2>2. [Idle EXCEPT !.pc = "unlink", !.addr = a, !.dest = d] \in Op
    BY <1>0 DEF Op, Pc, MatPc, TypeFacts
  <2> QED BY <1>0, <1>9, <2>1, <2>2 DEF MatBegin
<1>10. ASSUME NEW w \in Worker, MatUnlink(w) PROVE TypeOK'
  <2>1. op' \in [Worker -> Op]
    BY <1>0, <1>10, GotoTyped DEF MatUnlink, Pc, MatPc
  <2> QED BY <1>0, <1>10, <2>1, FilesKept DEF MatUnlink
<1>11. ASSUME NEW w \in Worker, Reflink(w) PROVE TypeOK'
  <2>1. op' \in [Worker -> Op]
    BY <1>0, <1>11, GotoTyped DEF Reflink, Pc, MatPc
  <2>2. PICK i \in Inode :
           /\ dests' = [dests EXCEPT ![op[w].dest] = i]
           /\ file' = [file EXCEPT ![i] =
                          [bytes |-> file[objects[op[w].addr]].bytes, mode |-> "rw"]]
    BY <1>11 DEF Reflink
  <2>3. file[objects[op[w].addr]].bytes \in Bytes
    BY <1>0, <1>11 DEF Reflink, Contains, TypeFacts
  <2> QED BY <1>0, <1>11, <2>1, <2>2, <2>3 DEF Reflink, TypeFacts
<1>12. ASSUME NEW w \in Worker, ReflinkFails(w) PROVE TypeOK'
  BY <1>0, <1>12, GotoTyped DEF ReflinkFails, Pc, WriterPc, MatPc
<1>13. ASSUME NEW w \in Worker, HardLink(w) PROVE TypeOK'
  <2>1. op' \in [Worker -> Op]
    BY <1>0, <1>13, GotoTyped DEF HardLink, Pc, MatPc
  <2> QED BY <1>0, <1>13, <2>1 DEF HardLink, TypeFacts
<1>14. ASSUME NEW w \in Worker, HardLinkFails(w) PROVE TypeOK'
  BY <1>0, <1>14, GotoTyped DEF HardLinkFails, Pc, WriterPc, MatPc
<1>15. ASSUME NEW w \in Worker, CopyOpen(w) PROVE TypeOK'
  <2>1. PICK i \in Inode :
           /\ dests' = [dests EXCEPT ![op[w].dest] = i]
           /\ file' = [file EXCEPT ![i] =
                          [bytes |-> <<>>, mode |-> file[objects[op[w].addr]].mode]]
           /\ op' = [op EXCEPT ![w] = [@ EXCEPT !.pc = "copying", !.fd = i,
                                                !.src = objects[op[w].addr]]]
    BY <1>0, <1>15 DEF CopyOpen
  <2>2. objects[op[w].addr] \in Inode
    BY <1>0, <1>15 DEF CopyOpen, Contains, TypeFacts
  <2>3. file[objects[op[w].addr]].mode \in {"ro", "rw"}
    BY <1>0, <2>2 DEF File
  <2>4. file' \in [Inode -> File]
    BY <1>0, <2>1, <2>3 DEF TypeFacts
  <2>5. [op[w] EXCEPT !.pc = "copying", !.fd = i, !.src = objects[op[w].addr]] \in Op
    BY <1>0, <2>2 DEF Op, Pc, MatPc, TypeFacts
  <2> QED BY <1>0, <1>15, <2>1, <2>4, <2>5 DEF CopyOpen
<1>16. ASSUME NEW w \in Worker, CopyData(w) PROVE TypeOK'
  <2>1. [file EXCEPT ![op[w].fd].bytes = file[op[w].src].bytes] \in [Inode -> File]
    BY <1>0, <1>16 DEF CopyData, Stages, TypeFacts
  <2>2. [op[w] EXCEPT !.pc = "chmod", !.fd = NoInode, !.src = NoInode] \in Op
    BY <1>0 DEF Op, Pc, MatPc, TypeFacts
  <2>3. op' \in [Worker -> Op]
    BY <1>0, <1>16, <2>2 DEF CopyData
  <2> QED BY <1>0, <1>16, <2>1, <2>3, FilesKept DEF CopyData
<1>17. ASSUME NEW w \in Worker, CopyFails(w) PROVE TypeOK'
  <2>1. CASE op[w].pc = "copying"
    <3>1. PICK n \in 0..Len(file[op[w].src].bytes) :
             FilesAre([file EXCEPT ![op[w].fd].bytes = SubSeq(file[op[w].src].bytes, 1, n)])
      BY <1>0, <1>17, <2>1 DEF CopyFails
    <3>2. op[w].fd \in Inode /\ file[op[w].src].bytes \in Bytes
      BY <1>0, <2>1 DEF Stages, TypeFacts
    <3>3. SubSeq(file[op[w].src].bytes, 1, n) \in Bytes
      BY <3>2, BytesClosed
    <3>4. [file EXCEPT ![op[w].fd].bytes = SubSeq(file[op[w].src].bytes, 1, n)]
            \in [Inode -> File]
      BY <1>0, <3>2, <3>3 DEF TypeFacts
    <3> QED BY <1>0, <1>17, <3>1, <3>4, FilesKept DEF CopyFails, Finish, TypeFacts
  <2>2. CASE op[w].pc = "copy"
    BY <1>0, <1>17, <2>2, FilesKept DEF CopyFails, Finish, TypeFacts
  <2> QED BY <1>0, <1>17, <2>1, <2>2 DEF CopyFails
<1>18. ASSUME NEW w \in Worker, MatChmod(w) PROVE TypeOK'
  BY <1>0, <1>18 DEF MatChmod, Finish, TypeFacts
<1>19. ASSUME NEW w \in Worker, GcBegin(w) PROVE TypeOK'
  <2>1. PICK live \in SUBSET Bytes :
           op' = [op EXCEPT ![w] = [Idle EXCEPT !.pc = "gc", !.live = live]]
    BY <1>0, <1>19 DEF GcBegin
  <2>2. [Idle EXCEPT !.pc = "gc", !.live = live] \in Op
    BY <1>0 DEF Op, Pc, TypeFacts
  <2> QED BY <1>0, <1>19, <2>1, <2>2 DEF GcBegin
<1>20. ASSUME NEW w \in Worker, GcRemove(w) PROVE TypeOK'
  BY <1>0, <1>20, FilesKept DEF GcRemove
<1>21. ASSUME NEW w \in Worker, GcEnd(w) PROVE TypeOK'
  BY <1>0, <1>21 DEF GcEnd, Finish, TypeFacts
<1>22. CASE Crash
  BY <1>0, <1>22, FilesKept DEF Crash, TypeFacts
<1>23. ASSUME NEW d \in Dest, Edit(d) PROVE TypeOK'
  <2>1. PICK b \in Bytes : file' = [file EXCEPT ![dests[d]].bytes = b]
    BY <1>23 DEF Edit
  <2> QED BY <1>0, <1>23, <2>1 DEF Edit, TypeFacts
<1>24. ASSUME NEW d \in Dest, Remove(d) PROVE TypeOK'
  BY <1>0, <1>24, FilesKept DEF Remove
<1>25. CASE UNCHANGED vars
  BY <1>25, <1>0 DEF vars
<1> QED
  BY <1>1, <1>2, <1>3, <1>4, <1>5, <1>6, <1>7, <1>8, <1>9, <1>10, <1>11, <1>12,
     <1>13, <1>14, <1>15, <1>16, <1>17, <1>18, <1>19, <1>20, <1>21, <1>22, <1>23,
     <1>24, <1>25 DEF Next

\* What copying the data, in whole or in part, does to the files: it writes the
\* file the worker has open, and no other.
LEMMA CopyTouches ==
    ASSUME CasAssumption, AnyUse, NEW w \in Worker, op[w].pc = "copying",
           CopyData(w) \/ CopyFails(w)
    PROVE  /\ op[w].fd \in Inode /\ op[w].src \in Inode
           /\ \E f \in [Inode -> File] :
                 FilesAre(f) /\ \A i \in Inode : i # op[w].fd => f[i] = file[i]
           /\ UNCHANGED <<objects, dests>>
           /\ \A v \in Worker : v # w => op'[v] = op[v]
           /\ op'[w].pc \in {"chmod", "idle"} /\ op'[w].fd = NoInode /\ op'[w].src = NoInode
<1>0. TypeOK /\ TypeFacts /\ op \in [Worker -> Op] /\ file \in [Inode -> File]
  BY Typed DEF AnyUse, TypeOK
<1>1. op[w].fd \in Inode /\ op[w].src \in Inode /\ file[op[w].src].bytes \in Bytes
  BY <1>0 DEF AnyUse, Stages, TypeFacts
<1>2. CASE CopyData(w)
  <2>1. [file EXCEPT ![op[w].fd].bytes = file[op[w].src].bytes] \in [Inode -> File]
    BY <1>0, <1>1 DEF TypeFacts
  <2>2. /\ FilesAre([file EXCEPT ![op[w].fd].bytes = file[op[w].src].bytes])
        /\ UNCHANGED <<objects, dests>>
    BY <1>2 DEF CopyData
  <2>3. /\ \A v \in Worker : v # w => op'[v] = op[v]
        /\ op'[w].pc = "chmod" /\ op'[w].fd = NoInode /\ op'[w].src = NoInode
    BY <1>0, <1>2 DEF CopyData, Op
  <2> QED BY <1>0, <1>1, <2>1, <2>2, <2>3
<1>3. CASE CopyFails(w)
  <2>1. PICK n \in 0..Len(file[op[w].src].bytes) :
           FilesAre([file EXCEPT ![op[w].fd].bytes = SubSeq(file[op[w].src].bytes, 1, n)])
    BY <1>3 DEF CopyFails
  <2>2. SubSeq(file[op[w].src].bytes, 1, n) \in Bytes
    BY <1>1, BytesClosed
  <2>3. [file EXCEPT ![op[w].fd].bytes = SubSeq(file[op[w].src].bytes, 1, n)]
          \in [Inode -> File]
    BY <1>0, <1>1, <2>2 DEF TypeFacts
  <2>4. /\ \A v \in Worker : v # w => op'[v] = op[v]
        /\ op'[w].pc = "idle" /\ op'[w].fd = NoInode /\ op'[w].src = NoInode
        /\ UNCHANGED <<objects, dests>>
    BY <1>0, <1>3 DEF CopyFails, Finish, Idle
  <2> QED BY <1>0, <1>1, <2>1, <2>3, <2>4
<1> QED BY <1>1, <1>2, <1>3

\* Every step keeps the temporary files of the writers to themselves.
LEMMA TempsStep ==
    ASSUME CasAssumption, AnyUse, [Next]_vars
    PROVE  TempsApart'
<1> USE DEF TempsApart, WriterPc
<1>0. /\ TypeOK /\ Stages /\ TempsApart /\ TypeFacts
      /\ op \in [Worker -> Op] /\ file \in [Inode -> File]
      /\ objects \in [Bytes -> Inode \cup {NoInode}]
      /\ dests \in [Dest -> Inode \cup {NoInode}]
      /\ \A w \in Worker : op[w].addr \in Bytes
      /\ \A w \in Worker : op[w].pc \in WriterPc => op[w].fd \in Inode
      /\ NoInode \notin Inode
  BY Typed DEF AnyUse, TypeOK, Stages, TypeFacts
<1>1. ASSUME NEW w \in Worker, WriterNew(w) PROVE TempsApart'
  BY <1>0, <1>1, FreshApart DEF WriterNew, Idle, Blank
<1>2. ASSUME NEW w \in Worker, WriterWrite(w) PROVE TempsApart'
  BY <1>0, <1>2 DEF WriterWrite
<1>3. ASSUME NEW w \in Worker, WriterDrop(w) PROVE TempsApart'
  BY <1>0, <1>3, FilesKept DEF WriterDrop, Finish, Idle
<1>4. ASSUME NEW w \in Worker, CommitSync(w) PROVE TempsApart'
  BY <1>0, <1>4 DEF CommitSync, Goto
<1>5. ASSUME NEW w \in Worker, CommitFound(w) PROVE TempsApart'
  BY <1>0, <1>5, FilesKept DEF CommitFound, Finish, Idle
<1>6. ASSUME NEW w \in Worker, CommitAbsent(w) PROVE TempsApart'
  BY <1>0, <1>6 DEF CommitAbsent, Goto
<1>7. ASSUME NEW w \in Worker, CommitRename(w) PROVE TempsApart'
  BY <1>0, <1>7, FilesKept DEF CommitRename
<1>8. ASSUME NEW w \in Worker, CommitSeal(w) PROVE TempsApart'
  BY <1>0, <1>8 DEF CommitSeal, Finish, Idle, Contains
<1>9. ASSUME NEW w \in Worker, MatBegin(w) PROVE TempsApart'
  BY <1>0, <1>9 DEF MatBegin, Idle
<1>10. ASSUME NEW w \in Worker, MatUnlink(w) PROVE TempsApart'
  BY <1>0, <1>10, FilesKept DEF MatUnlink, Goto
<1>11. ASSUME NEW w \in Worker, Reflink(w) PROVE TempsApart'
  BY <1>0, <1>11, FreshApart DEF Reflink, Goto, Contains
<1>12. ASSUME NEW w \in Worker, ReflinkFails(w) PROVE TempsApart'
  BY <1>0, <1>12 DEF ReflinkFails, Goto
<1>13. ASSUME NEW w \in Worker, HardLink(w) PROVE TempsApart'
  BY <1>0, <1>13 DEF HardLink, Goto, Contains
<1>14. ASSUME NEW w \in Worker, HardLinkFails(w) PROVE TempsApart'
  BY <1>0, <1>14 DEF HardLinkFails, Goto
<1>15. ASSUME NEW w \in Worker, CopyOpen(w) PROVE TempsApart'
  <2>1. PICK i \in Inode :
           /\ \/ dests[op[w].dest] = NoInode /\ Fresh(i)
              \/ dests[op[w].dest] = i
           /\ file' = [file EXCEPT ![i] =
                          [bytes |-> <<>>, mode |-> file[objects[op[w].addr]].mode]]
           /\ dests' = [dests EXCEPT ![op[w].dest] = i]
           /\ op' = [op EXCEPT ![w] = [@ EXCEPT !.pc = "copying", !.fd = i,
                                                !.src = objects[op[w].addr]]]
    BY <1>15 DEF CopyOpen
  <2>2. op[w].dest \in Dest /\ objects' = objects /\ op[w].pc = "copy"
    BY <1>0, <1>15 DEF CopyOpen, Stages, MatPc
  <2>3. \A v \in Worker : op[v].pc \in WriterPc => op[v].fd # i
    BY <1>0, <2>1, <2>2, FreshApart
  <2>4. \A v \in Worker : v # w => op'[v] = op[v]
    BY <1>0, <2>1
  <2>5. op'[w].pc = "copying" /\ op'[w].fd = i /\ op'[w].src = objects[op[w].addr]
    BY <1>0, <2>1 DEF Op
  <2> QED BY <1>0, <2>1, <2>2, <2>3, <2>4, <2>5
<1>16. ASSUME NEW w \in Worker, op[w].pc = "copying", CopyData(w) \/ CopyFails(w)
       PROVE  TempsApart'
  <2>1. /\ UNCHANGED <<objects, dests>>
        /\ \A v \in Worker : v # w => op'[v] = op[v]
        /\ op'[w].pc \notin WriterPc /\ op'[w].fd = NoInode /\ op'[w].src = NoInode
    BY <1>16, CopyTouches
  <2>2. PICK f \in [Inode -> File] :
           FilesAre(f) /\ \A i \in Inode : i # op[w].fd => f[i] = file[i]
    BY <1>16, CopyTouches
  <2>3. \A v \in Worker : op'[v].fd \in Inode => file'[op'[v].fd] = f[op'[v].fd]
    BY <2>2, FilesKept
  <2>4. \A v \in Worker : op'[v].pc \in WriterPc =>
           v # w /\ op[v].pc \in WriterPc /\ op[v].fd \in Inode /\ op[w].fd # op[v].fd
    BY <1>0, <2>1
  <2>5. \A v \in Worker : op'[v].pc \in WriterPc => file'[op'[v].fd] = file[op[v].fd]
    BY <2>1, <2>2, <2>3, <2>4
  <2> QED BY <1>0, <2>1, <2>4, <2>5
<1>17. ASSUME NEW w \in Worker, op[w].pc = "copy", CopyFails(w) PROVE TempsApart'
  <2>1. /\ UNCHANGED <<objects, dests>> /\ FilesAre(file)
        /\ \A v \in Worker : v # w => op'[v] = op[v]
        /\ op'[w].pc = "idle" /\ op'[w].fd = NoInode /\ op'[w].src = NoInode
    BY <1>0, <1>17 DEF CopyFails, Finish, Idle
  <2>2. \A v \in Worker : op'[v].fd \in Inode => file'[op'[v].fd] = file[op'[v].fd]
    BY <1>0, <2>1, FilesKept
  <2> QED BY <1>0, <2>1, <2>2
<1>18. ASSUME NEW w \in Worker, MatChmod(w) PROVE TempsApart'
  BY <1>0, <1>18 DEF MatChmod, Finish, Idle
<1>19. ASSUME NEW w \in Worker, GcBegin(w) PROVE TempsApart'
  BY <1>0, <1>19 DEF GcBegin, Idle
<1>20. ASSUME NEW w \in Worker, GcRemove(w) PROVE TempsApart'
  BY <1>0, <1>20, FilesKept DEF GcRemove
<1>21. ASSUME NEW w \in Worker, GcEnd(w) PROVE TempsApart'
  BY <1>0, <1>21 DEF GcEnd, Finish, Idle
<1>22. CASE Crash
  BY <1>0, <1>22, FilesKept DEF Crash, Idle
<1>23. ASSUME NEW d \in Dest, Edit(d) PROVE TempsApart'
  BY <1>0, <1>23 DEF Edit
<1>24. ASSUME NEW d \in Dest, Remove(d) PROVE TempsApart'
  BY <1>0, <1>24, FilesKept DEF Remove
<1>25. CASE UNCHANGED vars
  BY <1>25, <1>0 DEF vars
<1> QED
  BY <1>1, <1>2, <1>3, <1>4, <1>5, <1>6, <1>7, <1>8, <1>9, <1>10, <1>11, <1>12,
     <1>13, <1>14, <1>15, <1>16, <1>17, <1>18, <1>19, <1>20, <1>21, <1>22, <1>23,
     <1>24, <1>25 DEF Next, CopyData, CopyFails

\* No step puts the file of a private path at another path.
LEMMA PrivateStep ==
    ASSUME CasAssumption, AnyUse, [Next]_vars
    PROVE  PrivateApart'
<1> USE DEF PrivateApart
<1>0. /\ TypeOK /\ Stages /\ TempsApart /\ PrivateApart /\ NoInode \notin Inode
      /\ objects \in [Bytes -> Inode \cup {NoInode}]
      /\ dests \in [Dest -> Inode \cup {NoInode}]
      /\ \A w \in Worker : op[w].pc \in WriterPc => op[w].fd \in Inode
      /\ \A w \in Worker : op[w].pc \in MatPc <=> op[w].dest \in Dest
      /\ \A w \in Worker : op[w].addr \in Bytes
      /\ PrivateDest \subseteq Dest /\ SharedDest \subseteq Dest
      /\ PrivateDest \cap SharedDest = {}
  BY Typed DEF AnyUse, TypeOK, Stages, TypeFacts, CasAssumption, Dest
<1>1. ASSUME NEW w \in Worker, WriterNew(w) PROVE PrivateApart'
  BY <1>0, <1>1 DEF WriterNew
<1>2. ASSUME NEW w \in Worker, WriterWrite(w) PROVE PrivateApart'
  BY <1>0, <1>2 DEF WriterWrite
<1>3. ASSUME NEW w \in Worker, WriterDrop(w) PROVE PrivateApart'
  BY <1>0, <1>3 DEF WriterDrop
<1>4. ASSUME NEW w \in Worker, CommitSync(w) PROVE PrivateApart'
  BY <1>0, <1>4 DEF CommitSync
<1>5. ASSUME NEW w \in Worker, CommitFound(w) PROVE PrivateApart'
  BY <1>0, <1>5 DEF CommitFound
<1>6. ASSUME NEW w \in Worker, CommitAbsent(w) PROVE PrivateApart'
  BY <1>0, <1>6 DEF CommitAbsent
<1>7. ASSUME NEW w \in Worker, CommitRename(w) PROVE PrivateApart'
  BY <1>0, <1>7 DEF CommitRename, TempsApart, WriterPc
<1>8. ASSUME NEW w \in Worker, CommitSeal(w) PROVE PrivateApart'
  BY <1>0, <1>8 DEF CommitSeal
<1>9. ASSUME NEW w \in Worker, MatBegin(w) PROVE PrivateApart'
  BY <1>0, <1>9 DEF MatBegin
<1>10. ASSUME NEW w \in Worker, MatUnlink(w) PROVE PrivateApart'
  BY <1>0, <1>10 DEF MatUnlink
<1>11. ASSUME NEW w \in Worker, Reflink(w) PROVE PrivateApart'
  BY <1>0, <1>11, FreshApart DEF Reflink
<1>12. ASSUME NEW w \in Worker, ReflinkFails(w) PROVE PrivateApart'
  BY <1>0, <1>12 DEF ReflinkFails
<1>13. ASSUME NEW w \in Worker, HardLink(w) PROVE PrivateApart'
  <2>1. op[w].dest \in SharedDest
    BY <1>0, <1>13 DEF HardLink, Stages
  <2>2. /\ dests' = [dests EXCEPT ![op[w].dest] = objects[op[w].addr]]
        /\ objects' = objects /\ Contains(op[w].addr)
    BY <1>13 DEF HardLink
  <2>3. op[w].addr \in Bytes
    BY <1>0
  <2> QED BY <1>0, <2>1, <2>2, <2>3
<1>14. ASSUME NEW w \in Worker, HardLinkFails(w) PROVE PrivateApart'
  BY <1>0, <1>14 DEF HardLinkFails
<1>15. ASSUME NEW w \in Worker, CopyOpen(w) PROVE PrivateApart'
  <2>1. PICK i \in Inode :
           /\ \/ dests[op[w].dest] = NoInode /\ Fresh(i)
              \/ dests[op[w].dest] = i
           /\ dests' = [dests EXCEPT ![op[w].dest] = i]
    BY <1>15 DEF CopyOpen
  <2>2. op[w].dest \in Dest /\ objects' = objects
    BY <1>0, <1>15 DEF CopyOpen, MatPc
  <2>3. CASE Fresh(i)
    BY <1>0, <2>1, <2>2, <2>3, FreshApart
  <2>4. CASE dests[op[w].dest] = i
    BY <1>0, <2>1, <2>2, <2>4
  <2> QED BY <2>1, <2>3, <2>4
<1>16. ASSUME NEW w \in Worker, CopyData(w) PROVE PrivateApart'
  BY <1>0, <1>16 DEF CopyData
<1>17. ASSUME NEW w \in Worker, CopyFails(w) PROVE PrivateApart'
  BY <1>0, <1>17 DEF CopyFails
<1>18. ASSUME NEW w \in Worker, MatChmod(w) PROVE PrivateApart'
  BY <1>0, <1>18 DEF MatChmod
<1>19. ASSUME NEW w \in Worker, GcBegin(w) PROVE PrivateApart'
  BY <1>0, <1>19 DEF GcBegin
<1>20. ASSUME NEW w \in Worker, GcRemove(w) PROVE PrivateApart'
  BY <1>0, <1>20 DEF GcRemove
<1>21. ASSUME NEW w \in Worker, GcEnd(w) PROVE PrivateApart'
  BY <1>0, <1>21 DEF GcEnd
<1>22. CASE Crash
  BY <1>0, <1>22 DEF Crash
<1>23. ASSUME NEW d \in Dest, Edit(d) PROVE PrivateApart'
  BY <1>0, <1>23 DEF Edit
<1>24. ASSUME NEW d \in Dest, Remove(d) PROVE PrivateApart'
  BY <1>0, <1>24 DEF Remove
<1>25. CASE UNCHANGED vars
  BY <1>25, <1>0 DEF vars
<1> QED
  BY <1>1, <1>2, <1>3, <1>4, <1>5, <1>6, <1>7, <1>8, <1>9, <1>10, <1>11, <1>12,
     <1>13, <1>14, <1>15, <1>16, <1>17, <1>18, <1>19, <1>20, <1>21, <1>22, <1>23,
     <1>24, <1>25 DEF Next

\* However the store is used, and whatever dies, a writer's temporary file holds
\* what it hashed and nothing else touches it, and no private file is linked.
THEOREM AnyUseHolds == Spec => []AnyUse
<1>0. CasAssumption
  BY CasAssumption
<1>1. Init => AnyUse
  BY <1>0, AnyUseInit
<1>2. AnyUse /\ [Next]_vars => AnyUse'
  BY <1>0, StagesStep, TypeStep, TempsStep, PrivateStep DEF AnyUse
<1> QED BY <1>1, <1>2, PTL DEF Spec

\* The types hold in every reachable state.
THEOREM TypeCorrect == Spec => []TypeOK
<1>1. AnyUse => TypeOK
  BY DEF AnyUse
<1> QED BY <1>1, AnyUseHolds, PTL

\* Store::place never links a private file, so editing one can change neither
\* the store nor another instance.
THEOREM PrivateSafe == Spec => []PrivateApart
<1>1. AnyUse => PrivateApart
  BY DEF AnyUse
<1> QED BY <1>1, AnyUseHolds, PTL

------------------------------------------------------------------------------
(* What holds of the store when it is used the way the daemon means to: no *)
(* two operations place the same path at once, and only files placed with   *)
(* Materialize::Private are edited.  Crashes stay allowed.                  *)

ExclusiveUse == Overlap = FALSE /\ EditShared = FALSE

------------------------------------------------------------------------------
(* The invariant *)

\* A path is being placed by one worker at most.
OwnDest ==
    \A v, w \in Worker : v # w /\ op[v].dest \in Dest => op[v].dest # op[w].dest

\* The path is clear when a file is about to be created there, so that a copy
\* cannot truncate a file that is linked elsewhere.
PathClear ==
    \A w \in Worker :
        op[w].pc \in {"reflink", "link", "copy"} => dests[op[w].dest] = NoInode

\* A copy being filled is at its destination and nowhere else.
CopyApart ==
    \A w \in Worker : op[w].pc = "copying" =>
        /\ \A a \in Bytes : objects[a] # op[w].fd
        /\ dests[op[w].dest] = op[w].fd
        /\ \A d \in Dest : dests[d] = op[w].fd => d = op[w].dest
        /\ \A v \in Worker : op[v].src # op[w].fd

\* The file a copy reads holds the content wanted, even if the object has been
\* collected meanwhile, and no private path names it.
SourceIntact ==
    \A w \in Worker : op[w].pc = "copying" =>
        /\ file[op[w].src].bytes = op[w].addr
        /\ \A d \in PrivateDest : dests[d] # op[w].src

\* Once only the permissions are left to set, the whole content is in place.
Placed ==
    \A w \in Worker : op[w].pc = "chmod" =>
        /\ dests[op[w].dest] # NoInode
        /\ file[dests[op[w].dest]].bytes = op[w].addr

Exclusive ==
    AnyUse /\ OwnDest /\ PathClear /\ CopyApart /\ SourceIntact /\ Placed /\ ObjectsIntact

LEMMA ExclusiveInit == ASSUME CasAssumption, Init PROVE Exclusive
BY AnyUseInit DEF Init, Idle, CasAssumption, Dest, Exclusive, OwnDest, PathClear, CopyApart,
                  SourceIntact, Placed, ObjectsIntact, Contains

------------------------------------------------------------------------------
(* Destinations *)

\* No step makes two workers place the same path.
LEMMA OwnDestStep ==
    ASSUME CasAssumption, ExclusiveUse, Exclusive, [Next]_vars
    PROVE  OwnDest'
<1> USE DEF OwnDest
<1>0. /\ OwnDest /\ op \in [Worker -> Op] /\ NoDest \notin Dest /\ Overlap = FALSE
  BY DEF Exclusive, AnyUse, TypeOK, CasAssumption, Dest, ExclusiveUse
<1>1. ASSUME NEW w \in Worker, WriterNew(w) PROVE OwnDest'
  BY <1>0, <1>1 DEF WriterNew, Idle
<1>2. ASSUME NEW w \in Worker, WriterWrite(w) PROVE OwnDest'
  BY <1>0, <1>2 DEF WriterWrite
<1>3. ASSUME NEW w \in Worker, WriterDrop(w) PROVE OwnDest'
  BY <1>0, <1>3 DEF WriterDrop, Finish, Idle
<1>4. ASSUME NEW w \in Worker, CommitSync(w) PROVE OwnDest'
  BY <1>0, <1>4 DEF CommitSync, Goto
<1>5. ASSUME NEW w \in Worker, CommitFound(w) PROVE OwnDest'
  BY <1>0, <1>5 DEF CommitFound, Finish, Idle
<1>6. ASSUME NEW w \in Worker, CommitAbsent(w) PROVE OwnDest'
  BY <1>0, <1>6 DEF CommitAbsent, Goto
<1>7. ASSUME NEW w \in Worker, CommitRename(w) PROVE OwnDest'
  BY <1>0, <1>7 DEF CommitRename
<1>8. ASSUME NEW w \in Worker, CommitSeal(w) PROVE OwnDest'
  BY <1>0, <1>8 DEF CommitSeal, Finish, Idle
<1>9. ASSUME NEW w \in Worker, MatBegin(w) PROVE OwnDest'
  BY <1>0, <1>9 DEF MatBegin, Idle, Busy
<1>10. ASSUME NEW w \in Worker, MatUnlink(w) PROVE OwnDest'
  BY <1>0, <1>10 DEF MatUnlink, Goto
<1>11. ASSUME NEW w \in Worker, Reflink(w) PROVE OwnDest'
  BY <1>0, <1>11 DEF Reflink, Goto
<1>12. ASSUME NEW w \in Worker, ReflinkFails(w) PROVE OwnDest'
  BY <1>0, <1>12 DEF ReflinkFails, Goto
<1>13. ASSUME NEW w \in Worker, HardLink(w) PROVE OwnDest'
  BY <1>0, <1>13 DEF HardLink, Goto
<1>14. ASSUME NEW w \in Worker, HardLinkFails(w) PROVE OwnDest'
  BY <1>0, <1>14 DEF HardLinkFails, Goto
<1>15. ASSUME NEW w \in Worker, CopyOpen(w) PROVE OwnDest'
  BY <1>0, <1>15 DEF CopyOpen
<1>16. ASSUME NEW w \in Worker, CopyData(w) PROVE OwnDest'
  BY <1>0, <1>16 DEF CopyData
<1>17. ASSUME NEW w \in Worker, CopyFails(w) PROVE OwnDest'
  BY <1>0, <1>17 DEF CopyFails, Finish, Idle
<1>18. ASSUME NEW w \in Worker, MatChmod(w) PROVE OwnDest'
  BY <1>0, <1>18 DEF MatChmod, Finish, Idle
<1>19. ASSUME NEW w \in Worker, GcBegin(w) PROVE OwnDest'
  BY <1>0, <1>19 DEF GcBegin, Idle
<1>20. ASSUME NEW w \in Worker, GcRemove(w) PROVE OwnDest'
  BY <1>0, <1>20 DEF GcRemove
<1>21. ASSUME NEW w \in Worker, GcEnd(w) PROVE OwnDest'
  BY <1>0, <1>21 DEF GcEnd, Finish, Idle
<1>22. CASE Crash
  BY <1>0, <1>22 DEF Crash, Idle
<1>23. ASSUME NEW d \in Dest, Edit(d) PROVE OwnDest'
  BY <1>0, <1>23 DEF Edit
<1>24. ASSUME NEW d \in Dest, Remove(d) PROVE OwnDest'
  BY <1>0, <1>24 DEF Remove
<1>25. CASE UNCHANGED vars
  BY <1>0, <1>25 DEF vars
<1> QED
  BY <1>1, <1>2, <1>3, <1>4, <1>5, <1>6, <1>7, <1>8, <1>9, <1>10, <1>11, <1>12,
     <1>13, <1>14, <1>15, <1>16, <1>17, <1>18, <1>19, <1>20, <1>21, <1>22, <1>23, <1>24, <1>25 DEF Next

\* A path that a worker has cleared stays clear until it creates a file there.
LEMMA PathClearStep ==
    ASSUME CasAssumption, ExclusiveUse, Exclusive, [Next]_vars
    PROVE  PathClear'
<1> USE DEF PathClear
<1>0. /\ PathClear /\ OwnDest /\ op \in [Worker -> Op]
      /\ dests \in [Dest -> Inode \cup {NoInode}] /\ NoInode \notin Inode
      /\ \A w \in Worker : op[w].pc \in MatPc <=> op[w].dest \in Dest
  BY DEF Exclusive, AnyUse, TypeOK, Stages, CasAssumption
<1> USE DEF OwnDest, MatPc
<1>1. ASSUME NEW w \in Worker, WriterNew(w) PROVE PathClear'
  BY <1>0, <1>1 DEF WriterNew, Idle
<1>2. ASSUME NEW w \in Worker, WriterWrite(w) PROVE PathClear'
  BY <1>0, <1>2 DEF WriterWrite
<1>3. ASSUME NEW w \in Worker, WriterDrop(w) PROVE PathClear'
  BY <1>0, <1>3 DEF WriterDrop, Finish, Idle
<1>4. ASSUME NEW w \in Worker, CommitSync(w) PROVE PathClear'
  BY <1>0, <1>4 DEF CommitSync, Goto
<1>5. ASSUME NEW w \in Worker, CommitFound(w) PROVE PathClear'
  BY <1>0, <1>5 DEF CommitFound, Finish, Idle
<1>6. ASSUME NEW w \in Worker, CommitAbsent(w) PROVE PathClear'
  BY <1>0, <1>6 DEF CommitAbsent, Goto
<1>7. ASSUME NEW w \in Worker, CommitRename(w) PROVE PathClear'
  BY <1>0, <1>7 DEF CommitRename
<1>8. ASSUME NEW w \in Worker, CommitSeal(w) PROVE PathClear'
  BY <1>0, <1>8 DEF CommitSeal, Finish, Idle
<1>9. ASSUME NEW w \in Worker, MatBegin(w) PROVE PathClear'
  BY <1>0, <1>9 DEF MatBegin, Idle
<1>10. ASSUME NEW w \in Worker, MatUnlink(w) PROVE PathClear'
  BY <1>0, <1>10 DEF MatUnlink, Goto
<1>11. ASSUME NEW w \in Worker, Reflink(w) PROVE PathClear'
  BY <1>0, <1>11 DEF Reflink, Goto
<1>12. ASSUME NEW w \in Worker, ReflinkFails(w) PROVE PathClear'
  BY <1>0, <1>12 DEF ReflinkFails, Goto
<1>13. ASSUME NEW w \in Worker, HardLink(w) PROVE PathClear'
  BY <1>0, <1>13 DEF HardLink, Goto
<1>14. ASSUME NEW w \in Worker, HardLinkFails(w) PROVE PathClear'
  BY <1>0, <1>14 DEF HardLinkFails, Goto
<1>15. ASSUME NEW w \in Worker, CopyOpen(w) PROVE PathClear'
  BY <1>0, <1>15 DEF CopyOpen
<1>16. ASSUME NEW w \in Worker, CopyData(w) PROVE PathClear'
  BY <1>0, <1>16 DEF CopyData
<1>17. ASSUME NEW w \in Worker, CopyFails(w) PROVE PathClear'
  BY <1>0, <1>17 DEF CopyFails, Finish, Idle
<1>18. ASSUME NEW w \in Worker, MatChmod(w) PROVE PathClear'
  BY <1>0, <1>18 DEF MatChmod, Finish, Idle
<1>19. ASSUME NEW w \in Worker, GcBegin(w) PROVE PathClear'
  BY <1>0, <1>19 DEF GcBegin, Idle
<1>20. ASSUME NEW w \in Worker, GcRemove(w) PROVE PathClear'
  BY <1>0, <1>20 DEF GcRemove
<1>21. ASSUME NEW w \in Worker, GcEnd(w) PROVE PathClear'
  BY <1>0, <1>21 DEF GcEnd, Finish, Idle
<1>22. CASE Crash
  BY <1>0, <1>22 DEF Crash, Idle
<1>23. ASSUME NEW d \in Dest, Edit(d) PROVE PathClear'
  BY <1>0, <1>23 DEF Edit
<1>24. ASSUME NEW d \in Dest, Remove(d) PROVE PathClear'
  BY <1>0, <1>24 DEF Remove
<1>25. CASE UNCHANGED vars
  BY <1>0, <1>25 DEF vars
<1> QED
  BY <1>1, <1>2, <1>3, <1>4, <1>5, <1>6, <1>7, <1>8, <1>9, <1>10, <1>11, <1>12,
     <1>13, <1>14, <1>15, <1>16, <1>17, <1>18, <1>19, <1>20, <1>21, <1>22, <1>23, <1>24, <1>25 DEF Next

------------------------------------------------------------------------------
(* Files *)

\* The files a step may write: new ones, those a worker is filling, and private
\* files of instances that nobody is placing.
Writable(i) ==
    \/ Fresh(i)
    \/ \E w \in Worker : op[w].pc \in WriterPc \cup {"copying"} /\ op[w].fd = i
    \/ \E d \in PrivateDest : dests[d] = i /\ ~Busy(d)

\* No step changes the bytes of another file that is still in use.
LEMMA OthersUnwritten ==
    ASSUME CasAssumption, ExclusiveUse, Exclusive, [Next]_vars
    PROVE  \A i \in Inode : i \in InUse' /\ ~Writable(i) => file'[i].bytes = file[i].bytes
<1> SUFFICES ASSUME NEW i \in Inode, i \in InUse', ~Writable(i)
             PROVE  file'[i].bytes = file[i].bytes
  OBVIOUS
<1>0. /\ file \in [Inode -> File] /\ Overlap = FALSE /\ EditShared = FALSE
      /\ ~Fresh(i)
      /\ \A w \in Worker : op[w].pc \in WriterPc \cup {"copying"} => op[w].fd # i
      /\ \A d \in PrivateDest : dests[d] = i => Busy(d)
  BY DEF Exclusive, AnyUse, TypeOK, ExclusiveUse, Writable
<1>1. ASSUME NEW w \in Worker, WriterNew(w) PROVE file'[i].bytes = file[i].bytes
  BY <1>0, <1>1 DEF WriterNew
<1>2. ASSUME NEW w \in Worker, WriterWrite(w) PROVE file'[i].bytes = file[i].bytes
  BY <1>0, <1>2 DEF WriterWrite, WriterPc
<1>3. ASSUME NEW w \in Worker, WriterDrop(w) PROVE file'[i].bytes = file[i].bytes
  BY <1>0, <1>3 DEF WriterDrop, FilesAre
<1>4. ASSUME NEW w \in Worker, CommitSync(w) PROVE file'[i].bytes = file[i].bytes
  BY <1>0, <1>4 DEF CommitSync
<1>5. ASSUME NEW w \in Worker, CommitFound(w) PROVE file'[i].bytes = file[i].bytes
  BY <1>0, <1>5 DEF CommitFound, FilesAre
<1>6. ASSUME NEW w \in Worker, CommitAbsent(w) PROVE file'[i].bytes = file[i].bytes
  BY <1>0, <1>6 DEF CommitAbsent
<1>7. ASSUME NEW w \in Worker, CommitRename(w) PROVE file'[i].bytes = file[i].bytes
  BY <1>0, <1>7 DEF CommitRename, FilesAre
<1>8. ASSUME NEW w \in Worker, CommitSeal(w) PROVE file'[i].bytes = file[i].bytes
  BY <1>0, <1>8 DEF CommitSeal, File
<1>9. ASSUME NEW w \in Worker, MatBegin(w) PROVE file'[i].bytes = file[i].bytes
  BY <1>0, <1>9 DEF MatBegin
<1>10. ASSUME NEW w \in Worker, MatUnlink(w) PROVE file'[i].bytes = file[i].bytes
  BY <1>0, <1>10 DEF MatUnlink, FilesAre
<1>11. ASSUME NEW w \in Worker, Reflink(w) PROVE file'[i].bytes = file[i].bytes
  BY <1>0, <1>11 DEF Reflink
<1>12. ASSUME NEW w \in Worker, ReflinkFails(w) PROVE file'[i].bytes = file[i].bytes
  BY <1>0, <1>12 DEF ReflinkFails
<1>13. ASSUME NEW w \in Worker, HardLink(w) PROVE file'[i].bytes = file[i].bytes
  BY <1>0, <1>13 DEF HardLink
<1>14. ASSUME NEW w \in Worker, HardLinkFails(w) PROVE file'[i].bytes = file[i].bytes
  BY <1>0, <1>14 DEF HardLinkFails
<1>15. ASSUME NEW w \in Worker, CopyOpen(w) PROVE file'[i].bytes = file[i].bytes
  <2>1. PICK j \in Inode :
           /\ (dests[op[w].dest] = NoInode /\ Fresh(j)) \/ dests[op[w].dest] = j
           /\ file' = [file EXCEPT ![j] =
                          [bytes |-> <<>>, mode |-> file[objects[op[w].addr]].mode]]
    BY <1>15 DEF CopyOpen
  <2>2. dests[op[w].dest] = NoInode /\ NoInode \notin Inode
    BY <1>15 DEF CopyOpen, Exclusive, PathClear, CasAssumption
  <2> QED BY <1>0, <2>1, <2>2
<1>16. ASSUME NEW w \in Worker, CopyData(w) PROVE file'[i].bytes = file[i].bytes
  BY <1>0, <1>16 DEF CopyData, FilesAre
<1>17. ASSUME NEW w \in Worker, CopyFails(w) PROVE file'[i].bytes = file[i].bytes
  <2>1. CASE op[w].pc = "copy"
    BY <1>0, <1>17, <2>1 DEF CopyFails, FilesAre
  <2>2. CASE op[w].pc = "copying"
    BY <1>0, <1>17, <2>2 DEF CopyFails, FilesAre
  <2> QED BY <1>17, <2>1, <2>2 DEF CopyFails
<1>18. ASSUME NEW w \in Worker, MatChmod(w) PROVE file'[i].bytes = file[i].bytes
  BY <1>0, <1>18 DEF MatChmod, File
<1>19. ASSUME NEW w \in Worker, GcBegin(w) PROVE file'[i].bytes = file[i].bytes
  BY <1>0, <1>19 DEF GcBegin
<1>20. ASSUME NEW w \in Worker, GcRemove(w) PROVE file'[i].bytes = file[i].bytes
  BY <1>0, <1>20 DEF GcRemove, FilesAre
<1>21. ASSUME NEW w \in Worker, GcEnd(w) PROVE file'[i].bytes = file[i].bytes
  BY <1>0, <1>21 DEF GcEnd
<1>22. CASE Crash
  BY <1>0, <1>22 DEF Crash, FilesAre
<1>23. ASSUME NEW d \in Dest, Edit(d) PROVE file'[i].bytes = file[i].bytes
  BY <1>0, <1>23 DEF Edit
<1>24. ASSUME NEW d \in Dest, Remove(d) PROVE file'[i].bytes = file[i].bytes
  BY <1>0, <1>24 DEF Remove, FilesAre
<1>25. CASE UNCHANGED vars
  BY <1>0, <1>25 DEF vars
<1> QED
  BY <1>1, <1>2, <1>3, <1>4, <1>5, <1>6, <1>7, <1>8, <1>9, <1>10, <1>11, <1>12,
     <1>13, <1>14, <1>15, <1>16, <1>17, <1>18, <1>19, <1>20, <1>21, <1>22, <1>23, <1>24, <1>25 DEF Next

\* Objects come in by a rename and go by garbage collection.
LEMMA ObjectsMoved ==
    ASSUME [Next]_vars
    PROVE  \/ UNCHANGED objects
           \/ \E w \in Worker : CommitRename(w) \/ GcRemove(w)
BY DEF Next, vars, WriterNew, WriterWrite, WriterDrop, CommitSync, CommitFound, CommitAbsent,
       CommitSeal, MatBegin, MatUnlink, Reflink, ReflinkFails, HardLink, HardLinkFails,
       CopyOpen, CopyData, CopyFails, MatChmod, GcBegin, GcEnd, Crash, Edit, Remove

\* What may be written is at no object, is nobody's source, and is not in a place
\* that somebody is about to finish.
LEMMA NotWritable ==
    ASSUME CasAssumption, Exclusive
    PROVE  /\ \A a \in Bytes : ~Writable(objects[a]) \/ objects[a] = NoInode
           /\ \A w \in Worker : op[w].pc = "copying" => ~Writable(op[w].src)
           /\ \A w \in Worker : op[w].pc = "chmod" => ~Writable(dests[op[w].dest])
<1> USE DEF Writable
<1>0. /\ TempsApart /\ PrivateApart /\ OwnDest /\ CopyApart /\ SourceIntact /\ Placed
      /\ NoInode \notin Inode /\ NoDest \notin Dest
      /\ objects \in [Bytes -> Inode \cup {NoInode}] /\ dests \in [Dest -> Inode \cup {NoInode}]
      /\ \A w \in Worker : op[w].pc \in MatPc <=> op[w].dest \in Dest
      /\ \A w \in Worker : op[w].pc = "copying" => op[w].src \in Inode
      /\ PrivateDest \subseteq Dest
  BY DEF Exclusive, AnyUse, TypeOK, Stages, CasAssumption, Dest
<1>1. ASSUME NEW a \in Bytes, objects[a] # NoInode PROVE ~Writable(objects[a])
  BY <1>0, <1>1 DEF Fresh, InUse, TempsApart, CopyApart, PrivateApart
<1>2. ASSUME NEW w \in Worker, op[w].pc = "copying" PROVE ~Writable(op[w].src)
  BY <1>0, <1>2 DEF Fresh, InUse, TempsApart, CopyApart, SourceIntact
<1>3. ASSUME NEW w \in Worker, op[w].pc = "chmod" PROVE ~Writable(dests[op[w].dest])
  <2>1. op[w].dest \in Dest /\ dests[op[w].dest] # NoInode
    BY <1>0, <1>3 DEF MatPc, Placed
  <2>2. ~Fresh(dests[op[w].dest])
    BY <2>1 DEF Fresh, InUse
  <2>3. \A v \in Worker : op[v].pc \in WriterPc => op[v].fd # dests[op[w].dest]
    BY <1>0, <2>1 DEF TempsApart
  <2>4. \A v \in Worker : op[v].pc = "copying" => op[v].fd # dests[op[w].dest]
    BY <1>0, <1>3, <2>1 DEF CopyApart, OwnDest, MatPc
  <2>5. \A d \in PrivateDest : dests[d] = dests[op[w].dest] => Busy(d)
    BY <1>0, <2>1 DEF PrivateApart, Busy
  <2> QED BY <2>2, <2>3, <2>4, <2>5
<1> QED BY <1>1, <1>2, <1>3

------------------------------------------------------------------------------
(* Objects *)

\* No step changes what is stored under an address.
LEMMA ObjectsIntactStep ==
    ASSUME CasAssumption, ExclusiveUse, Exclusive, [Next]_vars
    PROVE  ObjectsIntact'
<1> USE DEF ObjectsIntact, Contains
<1>0. /\ ObjectsIntact /\ TempsApart /\ TypeOK /\ NoInode \notin Inode
      /\ objects \in [Bytes -> Inode \cup {NoInode}] /\ file \in [Inode -> File]
      /\ op \in [Worker -> Op]
      /\ \A w \in Worker : op[w].pc \in WriterPc => op[w].fd \in Inode
  BY DEF Exclusive, AnyUse, TypeOK, Stages, CasAssumption
<1>1. ASSUME NEW a \in Bytes, objects'[a] = objects[a], objects[a] # NoInode
      PROVE  file'[objects'[a]].bytes = a
  <2>1. objects[a] \in Inode /\ objects[a] \in InUse' /\ ~Writable(objects[a])
    BY <1>0, <1>1, NotWritable DEF InUse
  <2> QED BY <1>0, <1>1, <2>1, OthersUnwritten
<1>2. CASE UNCHANGED objects
  BY <1>1, <1>2
<1>3. ASSUME NEW w \in Worker, GcRemove(w) PROVE ObjectsIntact'
  BY <1>0, <1>1, <1>3 DEF GcRemove
<1>4. ASSUME NEW w \in Worker, CommitRename(w) PROVE ObjectsIntact'
  <2>1. /\ objects' = [objects EXCEPT ![op[w].addr] = op[w].fd] /\ FilesAre(file)
        /\ op[w].fd \in Inode /\ file[op[w].fd].bytes = op[w].addr
    BY <1>0, <1>4 DEF CommitRename, TempsApart, WriterPc
  <2>2. \A a \in Bytes : objects'[a] \in Inode => file'[objects'[a]] = file[objects'[a]]
    BY <1>0, <2>1, FilesKept
  <2> QED BY <1>0, <1>1, <2>1, <2>2
<1> QED BY <1>2, <1>3, <1>4, ObjectsMoved

------------------------------------------------------------------------------
(* Copies in progress *)

\* No step puts the file a copy is filling at another path, or reads from it.
LEMMA CopyApartStep ==
    ASSUME CasAssumption, ExclusiveUse, Exclusive, [Next]_vars
    PROVE  CopyApart'
<1> USE DEF CopyApart
<1>0. /\ CopyApart /\ OwnDest /\ PathClear /\ TempsApart
      /\ op \in [Worker -> Op]
      /\ objects \in [Bytes -> Inode \cup {NoInode}]
      /\ dests \in [Dest -> Inode \cup {NoInode}] /\ NoInode \notin Inode
      /\ \A w \in Worker : op[w].pc \in MatPc <=> op[w].dest \in Dest
      /\ \A w \in Worker : op[w].pc = "copying" => op[w].fd \in Inode
      /\ \A w \in Worker : op[w].pc \in WriterPc => op[w].fd \in Inode
      /\ \A w \in Worker : op[w].addr \in Bytes
      /\ Overlap = FALSE
  BY Typed DEF Exclusive, AnyUse, TypeOK, Stages, CasAssumption, ExclusiveUse, TypeFacts
<1> USE DEF OwnDest, MatPc
<1>1. ASSUME NEW w \in Worker, WriterNew(w) PROVE CopyApart'
  BY <1>0, <1>1 DEF WriterNew, Idle
<1>2. ASSUME NEW w \in Worker, WriterWrite(w) PROVE CopyApart'
  BY <1>0, <1>2 DEF WriterWrite
<1>3. ASSUME NEW w \in Worker, WriterDrop(w) PROVE CopyApart'
  BY <1>0, <1>3 DEF WriterDrop, Finish, Idle
<1>4. ASSUME NEW w \in Worker, CommitSync(w) PROVE CopyApart'
  BY <1>0, <1>4 DEF CommitSync, Goto
<1>5. ASSUME NEW w \in Worker, CommitFound(w) PROVE CopyApart'
  BY <1>0, <1>5 DEF CommitFound, Finish, Idle
<1>6. ASSUME NEW w \in Worker, CommitAbsent(w) PROVE CopyApart'
  BY <1>0, <1>6 DEF CommitAbsent, Goto
<1>7. ASSUME NEW w \in Worker, CommitRename(w) PROVE CopyApart'
  <2>1. \A v \in Worker : op[v].pc = "copying" => v # w /\ op[v].fd # op[w].fd
    BY <1>0, <1>7 DEF CommitRename, TempsApart, WriterPc
  <2> QED BY <1>0, <1>7, <2>1 DEF CommitRename
<1>8. ASSUME NEW w \in Worker, CommitSeal(w) PROVE CopyApart'
  BY <1>0, <1>8 DEF CommitSeal, Finish, Idle
<1>9. ASSUME NEW w \in Worker, MatBegin(w) PROVE CopyApart'
  BY <1>0, <1>9 DEF MatBegin, Idle
<1>10. ASSUME NEW w \in Worker, MatUnlink(w) PROVE CopyApart'
  BY <1>0, <1>10 DEF MatUnlink, Goto
<1>11. ASSUME NEW w \in Worker, Reflink(w) PROVE CopyApart'
  <2>1. PICK i \in Inode : Fresh(i) /\ dests' = [dests EXCEPT ![op[w].dest] = i]
    BY <1>11 DEF Reflink
  <2>2. \A v \in Worker : op[v].fd # i
    BY <2>1, FreshApart
  <2> QED BY <1>0, <1>11, <2>1, <2>2 DEF Reflink, Goto
<1>12. ASSUME NEW w \in Worker, ReflinkFails(w) PROVE CopyApart'
  BY <1>0, <1>12 DEF ReflinkFails, Goto
<1>13. ASSUME NEW w \in Worker, HardLink(w) PROVE CopyApart'
  BY <1>0, <1>13 DEF HardLink, Goto
<1>14. ASSUME NEW w \in Worker, HardLinkFails(w) PROVE CopyApart'
  BY <1>0, <1>14 DEF HardLinkFails, Goto
<1>15. ASSUME NEW w \in Worker, CopyOpen(w) PROVE CopyApart'
  <2>1. dests[op[w].dest] = NoInode /\ op[w].dest \in Dest /\ op[w].pc = "copy"
    BY <1>0, <1>15 DEF CopyOpen, PathClear
  <2>2. PICK i \in Inode :
           /\ Fresh(i) /\ dests' = [dests EXCEPT ![op[w].dest] = i]
           /\ op' = [op EXCEPT ![w] = [@ EXCEPT !.pc = "copying", !.fd = i,
                                                !.src = objects[op[w].addr]]]
    BY <1>0, <1>15, <2>1 DEF CopyOpen
  <2>3. /\ \A a \in Bytes : objects[a] # i
        /\ \A d \in Dest : dests[d] # i
        /\ \A v \in Worker : op[v].fd # i /\ op[v].src # i
    BY <2>2, FreshApart
  <2>4. /\ objects' = objects /\ op[w].addr \in Bytes
        /\ \A v \in Worker : v # w => op'[v] = op[v]
        /\ op'[w].fd = i /\ op'[w].src = objects[op[w].addr] /\ op'[w].dest = op[w].dest
    BY <1>0, <1>15, <2>2 DEF CopyOpen, Op
  <2>5. \A v \in Worker : v # w /\ op[v].pc = "copying" =>
           op[v].dest # op[w].dest /\ op[v].fd \in Inode
    BY <1>0, <2>1
  <2>6. \A v \in Worker : op'[v].src = op[v].src \/ op'[v].src = objects[op[w].addr]
    BY <2>4
  <2>7. ASSUME NEW v \in Worker, v # w, op'[v].pc = "copying"
        PROVE  /\ \A a \in Bytes : objects'[a] # op'[v].fd
               /\ dests'[op'[v].dest] = op'[v].fd
               /\ \A d \in Dest : dests'[d] = op'[v].fd => d = op'[v].dest
               /\ \A u \in Worker : op'[u].src # op'[v].fd
    BY <1>0, <2>1, <2>2, <2>3, <2>4, <2>5, <2>6, <2>7
  <2>8. /\ \A a \in Bytes : objects'[a] # op'[w].fd
        /\ dests'[op'[w].dest] = op'[w].fd
        /\ \A d \in Dest : dests'[d] = op'[w].fd => d = op'[w].dest
        /\ \A u \in Worker : op'[u].src # op'[w].fd
    BY <1>0, <2>1, <2>2, <2>3, <2>4, <2>6
  <2> QED BY <2>7, <2>8
<1>16. ASSUME NEW w \in Worker, CopyData(w) PROVE CopyApart'
  BY <1>0, <1>16 DEF CopyData
<1>17. ASSUME NEW w \in Worker, CopyFails(w) PROVE CopyApart'
  BY <1>0, <1>17 DEF CopyFails, Finish, Idle
<1>18. ASSUME NEW w \in Worker, MatChmod(w) PROVE CopyApart'
  BY <1>0, <1>18 DEF MatChmod, Finish, Idle
<1>19. ASSUME NEW w \in Worker, GcBegin(w) PROVE CopyApart'
  BY <1>0, <1>19 DEF GcBegin, Idle
<1>20. ASSUME NEW w \in Worker, GcRemove(w) PROVE CopyApart'
  BY <1>0, <1>20 DEF GcRemove
<1>21. ASSUME NEW w \in Worker, GcEnd(w) PROVE CopyApart'
  BY <1>0, <1>21 DEF GcEnd, Finish, Idle
<1>22. CASE Crash
  BY <1>0, <1>22 DEF Crash, Idle
<1>23. ASSUME NEW d \in Dest, Edit(d) PROVE CopyApart'
  BY <1>0, <1>23 DEF Edit
<1>24. ASSUME NEW d \in Dest, Remove(d) PROVE CopyApart'
  <2>1. \A w \in Worker : op[w].dest # d
    BY <1>0, <1>24 DEF Remove, Busy
  <2> QED BY <1>0, <1>24, <2>1 DEF Remove
<1>25. CASE UNCHANGED vars
  BY <1>0, <1>25 DEF vars
<1> QED
  BY <1>1, <1>2, <1>3, <1>4, <1>5, <1>6, <1>7, <1>8, <1>9, <1>10, <1>11, <1>12,
     <1>13, <1>14, <1>15, <1>16, <1>17, <1>18, <1>19, <1>20, <1>21, <1>22, <1>23, <1>24, <1>25 DEF Next

\* No step changes the file a copy reads, or puts it at a private path.
LEMMA SourceIntactStep ==
    ASSUME CasAssumption, ExclusiveUse, Exclusive, [Next]_vars
    PROVE  SourceIntact'
<1> USE DEF SourceIntact
<1>0. /\ SourceIntact /\ PrivateApart /\ ObjectsIntact /\ PathClear
      /\ op \in [Worker -> Op] /\ file \in [Inode -> File]
      /\ objects \in [Bytes -> Inode \cup {NoInode}]
      /\ dests \in [Dest -> Inode \cup {NoInode}] /\ NoInode \notin Inode
      /\ \A w \in Worker : op[w].pc \in MatPc <=> op[w].dest \in Dest
      /\ \A w \in Worker : op[w].pc \in {"relink", "link"} => op[w].dest \in SharedDest
      /\ \A w \in Worker : op[w].pc = "copying" => op[w].src \in Inode
      /\ \A w \in Worker : op[w].addr \in Bytes
      /\ PrivateDest \subseteq Dest /\ SharedDest \cap PrivateDest = {}
  BY Typed DEF Exclusive, AnyUse, TypeOK, Stages, CasAssumption, Dest, TypeFacts
\* A source that stays one keeps its bytes.
<1>a. ASSUME NEW w \in Worker, op[w].pc = "copying", op'[w].src = op[w].src
      PROVE  file'[op[w].src].bytes = op[w].addr
  <2>1. op[w].src \in Inode /\ op[w].src \in InUse' /\ ~Writable(op[w].src)
    BY <1>0, <1>a, NotWritable DEF InUse
  <2> QED BY <1>0, <1>a, <2>1, OthersUnwritten
<1>1. ASSUME NEW w \in Worker, WriterNew(w) PROVE SourceIntact'
  BY <1>0, <1>a, <1>1 DEF WriterNew, Idle
<1>2. ASSUME NEW w \in Worker, WriterWrite(w) PROVE SourceIntact'
  BY <1>0, <1>a, <1>2 DEF WriterWrite
<1>3. ASSUME NEW w \in Worker, WriterDrop(w) PROVE SourceIntact'
  BY <1>0, <1>a, <1>3 DEF WriterDrop, Finish, Idle
<1>4. ASSUME NEW w \in Worker, CommitSync(w) PROVE SourceIntact'
  BY <1>0, <1>a, <1>4 DEF CommitSync, Goto
<1>5. ASSUME NEW w \in Worker, CommitFound(w) PROVE SourceIntact'
  BY <1>0, <1>a, <1>5 DEF CommitFound, Finish, Idle
<1>6. ASSUME NEW w \in Worker, CommitAbsent(w) PROVE SourceIntact'
  BY <1>0, <1>a, <1>6 DEF CommitAbsent, Goto
<1>7. ASSUME NEW w \in Worker, CommitRename(w) PROVE SourceIntact'
  BY <1>0, <1>a, <1>7 DEF CommitRename
<1>8. ASSUME NEW w \in Worker, CommitSeal(w) PROVE SourceIntact'
  BY <1>0, <1>a, <1>8 DEF CommitSeal, Finish, Idle
<1>9. ASSUME NEW w \in Worker, MatBegin(w) PROVE SourceIntact'
  BY <1>0, <1>a, <1>9 DEF MatBegin, Idle
<1>10. ASSUME NEW w \in Worker, MatUnlink(w) PROVE SourceIntact'
  BY <1>0, <1>a, <1>10 DEF MatUnlink, Goto, MatPc
<1>11. ASSUME NEW w \in Worker, Reflink(w) PROVE SourceIntact'
  <2>1. PICK i \in Inode : Fresh(i) /\ dests' = [dests EXCEPT ![op[w].dest] = i]
    BY <1>11 DEF Reflink
  <2>2. \A v \in Worker : op[v].src # i
    BY <2>1, FreshApart
  <2> QED BY <1>0, <1>a, <1>11, <2>1, <2>2 DEF Reflink, Goto
<1>12. ASSUME NEW w \in Worker, ReflinkFails(w) PROVE SourceIntact'
  BY <1>0, <1>a, <1>12 DEF ReflinkFails, Goto
<1>13. ASSUME NEW w \in Worker, HardLink(w) PROVE SourceIntact'
  BY <1>0, <1>a, <1>13 DEF HardLink, Goto, MatPc
<1>14. ASSUME NEW w \in Worker, HardLinkFails(w) PROVE SourceIntact'
  BY <1>0, <1>a, <1>14 DEF HardLinkFails, Goto
<1>15. ASSUME NEW w \in Worker, CopyOpen(w) PROVE SourceIntact'
  <2>1. dests[op[w].dest] = NoInode /\ op[w].dest \in Dest /\ op[w].pc = "copy"
    BY <1>0, <1>15 DEF CopyOpen, PathClear, MatPc
  <2>2. PICK i \in Inode :
           /\ Fresh(i) /\ dests' = [dests EXCEPT ![op[w].dest] = i]
           /\ op' = [op EXCEPT ![w] = [@ EXCEPT !.pc = "copying", !.fd = i,
                                                !.src = objects[op[w].addr]]]
           /\ file' = [file EXCEPT ![i] =
                          [bytes |-> <<>>, mode |-> file[objects[op[w].addr]].mode]]
    BY <1>0, <1>15, <2>1 DEF CopyOpen
  <2>3. /\ objects[op[w].addr] \in Inode /\ objects[op[w].addr] # i
        /\ file[objects[op[w].addr]].bytes = op[w].addr
        /\ \A d \in PrivateDest : dests[d] # objects[op[w].addr]
        /\ \A v \in Worker : op[v].src # i
    BY <1>0, <1>15, <2>2, FreshApart DEF CopyOpen, Contains, ObjectsIntact, PrivateApart
  <2>4. /\ \A v \in Worker : v # w => op'[v] = op[v]
        /\ op'[w].src = objects[op[w].addr] /\ op'[w].addr = op[w].addr
    BY <1>0, <2>2 DEF Op
  <2>5. file'[op'[w].src].bytes = op'[w].addr /\ \A d \in PrivateDest : dests'[d] # op'[w].src
    BY <1>0, <2>1, <2>2, <2>3, <2>4
  <2> QED BY <1>0, <1>a, <2>1, <2>2, <2>3, <2>4, <2>5
<1>16. ASSUME NEW w \in Worker, CopyData(w) PROVE SourceIntact'
  BY <1>0, <1>a, <1>16 DEF CopyData
<1>17. ASSUME NEW w \in Worker, CopyFails(w) PROVE SourceIntact'
  BY <1>0, <1>a, <1>17 DEF CopyFails, Finish, Idle
<1>18. ASSUME NEW w \in Worker, MatChmod(w) PROVE SourceIntact'
  BY <1>0, <1>a, <1>18 DEF MatChmod, Finish, Idle
<1>19. ASSUME NEW w \in Worker, GcBegin(w) PROVE SourceIntact'
  BY <1>0, <1>a, <1>19 DEF GcBegin, Idle
<1>20. ASSUME NEW w \in Worker, GcRemove(w) PROVE SourceIntact'
  BY <1>0, <1>a, <1>20 DEF GcRemove
<1>21. ASSUME NEW w \in Worker, GcEnd(w) PROVE SourceIntact'
  BY <1>0, <1>a, <1>21 DEF GcEnd, Finish, Idle
<1>22. CASE Crash
  BY <1>0, <1>a, <1>22 DEF Crash, Idle
<1>23. ASSUME NEW d \in Dest, Edit(d) PROVE SourceIntact'
  BY <1>0, <1>a, <1>23 DEF Edit
<1>24. ASSUME NEW d \in Dest, Remove(d) PROVE SourceIntact'
  BY <1>0, <1>a, <1>24 DEF Remove
<1>25. CASE UNCHANGED vars
  BY <1>0, <1>25 DEF vars
<1> QED
  BY <1>1, <1>2, <1>3, <1>4, <1>5, <1>6, <1>7, <1>8, <1>9, <1>10, <1>11, <1>12,
     <1>13, <1>14, <1>15, <1>16, <1>17, <1>18, <1>19, <1>20, <1>21, <1>22, <1>23, <1>24, <1>25 DEF Next

\* A finished file stays whole until its permissions are set.
LEMMA PlacedStep ==
    ASSUME CasAssumption, ExclusiveUse, Exclusive, [Next]_vars
    PROVE  Placed'
<1> USE DEF Placed
<1>0. /\ Placed /\ OwnDest /\ CopyApart /\ SourceIntact /\ ObjectsIntact /\ PathClear /\ TypeOK
      /\ op \in [Worker -> Op] /\ file \in [Inode -> File]
      /\ objects \in [Bytes -> Inode \cup {NoInode}]
      /\ dests \in [Dest -> Inode \cup {NoInode}] /\ NoInode \notin Inode
      /\ \A w \in Worker : op[w].pc \in MatPc <=> op[w].dest \in Dest
      /\ \A w \in Worker : op[w].pc = "copying" => op[w].fd \in Inode /\ op[w].src \in Inode
      /\ \A w \in Worker : op[w].addr \in Bytes
      /\ Overlap = FALSE
  BY Typed DEF Exclusive, AnyUse, TypeOK, Stages, CasAssumption, ExclusiveUse, TypeFacts
\* A finished file that stays where it is keeps its bytes.
<1>a. ASSUME NEW w \in Worker, op[w].pc = "chmod",
             dests'[op[w].dest] = dests[op[w].dest]
      PROVE  /\ dests'[op[w].dest] # NoInode
             /\ file'[dests'[op[w].dest]].bytes = op[w].addr
  <2>1. op[w].dest \in Dest /\ dests[op[w].dest] \in Inode
    BY <1>0, <1>a DEF MatPc
  <2>2. dests[op[w].dest] \in InUse' /\ ~Writable(dests[op[w].dest])
    BY <1>0, <1>a, <2>1, NotWritable DEF InUse
  <2> QED BY <1>0, <1>a, <2>1, <2>2, OthersUnwritten
<1>1. ASSUME NEW w \in Worker, WriterNew(w) PROVE Placed'
  BY <1>0, <1>a, <1>1 DEF WriterNew, Idle, OwnDest, MatPc
<1>2. ASSUME NEW w \in Worker, WriterWrite(w) PROVE Placed'
  BY <1>0, <1>a, <1>2 DEF WriterWrite, OwnDest, MatPc
<1>3. ASSUME NEW w \in Worker, WriterDrop(w) PROVE Placed'
  BY <1>0, <1>a, <1>3 DEF WriterDrop, Finish, Idle, OwnDest, MatPc
<1>4. ASSUME NEW w \in Worker, CommitSync(w) PROVE Placed'
  BY <1>0, <1>a, <1>4 DEF CommitSync, Goto, OwnDest, MatPc
<1>5. ASSUME NEW w \in Worker, CommitFound(w) PROVE Placed'
  BY <1>0, <1>a, <1>5 DEF CommitFound, Finish, Idle, OwnDest, MatPc
<1>6. ASSUME NEW w \in Worker, CommitAbsent(w) PROVE Placed'
  BY <1>0, <1>a, <1>6 DEF CommitAbsent, Goto, OwnDest, MatPc
<1>7. ASSUME NEW w \in Worker, CommitRename(w) PROVE Placed'
  BY <1>0, <1>a, <1>7 DEF CommitRename, OwnDest, MatPc
<1>8. ASSUME NEW w \in Worker, CommitSeal(w) PROVE Placed'
  BY <1>0, <1>a, <1>8 DEF CommitSeal, Finish, Idle, OwnDest, MatPc
<1>9. ASSUME NEW w \in Worker, MatBegin(w) PROVE Placed'
  BY <1>0, <1>a, <1>9 DEF MatBegin, Idle, OwnDest, MatPc
<1>10. ASSUME NEW w \in Worker, MatUnlink(w) PROVE Placed'
  BY <1>0, <1>a, <1>10 DEF MatUnlink, Goto, OwnDest, MatPc
<1>11. ASSUME NEW w \in Worker, Reflink(w) PROVE Placed'
  <2>1. PICK i \in Inode :
           /\ dests' = [dests EXCEPT ![op[w].dest] = i]
           /\ file' = [file EXCEPT ![i] =
                          [bytes |-> file[objects[op[w].addr]].bytes, mode |-> "rw"]]
    BY <1>11 DEF Reflink
  <2>2. op[w].dest \in Dest /\ file[objects[op[w].addr]].bytes = op[w].addr
    BY <1>0, <1>11 DEF Reflink, MatPc, ObjectsIntact
  <2>3. /\ \A v \in Worker : v # w => op'[v] = op[v]
        /\ op'[w].dest = op[w].dest /\ op'[w].addr = op[w].addr
    BY <1>0, <1>11 DEF Reflink, Goto
  <2>4. \A v \in Worker : v # w /\ op[v].pc = "chmod" =>
           dests'[op[v].dest] = dests[op[v].dest]
    BY <1>0, <2>1, <2>2 DEF OwnDest, MatPc
  <2> QED BY <1>0, <1>a, <2>1, <2>2, <2>3, <2>4
<1>12. ASSUME NEW w \in Worker, ReflinkFails(w) PROVE Placed'
  BY <1>0, <1>a, <1>12 DEF ReflinkFails, Goto, OwnDest, MatPc
<1>13. ASSUME NEW w \in Worker, HardLink(w) PROVE Placed'
  <2>1. /\ dests' = [dests EXCEPT ![op[w].dest] = objects[op[w].addr]] /\ file' = file
        /\ op[w].dest \in Dest /\ objects[op[w].addr] # NoInode
        /\ file[objects[op[w].addr]].bytes = op[w].addr
    BY <1>0, <1>13 DEF HardLink, MatPc, ObjectsIntact, Contains
  <2>2. /\ \A v \in Worker : v # w => op'[v] = op[v]
        /\ op'[w].dest = op[w].dest /\ op'[w].addr = op[w].addr
    BY <1>0, <1>13 DEF HardLink, Goto
  <2>3. \A v \in Worker : v # w /\ op[v].pc = "chmod" =>
           dests'[op[v].dest] = dests[op[v].dest]
    BY <1>0, <2>1 DEF OwnDest, MatPc
  <2> QED BY <1>0, <1>a, <2>1, <2>2, <2>3
<1>14. ASSUME NEW w \in Worker, HardLinkFails(w) PROVE Placed'
  BY <1>0, <1>a, <1>14 DEF HardLinkFails, Goto, OwnDest, MatPc
<1>15. ASSUME NEW w \in Worker, CopyOpen(w) PROVE Placed'
  BY <1>0, <1>a, <1>15 DEF CopyOpen, OwnDest, MatPc
<1>16. ASSUME NEW w \in Worker, CopyData(w) PROVE Placed'
  <2>1. /\ op[w].dest \in Dest /\ dests[op[w].dest] = op[w].fd /\ dests' = dests
        /\ op[w].fd \in Inode /\ op[w].src \in Inode
        /\ file[op[w].src].bytes = op[w].addr
        /\ FilesAre([file EXCEPT ![op[w].fd].bytes = op[w].addr])
    BY <1>0, <1>16 DEF CopyData, CopyApart, SourceIntact, MatPc
  <2>2. /\ \A v \in Worker : v # w => op'[v] = op[v]
        /\ op'[w].dest = op[w].dest /\ op'[w].addr = op[w].addr
    BY <1>0, <1>16 DEF CopyData
  <2>3. [file EXCEPT ![op[w].fd].bytes = op[w].addr] \in [Inode -> File]
    BY <1>0, <2>1, Typed DEF TypeFacts
  <2>4. PICK f \in [Inode -> File] : FilesAre(f) /\ f[op[w].fd].bytes = op[w].addr
    BY <1>0, <2>1, <2>3 DEF File
  <2>5. \A d \in Dest : dests'[d] \in Inode => file'[dests'[d]] = f[dests'[d]]
    BY <2>4, FilesKept
  <2>6. file'[op[w].fd].bytes = op[w].addr
    BY <2>1, <2>4, <2>5
  <2> QED BY <1>0, <1>a, <2>1, <2>2, <2>6
<1>17. ASSUME NEW w \in Worker, CopyFails(w) PROVE Placed'
  BY <1>0, <1>a, <1>17 DEF CopyFails, Finish, Idle, OwnDest, MatPc
<1>18. ASSUME NEW w \in Worker, MatChmod(w) PROVE Placed'
  BY <1>0, <1>a, <1>18 DEF MatChmod, Finish, Idle, OwnDest, MatPc
<1>19. ASSUME NEW w \in Worker, GcBegin(w) PROVE Placed'
  BY <1>0, <1>a, <1>19 DEF GcBegin, Idle, OwnDest, MatPc
<1>20. ASSUME NEW w \in Worker, GcRemove(w) PROVE Placed'
  BY <1>0, <1>a, <1>20 DEF GcRemove, OwnDest, MatPc
<1>21. ASSUME NEW w \in Worker, GcEnd(w) PROVE Placed'
  BY <1>0, <1>a, <1>21 DEF GcEnd, Finish, Idle, OwnDest, MatPc
<1>22. CASE Crash
  BY <1>0, <1>a, <1>22 DEF Crash, Idle, OwnDest, MatPc
<1>23. ASSUME NEW d \in Dest, Edit(d) PROVE Placed'
  BY <1>0, <1>a, <1>23 DEF Edit, OwnDest, MatPc
<1>24. ASSUME NEW d \in Dest, Remove(d) PROVE Placed'
  <2>1. \A w \in Worker : op[w].dest # d
    BY <1>0, <1>24 DEF Remove, Busy
  <2> QED BY <1>0, <1>a, <1>24, <2>1 DEF Remove, MatPc
<1>25. CASE UNCHANGED vars
  BY <1>0, <1>25 DEF vars
<1> QED
  BY <1>1, <1>2, <1>3, <1>4, <1>5, <1>6, <1>7, <1>8, <1>9, <1>10, <1>11, <1>12,
     <1>13, <1>14, <1>15, <1>16, <1>17, <1>18, <1>19, <1>20, <1>21, <1>22, <1>23, <1>24, <1>25 DEF Next

------------------------------------------------------------------------------
(* Theorems *)

LEMMA ExclusiveStep ==
    ASSUME CasAssumption, ExclusiveUse, Exclusive, [Next]_vars
    PROVE  Exclusive'
BY StagesStep, TypeStep, TempsStep, PrivateStep, OwnDestStep, PathClearStep, CopyApartStep,
   SourceIntactStep, PlacedStep, ObjectsIntactStep DEF Exclusive, AnyUse

LEMMA ExclusiveHolds == ASSUME ExclusiveUse PROVE Spec => []Exclusive
<1>1. Init => Exclusive
  BY CasAssumption, ExclusiveInit
<1>2. Exclusive /\ [Next]_vars => Exclusive'
  BY CasAssumption, ExclusiveUse, ExclusiveStep
<1> QED BY <1>1, <1>2, PTL DEF Spec

\* An object always holds what its address names, for any number of workers,
\* through crashes, collections and failed or interrupted copies.
THEOREM ObjectsSafe == ASSUME ExclusiveUse PROVE Spec => []ObjectsIntact
<1>1. Exclusive => ObjectsIntact
  BY DEF Exclusive
<1> QED BY <1>1, ExclusiveHolds, PTL

\* The bytes of a file in a shared place never change while it stays there.
THEOREM InstancesSafe == ASSUME ExclusiveUse PROVE Spec => InstancesIsolated
<1>1. ASSUME Exclusive, [Next]_vars,
             NEW d \in SharedDest, dests[d] # NoInode, dests'[d] = dests[d], ~Busy(d)
      PROVE  file'[dests[d]].bytes = file[dests[d]].bytes
  <2>1. /\ TempsApart /\ PrivateApart /\ CopyApart
        /\ dests \in [Dest -> Inode \cup {NoInode}] /\ d \in Dest /\ d \notin PrivateDest
        /\ NoInode \notin Inode
    BY <1>1, CasAssumption DEF Exclusive, AnyUse, TypeOK, CasAssumption, Dest
  <2>2. dests[d] \in Inode /\ dests[d] \in InUse'
    BY <1>1, <2>1 DEF InUse
  <2>3. ~Fresh(dests[d])
    BY <2>1 DEF Fresh, InUse
  <2>4. \A w \in Worker : op[w].pc \in WriterPc => op[w].fd # dests[d]
    BY <2>1 DEF TempsApart
  <2>5. \A w \in Worker : op[w].pc = "copying" => op[w].fd # dests[d]
    BY <1>1, <2>1 DEF CopyApart, Busy
  <2>6. \A e \in PrivateDest : dests[e] # dests[d]
    BY <1>1, <2>1 DEF PrivateApart
  <2>7. ~Writable(dests[d])
    BY <2>3, <2>4, <2>5, <2>6 DEF Writable
  <2> QED BY <1>1, <2>2, <2>7, OthersUnwritten, CasAssumption
<1>2. Exclusive /\ [Next]_vars =>
        [\A d \in SharedDest :
           (dests[d] # NoInode /\ dests'[d] = dests[d] /\ ~Busy(d)) =>
              file'[dests[d]].bytes = file[dests[d]].bytes]_vars
  BY <1>1
<1> QED BY <1>2, ExclusiveHolds, PTL DEF Spec, InstancesIsolated

\* When materialize succeeds, the path holds the whole object with the mode asked.
THEOREM MaterializeSafe == ASSUME ExclusiveUse PROVE Spec => MaterializeDelivers
<1>1. ASSUME Exclusive, NEW w \in Worker, op[w].pc = "chmod", MatChmod(w)
      PROVE  LET d == op[w].dest IN
             /\ dests'[d] # NoInode
             /\ file'[dests'[d]] =
                  [bytes |-> op[w].addr, mode |-> IF d \in SharedDest THEN "ro" ELSE "rw"]
  <2>1. /\ op[w].dest \in Dest /\ dests[op[w].dest] \in Inode /\ NoInode \notin Inode
        /\ file[dests[op[w].dest]].bytes = op[w].addr
        /\ file \in [Inode -> File] /\ dests' = dests
        /\ file' = [file EXCEPT ![dests[op[w].dest]].mode =
                        IF op[w].dest \in SharedDest THEN "ro" ELSE "rw"]
    BY <1>1, CasAssumption DEF Exclusive, AnyUse, TypeOK, Stages, MatPc, Placed, MatChmod,
                               CasAssumption
  <2> QED BY <2>1 DEF File
<1>2. Exclusive /\ [Next]_vars =>
        [\A w \in Worker :
           (op[w].pc = "chmod" /\ MatChmod(w)) =>
              LET d == op[w].dest IN
              /\ dests'[d] # NoInode
              /\ file'[dests'[d]] =
                   [bytes |-> op[w].addr,
                    mode |-> IF d \in SharedDest THEN "ro" ELSE "rw"]]_vars
  BY <1>1
<1> QED BY <1>2, ExclusiveHolds, PTL DEF Spec, MaterializeDelivers

\* The store implements BlobStore: contents appear whole under their own address,
\* and disappear whole.
THEOREM StoreImplements == ASSUME ExclusiveUse PROVE Spec => ImplementsBlobStore
<1>1. Init => Blob!Init
  BY DEF Init, Blob!Init, Stored, Contains
<1>2. ASSUME Exclusive, Exclusive', [Next]_vars PROVE [Blob!Next]_Stored
  <2>0. /\ objects \in [Bytes -> Inode \cup {NoInode}] /\ NoInode \notin Bytes
        /\ \A w \in Worker : op[w].addr \in Bytes
    BY <1>2, CasAssumption, Typed DEF Exclusive, AnyUse, TypeOK, TypeFacts
  <2>1. /\ Stored = [a \in Bytes |-> IF objects[a] # NoInode THEN a ELSE NoInode]
        /\ Stored' = [a \in Bytes |-> IF objects'[a] # NoInode THEN a ELSE NoInode]
    BY <1>2 DEF Exclusive, ObjectsIntact, Stored, Contains
  <2>2. CASE UNCHANGED objects
    BY <2>1, <2>2
  <2>3. ASSUME NEW w \in Worker, GcRemove(w) PROVE [Blob!Next]_Stored
    <3>1. PICK a \in Bytes :
             objects[a] # NoInode /\ objects' = [objects EXCEPT ![a] = NoInode]
      BY <2>3 DEF GcRemove, Contains
    <3>2. Blob!Collect(a)
      BY <2>0, <2>1, <3>1 DEF Blob!Collect
    <3> QED BY <3>2 DEF Blob!Next
  <2>4. ASSUME NEW w \in Worker, CommitRename(w) PROVE [Blob!Next]_Stored
    <3>1. /\ objects' = [objects EXCEPT ![op[w].addr] = op[w].fd] /\ op[w].addr \in Bytes
          /\ op[w].fd \in Inode /\ NoInode \notin Inode
      BY <1>2, <2>0, <2>4, CasAssumption DEF CommitRename, Exclusive, AnyUse, Stages, WriterPc,
                                             CasAssumption
    <3>2. CASE objects[op[w].addr] = NoInode
      <4>1. Blob!Insert(op[w].addr)
        BY <2>0, <2>1, <3>1, <3>2 DEF Blob!Insert
      <4> QED BY <3>1, <4>1 DEF Blob!Next
    <3>3. CASE objects[op[w].addr] # NoInode
      BY <2>0, <2>1, <3>1, <3>3
    <3> QED BY <3>2, <3>3
  <2> QED BY <1>2, <2>2, <2>3, <2>4, ObjectsMoved
<1> QED BY <1>1, <1>2, ExclusiveHolds, PTL DEF Spec, ImplementsBlobStore, Blob!Spec

------------------------------------------------------------------------------
(* Permissions.  They hold however the store is used, if the daemon does not *)
(* die between the rename of an object and its sealing.                      *)

\* A worker about to seal an object goes on by sealing it.
LEMMA SealingStays ==
    ASSUME Crashes = FALSE, op \in [Worker -> Op], [Next]_vars,
           NEW w \in Worker, op[w].pc = "sealing"
    PROVE  CommitSeal(w) \/ op'[w] = op[w]
<1>1. ASSUME NEW v \in Worker, WriterNew(v) PROVE op'[w] = op[w]
  BY <1>1 DEF WriterNew
<1>2. ASSUME NEW v \in Worker, WriterWrite(v) PROVE op'[w] = op[w]
  BY <1>2 DEF WriterWrite
<1>3. ASSUME NEW v \in Worker, WriterDrop(v) PROVE op'[w] = op[w]
  BY <1>3 DEF WriterDrop, Finish, WriterPc
<1>4. ASSUME NEW v \in Worker, CommitSync(v) PROVE op'[w] = op[w]
  BY <1>4 DEF CommitSync, Goto
<1>5. ASSUME NEW v \in Worker, CommitFound(v) PROVE op'[w] = op[w]
  BY <1>5 DEF CommitFound, Finish
<1>6. ASSUME NEW v \in Worker, CommitAbsent(v) PROVE op'[w] = op[w]
  BY <1>6 DEF CommitAbsent, Goto
<1>7. ASSUME NEW v \in Worker, CommitRename(v) PROVE op'[w] = op[w]
  BY <1>7 DEF CommitRename
<1>8. ASSUME NEW v \in Worker, CommitSeal(v) PROVE CommitSeal(w) \/ op'[w] = op[w]
  BY <1>8 DEF CommitSeal, Finish
<1>9. ASSUME NEW v \in Worker, MatBegin(v) PROVE op'[w] = op[w]
  BY <1>9 DEF MatBegin
<1>10. ASSUME NEW v \in Worker, MatUnlink(v) PROVE op'[w] = op[w]
  BY <1>10 DEF MatUnlink, Goto
<1>11. ASSUME NEW v \in Worker, Reflink(v) PROVE op'[w] = op[w]
  BY <1>11 DEF Reflink, Goto
<1>12. ASSUME NEW v \in Worker, ReflinkFails(v) PROVE op'[w] = op[w]
  BY <1>12 DEF ReflinkFails, Goto
<1>13. ASSUME NEW v \in Worker, HardLink(v) PROVE op'[w] = op[w]
  BY <1>13 DEF HardLink, Goto
<1>14. ASSUME NEW v \in Worker, HardLinkFails(v) PROVE op'[w] = op[w]
  BY <1>14 DEF HardLinkFails, Goto
<1>15. ASSUME NEW v \in Worker, CopyOpen(v) PROVE op'[w] = op[w]
  BY <1>15 DEF CopyOpen
<1>16. ASSUME NEW v \in Worker, CopyData(v) PROVE op'[w] = op[w]
  BY <1>16 DEF CopyData
<1>17. ASSUME NEW v \in Worker, CopyFails(v) PROVE op'[w] = op[w]
  BY <1>17 DEF CopyFails, Finish
<1>18. ASSUME NEW v \in Worker, MatChmod(v) PROVE op'[w] = op[w]
  BY <1>18 DEF MatChmod, Finish
<1>19. ASSUME NEW v \in Worker, GcBegin(v) PROVE op'[w] = op[w]
  BY <1>19 DEF GcBegin
<1>20. ASSUME NEW v \in Worker, GcRemove(v) PROVE op'[w] = op[w]
  BY <1>20 DEF GcRemove
<1>21. ASSUME NEW v \in Worker, GcEnd(v) PROVE op'[w] = op[w]
  BY <1>21 DEF GcEnd, Finish
<1>22. ASSUME NEW d \in Dest, Edit(d) \/ Remove(d) PROVE op'[w] = op[w]
  BY <1>22 DEF Edit, Remove
<1>23. ~Crash
  BY DEF Crash
<1>24. CASE UNCHANGED vars
  BY <1>24 DEF vars
<1> QED
  BY <1>1, <1>2, <1>3, <1>4, <1>5, <1>6, <1>7, <1>8, <1>9, <1>10, <1>11, <1>12,
     <1>13, <1>14, <1>15, <1>16, <1>17, <1>18, <1>19, <1>20, <1>21, <1>22, <1>23, <1>24 DEF Next

\* Nothing makes a file writable that an object's path names.
LEMMA ReadOnlyStays ==
    ASSUME CasAssumption, AnyUse, [Next]_vars, NEW a \in Bytes, NEW i \in Inode,
           objects[a] = i, objects'[a] = i, file[i].mode = "ro"
    PROVE  file'[i].mode = "ro"
<1>0. /\ file \in [Inode -> File] /\ i \in InUse' /\ ~Fresh(i) /\ NoInode \notin Inode
      /\ \A j \in Inode : file[j].bytes \in Bytes
      /\ \A d \in PrivateDest : dests[d] # i
  BY DEF AnyUse, TypeOK, InUse, Fresh, PrivateApart, CasAssumption, File
<1> DEFINE Kept == file'[i].mode = "ro"
<1>1. ASSUME NEW w \in Worker, WriterNew(w) PROVE Kept
  BY <1>0, <1>1 DEF WriterNew
<1>2. ASSUME NEW w \in Worker, WriterWrite(w) PROVE Kept
  <2>1. PICK c \in Chunk : file' = [file EXCEPT ![op[w].fd].bytes = Append(file[op[w].fd].bytes, c)]
    BY <1>2 DEF WriterWrite
  <2>2. file[i] \in File
    BY <1>0
  <2> QED BY <1>0, <2>1, <2>2 DEF File
<1>3. ASSUME NEW w \in Worker, WriterDrop(w) PROVE Kept
  BY <1>0, <1>3 DEF WriterDrop, FilesAre
<1>4. ASSUME NEW w \in Worker, CommitSync(w) PROVE Kept
  BY <1>0, <1>4 DEF CommitSync
<1>5. ASSUME NEW w \in Worker, CommitFound(w) PROVE Kept
  BY <1>0, <1>5 DEF CommitFound, FilesAre
<1>6. ASSUME NEW w \in Worker, CommitAbsent(w) PROVE Kept
  BY <1>0, <1>6 DEF CommitAbsent
<1>7. ASSUME NEW w \in Worker, CommitRename(w) PROVE Kept
  BY <1>0, <1>7 DEF CommitRename, FilesAre
<1>8. ASSUME NEW w \in Worker, CommitSeal(w) PROVE Kept
  BY <1>0, <1>8 DEF CommitSeal, File
<1>9. ASSUME NEW w \in Worker, MatBegin(w) PROVE Kept
  BY <1>0, <1>9 DEF MatBegin
<1>10. ASSUME NEW w \in Worker, MatUnlink(w) PROVE Kept
  BY <1>0, <1>10 DEF MatUnlink, FilesAre
<1>11. ASSUME NEW w \in Worker, Reflink(w) PROVE Kept
  <2>1. PICK j \in Inode :
           /\ Fresh(j)
           /\ file' = [file EXCEPT ![j] =
                          [bytes |-> file[objects[op[w].addr]].bytes, mode |-> "rw"]]
    BY <1>11 DEF Reflink
  <2> QED BY <1>0, <2>1
<1>12. ASSUME NEW w \in Worker, ReflinkFails(w) PROVE Kept
  BY <1>0, <1>12 DEF ReflinkFails
<1>13. ASSUME NEW w \in Worker, HardLink(w) PROVE Kept
  BY <1>0, <1>13 DEF HardLink
<1>14. ASSUME NEW w \in Worker, HardLinkFails(w) PROVE Kept
  BY <1>0, <1>14 DEF HardLinkFails
<1>15. ASSUME NEW w \in Worker, CopyOpen(w) PROVE Kept
  <2>1. PICK j \in Inode :
           /\ Fresh(j) \/ file[j].mode = "rw"
           /\ file' = [file EXCEPT ![j] =
                          [bytes |-> <<>>, mode |-> file[objects[op[w].addr]].mode]]
    BY <1>15 DEF CopyOpen
  <2> QED BY <1>0, <2>1
<1>16. ASSUME NEW w \in Worker, CopyData(w) PROVE Kept
  BY <1>0, <1>16 DEF CopyData, FilesAre, File
<1>17. ASSUME NEW w \in Worker, CopyFails(w) PROVE Kept
  <2>1. CASE op[w].pc = "copy"
    BY <1>0, <1>17, <2>1 DEF CopyFails, FilesAre
  <2>2. CASE op[w].pc = "copying"
    <3>1. PICK k \in 0..Len(file[op[w].src].bytes) :
             FilesAre([file EXCEPT ![op[w].fd].bytes = SubSeq(file[op[w].src].bytes, 1, k)])
      BY <1>17, <2>2 DEF CopyFails
    <3> QED BY <1>0, <3>1 DEF FilesAre, File
  <2> QED BY <1>17, <2>1, <2>2 DEF CopyFails
<1>18. ASSUME NEW w \in Worker, MatChmod(w) PROVE Kept
  <2>1. op[w].dest \in SharedDest \cup PrivateDest
    BY <1>18 DEF MatChmod, AnyUse, Stages, MatPc, Dest
  <2> DEFINE mode == IF op[w].dest \in SharedDest THEN "ro" ELSE "rw"
  <2>2. dests[op[w].dest] = i => mode = "ro"
    BY <1>0, <2>1
  <2>3. file' = file \/ file' = [file EXCEPT ![dests[op[w].dest]].mode = mode]
    BY <1>18 DEF MatChmod
  <2> HIDE DEF mode
  <2> QED BY <1>0, <2>2, <2>3 DEF File
<1>19. ASSUME NEW w \in Worker, GcBegin(w) PROVE Kept
  BY <1>0, <1>19 DEF GcBegin
<1>20. ASSUME NEW w \in Worker, GcRemove(w) PROVE Kept
  BY <1>0, <1>20 DEF GcRemove, FilesAre
<1>21. ASSUME NEW w \in Worker, GcEnd(w) PROVE Kept
  BY <1>0, <1>21 DEF GcEnd
<1>22. ASSUME NEW d \in Dest, Edit(d) PROVE Kept
  <2>1. PICK b \in Bytes : file' = [file EXCEPT ![dests[d]].bytes = b]
    BY <1>22 DEF Edit
  <2> QED BY <1>0, <2>1 DEF File
<1>23. ASSUME NEW d \in Dest, Remove(d) PROVE Kept
  BY <1>0, <1>23 DEF Remove, FilesAre
<1>24. CASE Crash
  BY <1>0, <1>24 DEF Crash, FilesAre
<1>25. CASE UNCHANGED vars
  BY <1>0, <1>25 DEF vars
<1> QED
  BY <1>1, <1>2, <1>3, <1>4, <1>5, <1>6, <1>7, <1>8, <1>9, <1>10, <1>11, <1>12,
     <1>13, <1>14, <1>15, <1>16, <1>17, <1>18, <1>19, <1>20, <1>21, <1>22, <1>23, <1>24, <1>25 DEF Next

LEMMA SealedStep ==
    ASSUME CasAssumption, Crashes = FALSE, AnyUse, ObjectsSealed, [Next]_vars
    PROVE  ObjectsSealed'
<1> USE DEF Contains
<1>0. /\ op \in [Worker -> Op] /\ objects \in [Bytes -> Inode \cup {NoInode}]
      /\ file \in [Inode -> File] /\ NoInode \notin Inode
      /\ \A w \in Worker : op[w].addr \in Bytes
  BY Typed DEF AnyUse, TypeOK, TypeFacts
<1> DEFINE Sealed(a) == \/ file'[objects'[a]].mode = "ro"
                        \/ \E w \in Worker : op'[w].pc = "sealing" /\ op'[w].addr = a
<1>1. ASSUME NEW a \in Bytes, objects'[a] = objects[a], objects'[a] # NoInode
      PROVE  Sealed(a)
  <2>1. objects[a] \in Inode
    BY <1>0, <1>1
  <2>2. CASE file[objects[a]].mode = "ro"
    BY <1>1, <2>1, <2>2, ReadOnlyStays
  <2>3. ASSUME NEW w \in Worker, op[w].pc = "sealing", op[w].addr = a PROVE Sealed(a)
    <3>1. CASE op'[w] = op[w]
      BY <2>3, <3>1
    <3>2. CASE CommitSeal(w)
      <4>1. file' = [file EXCEPT ![objects[a]].mode = "ro"]
        BY <1>1, <2>3, <3>2 DEF CommitSeal
      <4>2. file'[objects[a]].mode = "ro"
        BY <1>0, <2>1, <4>1 DEF File
      <4> QED BY <1>1, <4>2
    <3> QED BY <1>0, <2>3, <3>1, <3>2, SealingStays
  <2> QED BY <1>1, <2>2, <2>3 DEF ObjectsSealed
<1>2. ASSUME NEW w \in Worker, CommitRename(w), NEW a \in Bytes, objects'[a] # NoInode
      PROVE  Sealed(a)
  <2>1. CASE a = op[w].addr
    <3> DEFINE n == [op[w] EXCEPT !.pc = "sealing", !.fd = NoInode]
    <3>1. op'[w] = n
      BY <1>0, <1>2 DEF CommitRename
    <3>2. n.pc = "sealing" /\ n.addr = a
      BY <1>0, <2>1 DEF Op
    <3> QED BY <3>1, <3>2
  <2>2. CASE a # op[w].addr
    <3>1. objects'[a] = objects[a]
      BY <1>0, <1>2, <2>2 DEF CommitRename
    <3> QED BY <1>1, <1>2, <3>1
  <2> QED BY <2>1, <2>2
<1>3. ASSUME NEW w \in Worker, GcRemove(w), NEW a \in Bytes, objects'[a] # NoInode
      PROVE  objects'[a] = objects[a]
  BY <1>0, <1>3 DEF GcRemove
<1>4. \A a \in Bytes : objects'[a] # NoInode => Sealed(a)
  BY <1>1, <1>2, <1>3, ObjectsMoved
<1> QED BY <1>4 DEF ObjectsSealed

\* An object is read only as soon as nobody is about to seal it, whatever overlaps and
\* even if files placed for sharing are edited: Store::place and its set_permissions
\* make no object writable again.  The daemon's death before the sealing would.
THEOREM ObjectsStaySealed == ASSUME Crashes = FALSE PROVE Spec => []ObjectsSealed
<1>0. CasAssumption
  BY CasAssumption
<1>1. Init => ObjectsSealed
  BY <1>0 DEF Init, ObjectsSealed, Contains
<1>2. AnyUse /\ ObjectsSealed /\ [Next]_vars => ObjectsSealed'
  BY <1>0, SealedStep
<1> QED BY <1>1, <1>2, AnyUseHolds, PTL DEF Spec

==============================================================================
