---------------------------- MODULE DownloadProofs ----------------------------
(***************************************************************************)
(* What holds of downloads.  Of a fetch of one file (FileFetch): for every *)
(* size, number of attempts and response, and any number of calls for the  *)
(* path, when one at a time downloads.  Of the Java provisioner, which     *)
(* fetches the files of a runtime side by side (Java): its types, what its *)
(* marker vouches for, and, with honest servers, what is in the files it   *)
(* took by their size: for any files, any number of listings, and any      *)
(* failures.                                                               *)
(***************************************************************************)
EXTENDS FileFetch, Java, FiniteSetTheorems, SequenceTheorems, TLAPS

------------------------------------------------------------------------------
(* The fetch of a file *)

\* The calls share one permit, or there is only one.
TakingTurns == Permits = 1 \/ \A s, t \in Task : s = t

\* What the steps below use of the types.
TypeFacts ==
    /\ Size \in Nat \ {0} /\ FetchAttempts \in Nat \ {0} /\ MaxBody \in Nat \ {0} /\ Size <= MaxBody
    /\ file \in Seq(Byte) /\ Len(file) \in Nat
    /\ task \in [Task -> TaskState] /\ honestServers \in BOOLEAN
    /\ \A t \in Task :
        /\ task[t].attempt \in 1..FetchAttempts /\ task[t].resume \in 0..Size - 1
        /\ task[t].pos \in 0..MaxBody /\ task[t].seen \in Seq(Byte)
        /\ task[t].pc \in FetchPc /\ task[t].append \in BOOLEAN
    /\ Start \in TaskState

LEMMA Typed == ASSUME FetchTypeOK PROVE TypeFacts
<1>1. /\ Size \in Nat \ {0} /\ FetchAttempts \in Nat \ {0} /\ MaxBody \in Nat \ {0} /\ Size <= MaxBody
  BY FetchAssumption
<1>2. /\ file \in Seq(Byte) /\ Len(file) \in Nat /\ task \in [Task -> TaskState]
      /\ honestServers \in BOOLEAN
  BY DEF FetchTypeOK
<1>3. \A t \in Task :
        /\ task[t].attempt \in 1..FetchAttempts /\ task[t].resume \in 0..Size - 1
        /\ task[t].pos \in 0..MaxBody /\ task[t].seen \in Seq(Byte)
        /\ task[t].pc \in FetchPc /\ task[t].append \in BOOLEAN
  BY <1>2 DEF TaskState
<1>4. Start \in TaskState
  <2>1. <<>> \in Seq(Byte)
    BY EmptySeq
  <2> QED BY <1>1, <2>1 DEF Start, TaskState, FetchPc
<1> QED BY <1>1, <1>2, <1>3, <1>4 DEF TypeFacts

\* Writing a byte anywhere gives a file; writing it at the end appends it.
LEMMA WriteAtFacts ==
    ASSUME NEW f \in Seq(Byte), NEW c \in Nat, NEW b \in Byte, MaxBody \in Nat
    PROVE  /\ WriteAt(f, c, b) \in Seq(Byte)
           /\ c = Len(f) => WriteAt(f, c, b) = Append(f, b)
<1> DEFINE n == IF c < Len(f) THEN Len(f) ELSE c + 1
<1>1. n \in Nat /\ Len(f) \in Nat /\ 0 \in Byte
  BY DEF Byte
<1>2. \A k \in 1..n : (IF k = c + 1 THEN b ELSE IF k <= Len(f) THEN f[k] ELSE 0) \in Byte
  BY <1>1, ElementOfSeq
<1>3. WriteAt(f, c, b) \in [1..n -> Byte]
  BY <1>2 DEF WriteAt
<1>4. WriteAt(f, c, b) \in Seq(Byte)
  BY <1>1, <1>3, SeqDef
<1>5. ASSUME c = Len(f) PROVE WriteAt(f, c, b) = Append(f, b)
  <2>1. Append(f, b) \in Seq(Byte) /\ Len(Append(f, b)) = Len(f) + 1
    BY AppendProperties
  <2>2. Len(WriteAt(f, c, b)) = Len(f) + 1
    BY <1>1, <1>3, <1>4, <1>5, LenProperties
  <2>3. \A k \in 1..Len(f) + 1 : WriteAt(f, c, b)[k] = Append(f, b)[k]
    BY <1>1, <1>5, AppendProperties DEF WriteAt
  <2> QED BY <1>4, <2>1, <2>2, <2>3, SeqEqual
<1> QED BY <1>4, <1>5

\* The changes the actions make to a call's state keep its type.
LEMMA RecordTyped ==
    ASSUME NEW r \in TaskState
    PROVE  /\ \A pc \in FetchPc : [r EXCEPT !.pc = pc] \in TaskState
           /\ \A pc \in FetchPc, a \in 1..FetchAttempts :
                [r EXCEPT !.pc = pc, !.attempt = a] \in TaskState
           /\ \A pc \in FetchPc, n \in 0..Size - 1 :
                [r EXCEPT !.pc = pc, !.resume = n] \in TaskState
           /\ \A pos \in 0..MaxBody, seen \in Seq(Byte) :
                [r EXCEPT !.pos = pos, !.seen = seen] \in TaskState
           /\ \A pc \in FetchPc, b \in BOOLEAN, pos \in 0..MaxBody, seen \in Seq(Byte) :
                [r EXCEPT !.pc = pc, !.append = b, !.pos = pos, !.seen = seen] \in TaskState
BY DEF TaskState

------------------------------------------------------------------------------
(* Types, for any number of calls *)

LEMMA TypeStep ==
    ASSUME FetchTypeOK, [FetchNext]_fetchVars
    PROVE  FetchTypeOK'
<1> USE DEF FetchTypeOK
<1>0. TypeFacts /\ FetchTypeOK
  BY Typed
<1> USE DEF TypeFacts
<1>1. ASSUME NEW t \in Task, Reuse(t) PROVE FetchTypeOK'
  BY <1>0, <1>1 DEF Reuse, ReturnFrom, TaskState, Start
<1>2. ASSUME NEW t \in Task, Begin(t) PROVE FetchTypeOK'
  <2> DEFINE r == [Start EXCEPT !.pc = "acquire"]
  <2>1. Start \in TaskState /\ "acquire" \in FetchPc
    BY <1>0, Typed DEF TaskState, Start, FetchPc
  <2>2. r \in TaskState
    BY <2>1, RecordTyped
  <2>3. task' = [task EXCEPT ![t] = r] /\ file' = file /\ honestServers' = honestServers
    BY <1>2 DEF Begin
  <2> HIDE DEF r
  <2> QED BY <1>0, <2>2, <2>3
<1>3. ASSUME NEW t \in Task, Acquire(t) PROVE FetchTypeOK'
  BY <1>0, <1>3 DEF Acquire, FetchGoto, TaskState, FetchPc
<1>4. ASSUME NEW t \in Task, Stat(t) PROVE FetchTypeOK'
  <2> DEFINE n == IF Len(file) < Size THEN Len(file) ELSE 0
  <2>1. n \in 0..Size - 1 /\ "send" \in FetchPc
    BY <1>0 DEF FetchPc
  <2>2. [task[t] EXCEPT !.pc = "send", !.resume = n] \in TaskState
    BY <1>0, <2>1, RecordTyped
  <2> QED BY <1>0, <1>4, <2>2 DEF Stat
<1>5. ASSUME NEW t \in Task, FetchRespond(t) PROVE FetchTypeOK'
  <2>1. \A pc \in FetchPc : [task[t] EXCEPT !.pc = pc] \in TaskState
    BY <1>0, RecordTyped
  <2> QED BY <1>0, <1>5, <2>1 DEF FetchRespond, FetchGoto, FetchPc
<1>6. ASSUME NEW t \in Task, Truncate(t) PROVE FetchTypeOK'
  <2>1. "body" \in FetchPc /\ 0 \in 0..MaxBody /\ <<>> \in Seq(Byte)
    BY <1>0, EmptySeq DEF FetchPc
  <2>2. [task[t] EXCEPT !.pc = "body", !.append = FALSE, !.pos = 0, !.seen = <<>>]
          \in TaskState
    BY <1>0, <2>1, RecordTyped
  <2> QED BY <1>0, <1>6, <2>1, <2>2 DEF Truncate
<1>7. ASSUME NEW t \in Task, Seed(t) PROVE FetchTypeOK'
  <2> DEFINE seen == IF Len(file) < task[t].resume THEN file
                     ELSE SubSeq(file, 1, task[t].resume)
  <2>1. seen \in Seq(Byte)
    <3>1. \A i \in 1..task[t].resume : Len(file) >= task[t].resume => file[i] \in Byte
      BY <1>0, ElementOfSeq
    <3> QED BY <1>0, <3>1, SubSeqProperties
  <2>2. "body" \in FetchPc /\ task[t].resume \in 0..MaxBody
    BY <1>0 DEF FetchPc
  <2>3. [task[t] EXCEPT !.pc = "body", !.append = TRUE, !.pos = task[t].resume, !.seen = seen]
          \in TaskState
    BY <1>0, <2>1, <2>2, RecordTyped
  <2> QED BY <1>0, <1>7, <2>3 DEF Seed
<1>8. ASSUME NEW t \in Task, ReceiveChunk(t) PROVE FetchTypeOK'
  <2>1. PICK b \in {task[t].pos + 1, 0} :
           /\ file' = IF task[t].append THEN Append(file, b)
                      ELSE WriteAt(file, task[t].pos, b)
           /\ task' = [task EXCEPT ![t] = [@ EXCEPT !.pos = task[t].pos + 1,
                                                   !.seen = Append(task[t].seen, b)]]
    BY <1>8 DEF ReceiveChunk
  <2>2. b \in Byte /\ task[t].pos + 1 \in 0..MaxBody /\ task[t].pos \in Nat
    BY <1>0, <1>8 DEF ReceiveChunk, Byte
  <2>3. Append(file, b) \in Seq(Byte) /\ Append(task[t].seen, b) \in Seq(Byte)
    BY <1>0, <2>2, AppendProperties
  <2>4. WriteAt(file, task[t].pos, b) \in Seq(Byte)
    BY <1>0, <2>2, WriteAtFacts
  <2>5. file' \in Seq(Byte)
    BY <2>1, <2>3, <2>4
  <2> DEFINE r == [task[t] EXCEPT !.pos = task[t].pos + 1, !.seen = Append(task[t].seen, b)]
  <2>6. r \in TaskState
    BY <1>0, <2>2, <2>3, RecordTyped
  <2>7. task' = [task EXCEPT ![t] = r] /\ honestServers' = honestServers
    BY <1>8, <2>1 DEF ReceiveChunk
  <2> HIDE DEF r
  <2> QED BY <1>0, <2>5, <2>6, <2>7
<1>9. ASSUME NEW t \in Task, FinishAttempt(t) PROVE FetchTypeOK'
  BY <1>0, <1>9 DEF FinishAttempt, ReturnFrom, TaskState, Start
<1>10. ASSUME NEW t \in Task, RetryAttempt(t) PROVE FetchTypeOK'
  <2>1. CASE task[t].attempt < FetchAttempts
    <3>1. "backoff" \in FetchPc /\ task[t].attempt + 1 \in 1..FetchAttempts
      BY <1>0, <2>1 DEF FetchPc
    <3> DEFINE r == [task[t] EXCEPT !.pc = "backoff", !.attempt = task[t].attempt + 1]
    <3>2. r \in TaskState
      BY <1>0, <3>1, RecordTyped
    <3>3. task' = [task EXCEPT ![t] = r] /\ file' = file /\ honestServers' = honestServers
      BY <1>10, <2>1 DEF RetryAttempt
    <3> HIDE DEF r
    <3> QED BY <1>0, <3>2, <3>3
  <2>2. CASE ~(task[t].attempt < FetchAttempts)
    <3> DEFINE r == [Start EXCEPT !.result = "failed"]
    <3>1. r \in TaskState
      <4>1. Start \in TaskState
        BY <1>0
      <4> QED BY <4>1 DEF TaskState
    <3>2. task' = [task EXCEPT ![t] = r] /\ file' = file /\ honestServers' = honestServers
      BY <1>10, <2>2 DEF RetryAttempt, ReturnFrom
    <3> HIDE DEF r
    <3> QED BY <1>0, <3>1, <3>2
  <2> QED BY <2>1, <2>2
<1>11. ASSUME NEW t \in Task, Backoff(t) PROVE FetchTypeOK'
  <2>1. [task[t] EXCEPT !.pc = "acquire"] \in TaskState
    BY <1>0, RecordTyped DEF FetchPc
  <2> QED BY <1>0, <1>11, <2>1 DEF Backoff, FetchGoto
<1>12. ASSUME NEW t \in Task, FailAttempt(t) PROVE FetchTypeOK'
  BY <1>0, <1>12 DEF FailAttempt, ReturnFrom, TaskState, Start
<1>13. CASE FetchCrash
  BY <1>0, <1>13 DEF FetchCrash
<1>14. CASE UNCHANGED fetchVars
  BY <1>0, <1>14 DEF fetchVars
<1> QED BY <1>1, <1>2, <1>3, <1>4, <1>5, <1>6, <1>7, <1>8, <1>9, <1>10, <1>11, <1>12,
           <1>13, <1>14 DEF FetchNext, FetchStep

\* Every fetch keeps its types, whoever else writes the file.
THEOREM FetchTypes == FetchSpec => []FetchTypeOK
<1>1. FetchInit => FetchTypeOK
  <2>1. <<>> \in Seq(Byte)
    BY EmptySeq
  <2> QED BY FetchAssumption, <2>1 DEF FetchInit, FetchTypeOK, Start, TaskState, FetchPc
<1>2. FetchTypeOK /\ [FetchNext]_fetchVars => FetchTypeOK'
  BY TypeStep
<1> QED BY <1>1, <1>2, PTL DEF FetchSpec

------------------------------------------------------------------------------
(* What is digested is what is on disk *)

\* A call at work sees the file as it left it: the length it asked to resume from
\* is still the file's length, and the response is at that place too.
Exact(t) ==
    /\ task[t].pc \in {"send", "seed"} /\ task[t].resume > 0 => task[t].resume = Len(file)
    /\ task[t].pc = "seed" => task[t].resume > 0
    /\ task[t].result # "none" => task[t].pc = "idle"
    /\ task[t].pc = "body" => task[t].seen = file /\ task[t].pos = Len(file)

Digested ==
    /\ \A s, t \in Holding : s = t
    /\ \A t \in Task : Exact(t)

\* A permit is only given when nobody else is at work.
LEMMA AcquiresAlone ==
    ASSUME TakingTurns, NEW t \in Task, Acquire(t)
    PROVE  \A s \in Holding : s = t
<1>1. CASE Permits = 1
  <2>1. IsFiniteSet(Holding)
    <3>1. IsFiniteSet(Task)
      BY FetchAssumption DEF IsFiniteSet
    <3> QED BY <3>1, FS_Subset DEF Holding
  <2>2. Cardinality(Holding) \in Nat /\ Cardinality(Holding) < 1
    <3>1. Cardinality(Holding) = Cardinality(Holding)
      BY DEF Cardinality, Cardinality
    <3>2. Cardinality(Holding) < Permits
      BY DEF Acquire
    <3> QED BY <1>1, <2>1, <3>1, <3>2, FS_CardinalityType
  <2>3. Cardinality(Holding) = 0
    BY <2>2
  <2>4. Holding = {}
    BY <2>1, <2>3, FS_EmptySet
  <2> QED BY <2>4
<1>2. CASE \A u, v \in Task : u = v
  BY <1>2 DEF Holding
<1> QED BY <1>1, <1>2 DEF TakingTurns

\* A step of one call leaves the others as they were, and takes or keeps the permit
\* only if nobody else has it; the file changes only in the hands of its holder.
LEMMA StepOfOne ==
    ASSUME Digested, NEW t \in Task,
           \A s \in Task : s # t => task'[s] = task[s],
           t \in Holding \/
             (file' = file /\ (t \in Holding' => \A s \in Holding : s = t)),
           Exact(t)'
    PROVE  Digested'
<1>1. \A s \in Task : s # t /\ s \in Holding' => s \in Holding
  BY DEF Holding
<1>2. \A s, u \in Holding' : s = u
  <2>1. \A s \in Holding' : s \in Task
    BY DEF Holding
  <2>2. \A s, u \in Holding : s = u
    BY DEF Digested
  <2> QED BY <1>1, <2>1, <2>2
<1>3. ASSUME NEW s \in Task, s # t PROVE Exact(s)'
  <2>1. task'[s] = task[s] /\ Exact(s)
    BY <1>3 DEF Digested
  <2>2. CASE file' = file
    BY <2>1, <2>2 DEF Exact
  <2>3. CASE t \in Holding
    <3>1. s \notin Holding
      BY <1>3, <2>3 DEF Digested
    <3> QED BY <2>1, <3>1 DEF Exact, Holding
  <2> QED BY <2>2, <2>3
<1> QED BY <1>2, <1>3 DEF Digested

\* What the body of a response does to the file, whichever way it was opened.
LEMMA ChunkAppends ==
    ASSUME FetchTypeOK, Digested, NEW t \in Task, ReceiveChunk(t)
    PROVE  \E b \in {task[t].pos + 1, 0} :
             /\ honestServers => b = Len(file) + 1 /\ Len(file) < Size
             /\ file' = Append(file, b) /\ Len(file') = Len(file) + 1
             /\ b \in Byte
             /\ \A s \in Task : s # t => task'[s] = task[s]
             /\ task'[t].pc = "body" /\ task'[t].result = task[t].result
             /\ task'[t].seen = file' /\ task'[t].pos = Len(file')
<1>0. TypeFacts /\ task \in [Task -> TaskState]
  BY Typed DEF FetchTypeOK
<1>1. PICK b \in {task[t].pos + 1, 0} :
         /\ honestServers => b # 0 /\ task[t].pos < Size
         /\ file' = IF task[t].append THEN Append(file, b)
                    ELSE WriteAt(file, task[t].pos, b)
         /\ task' = [task EXCEPT ![t] = [@ EXCEPT !.pos = task[t].pos + 1,
                                                   !.seen = Append(task[t].seen, b)]]
  BY DEF ReceiveChunk
<1>2. task[t].pc = "body" /\ task[t].seen = file /\ task[t].pos = Len(file)
  BY DEF ReceiveChunk, Digested, Exact
<1>3. b \in Byte /\ task[t].pos \in Nat /\ MaxBody \in Nat /\ file \in Seq(Byte)
  BY <1>0 DEF ReceiveChunk, Byte, TypeFacts
<1>4. file' = Append(file, b)
  BY <1>1, <1>2, <1>3, WriteAtFacts
<1>5. Len(file') = Len(file) + 1
  BY <1>3, <1>4, AppendProperties
<1>6. /\ \A s \in Task : s # t => task'[s] = task[s]
      /\ task'[t].pc = task[t].pc /\ task'[t].result = task[t].result
      /\ task'[t].seen = Append(task[t].seen, b) /\ task'[t].pos = task[t].pos + 1
  BY <1>0, <1>1 DEF TaskState
<1> QED BY <1>1, <1>2, <1>3, <1>4, <1>5, <1>6

LEMMA DigestedStep ==
    ASSUME TakingTurns, FetchTypeOK, Digested,
           [FetchNext]_fetchVars
    PROVE  Digested'
<1>0. /\ TypeFacts /\ FetchTypeOK /\ task \in [Task -> TaskState] /\ Digested
      /\ file \in Seq(Byte) /\ Len(file) \in Nat /\ Size \in Nat
      /\ \A t \in Task : Exact(t) /\ task[t].resume \in 0..Size - 1
  BY Typed DEF FetchTypeOK, TypeFacts, Digested
\* Whoever returns holds nothing.
<1>r. ASSUME NEW t \in Task, NEW result, ReturnFrom(t, result), file' = file PROVE Digested'
  <2>1. task'[t].pc = "idle" /\ \A s \in Task : s # t => task'[s] = task[s]
    BY <1>0, <1>r DEF ReturnFrom, Start
  <2>2. t \notin Holding' /\ Exact(t)'
    BY <2>1 DEF Exact, Holding
  <2> QED BY <1>0, <1>r, <2>1, <2>2, StepOfOne
\* Nor does one that goes to wait, which knows nothing of the file.
<1>w. ASSUME NEW t \in Task, task'[t].pc \in {"acquire", "backoff"}, task'[t].result = "none",
             file' = file, \A s \in Task : s # t => task'[s] = task[s]
      PROVE  Digested'
  <2>1. t \notin Holding' /\ Exact(t)'
    BY <1>w DEF Exact, Holding
  <2> QED BY <1>0, <1>w, <2>1, StepOfOne
<1>1. ASSUME NEW t \in Task, Reuse(t) PROVE Digested'
  BY <1>1, <1>r DEF Reuse
<1>2. ASSUME NEW t \in Task, Begin(t) PROVE Digested'
  <2>1. /\ task'[t].pc = "acquire" /\ task'[t].result = "none" /\ file' = file
        /\ \A s \in Task : s # t => task'[s] = task[s]
    BY <1>0, <1>2 DEF Begin, Start
  <2> QED BY <1>w, <2>1
<1>3. ASSUME NEW t \in Task, Acquire(t) PROVE Digested'
  <2>1. /\ task'[t].pc = "stat" /\ task'[t].result = task[t].result /\ file' = file
        /\ task[t].pc = "acquire" /\ \A s \in Task : s # t => task'[s] = task[s]
    BY <1>0, <1>3 DEF Acquire, FetchGoto, TaskState
  <2>2. Exact(t)'
    BY <1>0, <2>1 DEF Exact
  <2>3. \A s \in Holding : s = t
    BY <1>0, <1>3, AcquiresAlone
  <2> QED BY <1>0, <2>1, <2>2, <2>3, StepOfOne
<1>4. ASSUME NEW t \in Task, Stat(t) PROVE Digested'
  <2>1. /\ task'[t].pc = "send" /\ file' = file /\ task'[t].result = task[t].result
        /\ task'[t].resume = (IF Len(file) < Size THEN Len(file) ELSE 0)
        /\ task[t].pc = "stat" /\ \A s \in Task : s # t => task'[s] = task[s]
    BY <1>0, <1>4 DEF Stat, TaskState
  <2>2. Exact(t)' /\ t \in Holding
    BY <1>0, <2>1 DEF Exact, Holding
  <2> QED BY <1>0, <2>1, <2>2, StepOfOne
<1>5. ASSUME NEW t \in Task, FetchRespond(t) PROVE Digested'
  <2>1. PICK partial \in BOOLEAN :
           FetchGoto(t, IF partial /\ task[t].resume > 0 THEN "seed" ELSE "truncate")
    BY <1>5 DEF FetchRespond
  <2>2. /\ task'[t].pc = (IF partial /\ task[t].resume > 0 THEN "seed" ELSE "truncate")
        /\ task'[t].resume = task[t].resume /\ task'[t].result = task[t].result
        /\ file' = file /\ task[t].pc = "send" /\ \A s \in Task : s # t => task'[s] = task[s]
    BY <1>0, <1>5, <2>1 DEF FetchRespond, FetchGoto, TaskState
  <2>3. Exact(t)' /\ t \in Holding
    BY <1>0, <2>2 DEF Exact, Holding
  <2> QED BY <1>0, <2>2, <2>3, StepOfOne
<1>6. ASSUME NEW t \in Task, Truncate(t) PROVE Digested'
  <2>1. /\ task'[t].pc = "body" /\ file' = <<>> /\ task'[t].seen = <<>> /\ task'[t].pos = 0
        /\ task'[t].result = task[t].result /\ task[t].pc = "truncate"
        /\ \A s \in Task : s # t => task'[s] = task[s]
    BY <1>0, <1>6 DEF Truncate, TaskState
  <2>2. Len(<<>>) = 0
    BY EmptySeq
  <2>3. Exact(t)' /\ t \in Holding
    BY <1>0, <2>1, <2>2 DEF Exact, Holding
  <2> QED BY <1>0, <2>1, <2>3, StepOfOne
<1>7. ASSUME NEW t \in Task, Seed(t) PROVE Digested'
  <2>1. task[t].resume = Len(file)
    BY <1>0, <1>7 DEF Seed, Exact
  <2>2. SubSeq(file, 1, Len(file)) = file
    BY <1>0
  <2>3. /\ task'[t].pc = "body" /\ file' = file /\ task'[t].seen = file
        /\ task'[t].pos = Len(file) /\ task'[t].result = task[t].result
        /\ task[t].pc = "seed" /\ \A s \in Task : s # t => task'[s] = task[s]
    BY <1>0, <1>7, <2>1, <2>2 DEF Seed, TaskState
  <2>4. Exact(t)' /\ t \in Holding
    BY <1>0, <2>3 DEF Exact, Holding
  <2> QED BY <1>0, <2>3, <2>4, StepOfOne
<1>8. ASSUME NEW t \in Task, ReceiveChunk(t) PROVE Digested'
  <2>1. /\ task'[t].pc = "body" /\ task'[t].seen = file' /\ task'[t].pos = Len(file')
        /\ task'[t].result = task[t].result /\ \A s \in Task : s # t => task'[s] = task[s]
    BY <1>8, <1>0, ChunkAppends
  <2>2. task[t].pc = "body"
    BY <1>8 DEF ReceiveChunk
  <2>3. Exact(t)' /\ t \in Holding
    BY <1>0, <2>1, <2>2 DEF Exact, Holding
  <2> QED BY <1>0, <2>1, <2>3, StepOfOne
<1>9. ASSUME NEW t \in Task, FinishAttempt(t) PROVE Digested'
  BY <1>9, <1>r DEF FinishAttempt
<1>10. ASSUME NEW t \in Task, RetryAttempt(t) PROVE Digested'
  <2>1. CASE task[t].attempt < FetchAttempts
    <3> DEFINE r == [task[t] EXCEPT !.pc = "backoff", !.attempt = task[t].attempt + 1]
    <3>1. task[t] \in TaskState /\ task[t].pc \in {"send", "body"} /\ file' = file
      BY <1>0, <1>10 DEF RetryAttempt
    <3>2. task' = [task EXCEPT ![t] = r]
      BY <1>10, <2>1 DEF RetryAttempt
    <3>3. r.pc = "backoff" /\ r.result = task[t].result
      BY <3>1 DEF TaskState
    <3>4. task[t].result = "none"
      BY <1>0, <3>1 DEF Exact
    <3> HIDE DEF r
    <3>5. /\ task'[t].pc = "backoff" /\ task'[t].result = "none"
          /\ \A s \in Task : s # t => task'[s] = task[s]
      BY <1>0, <3>2, <3>3, <3>4
    <3> QED BY <1>w, <3>1, <3>5
  <2>2. CASE ~(task[t].attempt < FetchAttempts)
    BY <1>10, <1>r, <2>2 DEF RetryAttempt
  <2> QED BY <2>1, <2>2
<1>11. ASSUME NEW t \in Task, Backoff(t) PROVE Digested'
  <2>1. /\ task'[t].pc = "acquire" /\ task'[t].result = task[t].result /\ file' = file
        /\ task[t].pc = "backoff" /\ \A s \in Task : s # t => task'[s] = task[s]
    BY <1>0, <1>11 DEF Backoff, FetchGoto, TaskState
  <2>2. task'[t].result = "none"
    BY <1>0, <2>1 DEF Exact
  <2> QED BY <1>w, <2>1, <2>2
<1>12. ASSUME NEW t \in Task, FailAttempt(t) PROVE Digested'
  BY <1>12, <1>r DEF FailAttempt
<1>13. CASE FetchCrash
  <2>1. \A t \in Task : task'[t].pc = "idle"
    BY <1>13 DEF FetchCrash, Start
  <2> QED BY <2>1 DEF Digested, Exact, Holding
<1>14. CASE UNCHANGED fetchVars
  BY <1>0, <1>14 DEF fetchVars, Digested, Exact, Holding
<1> QED BY <1>1, <1>2, <1>3, <1>4, <1>5, <1>6, <1>7, <1>8, <1>9, <1>10, <1>11, <1>12,
           <1>13, <1>14 DEF FetchNext, FetchStep

\* A fetch succeeds by finding the file in place or by verifying a download.
LEMMA SuccessComes ==
    ASSUME FetchTypeOK, [FetchNext]_fetchVars, NEW t \in Task, task'[t].result = "ok"
    PROVE  task[t].result = "ok" \/ Reuse(t) \/ FinishAttempt(t)
<1>0. task \in [Task -> TaskState]
  BY DEF FetchTypeOK
<1>1. CASE FetchCrash \/ UNCHANGED fetchVars
  BY <1>0, <1>1 DEF FetchCrash, Start, fetchVars
<1>2. ASSUME NEW u \in Task, NEW r, task' = [task EXCEPT ![u] = r],
             u = t => r.result = task[t].result \/ r.result # "ok"
      PROVE  task[t].result = "ok"
  BY <1>0, <1>2
<1>3. ASSUME NEW u \in Task, NEW pc, FetchGoto(u, pc) PROVE task[t].result = "ok"
  <2>1. task[u] \in TaskState
    BY <1>0
  <2>2. [task[u] EXCEPT !.pc = pc].result = task[u].result
    BY <2>1 DEF TaskState
  <2>3. task' = [task EXCEPT ![u] = [task[u] EXCEPT !.pc = pc]]
    BY <1>3 DEF FetchGoto
  <2> QED BY <1>2, <2>2, <2>3
<1>4. ASSUME NEW u \in Task, Begin(u) PROVE task[t].result = "ok"
  BY <1>0, <1>4 DEF Begin, Start
<1>5. ASSUME NEW u \in Task, Acquire(u) \/ Backoff(u) \/ FetchRespond(u)
      PROVE  task[t].result = "ok"
  BY <1>3, <1>5 DEF Acquire, Backoff, FetchRespond
<1>6. ASSUME NEW u \in Task, Stat(u) PROVE task[t].result = "ok"
  <2> DEFINE n == IF Len(file) < Size THEN Len(file) ELSE 0
  <2>1. task[u] \in TaskState
    BY <1>0
  <2>2. [task[u] EXCEPT !.pc = "send", !.resume = n].result = task[u].result
    BY <2>1 DEF TaskState
  <2>3. task' = [task EXCEPT ![u] = [task[u] EXCEPT !.pc = "send", !.resume = n]]
    BY <1>6 DEF Stat
  <2> QED BY <1>2, <2>2, <2>3
<1>7. ASSUME NEW u \in Task, NEW b, NEW pos, NEW seen,
             task' = [task EXCEPT ![u] = [task[u] EXCEPT !.pc = "body", !.append = b,
                                                         !.pos = pos, !.seen = seen]]
      PROVE  task[t].result = "ok"
  <2>1. task[u] \in TaskState
    BY <1>0
  <2>2. [task[u] EXCEPT !.pc = "body", !.append = b, !.pos = pos, !.seen = seen].result
          = task[u].result
    BY <2>1 DEF TaskState
  <2> QED BY <1>2, <1>7, <2>2
<1>8. ASSUME NEW u \in Task, Truncate(u) PROVE task[t].result = "ok"
  BY <1>7, <1>8 DEF Truncate
<1>9. ASSUME NEW u \in Task, Seed(u) PROVE task[t].result = "ok"
  BY <1>7, <1>9 DEF Seed
<1>10. ASSUME NEW u \in Task, ReceiveChunk(u) PROVE task[t].result = "ok"
  <2>1. PICK b : task' = [task EXCEPT ![u] = [task[u] EXCEPT !.pos = task[u].pos + 1,
                                                   !.seen = Append(task[u].seen, b)]]
    BY <1>10 DEF ReceiveChunk
  <2>2. task[u] \in TaskState
    BY <1>0
  <2>3. [task[u] EXCEPT !.pos = task[u].pos + 1, !.seen = Append(task[u].seen, b)].result
          = task[u].result
    BY <2>2 DEF TaskState
  <2> QED BY <1>2, <2>1, <2>3
<1>11. ASSUME NEW u \in Task, RetryAttempt(u) PROVE task[t].result = "ok"
  <2>1. CASE task[u].attempt < FetchAttempts
    <3> DEFINE r == [task[u] EXCEPT !.pc = "backoff", !.attempt = task[u].attempt + 1]
    <3>1. task[u] \in TaskState
      BY <1>0
    <3>2. r.result = task[u].result
      BY <3>1 DEF TaskState
    <3>3. task' = [task EXCEPT ![u] = r]
      BY <1>11, <2>1 DEF RetryAttempt
    <3> HIDE DEF r
    <3> QED BY <1>2, <3>2, <3>3
  <2>2. CASE ~(task[u].attempt < FetchAttempts)
    BY <1>0, <1>11, <2>2 DEF RetryAttempt, ReturnFrom, Start
  <2> QED BY <2>1, <2>2
<1>12. ASSUME NEW u \in Task, FailAttempt(u) PROVE task[t].result = "ok"
  BY <1>0, <1>12 DEF FailAttempt, ReturnFrom, Start
<1>13. ASSUME NEW u \in Task, u # t, Reuse(u) \/ FinishAttempt(u) PROVE task[t].result = "ok"
  BY <1>0, <1>13 DEF Reuse, FinishAttempt, ReturnFrom
<1> QED
  BY <1>1, <1>4, <1>5, <1>6, <1>8, <1>9, <1>10, <1>11, <1>12, <1>13 DEF FetchNext, FetchStep

LEMMA DigestedHolds ==
    ASSUME TakingTurns
    PROVE  FetchSpec => [](FetchTypeOK /\ Digested)
<1>1. FetchInit => Digested
  BY DEF FetchInit, Digested, Exact, Holding, Start
<1>2. FetchTypeOK /\ Digested /\ [FetchNext]_fetchVars => Digested'
  BY DigestedStep
<1> QED BY <1>1, <1>2, FetchTypes, PTL DEF FetchSpec

\* The verifier digests exactly the file, resumed or not, whatever servers send.
THEOREM SeenFaithful ==
    ASSUME TakingTurns
    PROVE  FetchSpec => []SeenIsFile
<1>1. Digested => SeenIsFile
  BY DEF Digested, Exact, SeenIsFile
<1> QED BY <1>1, DigestedHolds, PTL

\* So a download that succeeds has put the published file on disk.
THEOREM DownloadSafe ==
    ASSUME TakingTurns
    PROVE  FetchSpec => DownloadVerified
<1>1. ASSUME FetchTypeOK, Digested, [FetchNext]_fetchVars,
             NEW t \in Task, task[t].pc = "body", task'[t].result = "ok"
      PROVE  file' = PublishedFile
  <2>1. FinishAttempt(t)
    BY <1>1, SuccessComes DEF Reuse, Digested, Exact
  <2>2. file' = file /\ task'[t].result = IF Verified(task[t].seen) THEN "ok" ELSE "failed"
    BY <1>1, <2>1 DEF FinishAttempt, ReturnFrom, Start, FetchTypeOK, TaskState
  <2>3. Verified(task[t].seen) /\ task[t].seen = file
    BY <1>1, <2>2 DEF Digested, Exact
  <2> QED BY <2>2, <2>3 DEF Verified
<1>2. FetchTypeOK /\ Digested /\ [FetchNext]_fetchVars =>
        [\A t \in Task :
           (task[t].pc = "body" /\ task'[t].result = "ok") => file' = PublishedFile]_fetchVars
  BY <1>1
<1> QED BY <1>2, DigestedHolds, PTL DEF FetchSpec, DownloadVerified

------------------------------------------------------------------------------
(* With honest servers, interruptions cost nothing *)

LEMMA PublishedFacts ==
    /\ PublishedFile \in Seq(Byte) /\ Len(PublishedFile) = Size
    /\ \A k \in 1..Size : PublishedFile[k] = k
<1>1. Size \in Nat /\ MaxBody \in Nat /\ Size <= MaxBody
  BY FetchAssumption
<1>2. PublishedFile \in [1..Size -> Byte]
  BY <1>1 DEF PublishedFile, Byte
<1>3. PublishedFile \in Seq(Byte)
  BY <1>1, <1>2, SeqDef
<1> QED BY <1>1, <1>2, <1>3, LenProperties DEF PublishedFile

\* Each byte on disk is in its place.  A call that returned success may see the file
\* emptied by another, but that one has not returned success until it is complete.
InPlace ==
    honestServers =>
        /\ Len(file) <= Size
        /\ \A k \in 1..Len(file) : file[k] = k
        /\ (\A t \in Task : task[t].result = "ok") => Len(file) = Size

LEMMA InPlaceMeans ==
    ASSUME FetchTypeOK, InPlace, honestServers
    PROVE  /\ PrefixOfPublished
           /\ Len(file) = Size => file = PublishedFile
<1>1. /\ file \in Seq(Byte) /\ Len(file) \in Nat /\ Size \in Nat /\ Len(file) <= Size
      /\ \A k \in 1..Len(file) : file[k] = k
  BY FetchAssumption DEF FetchTypeOK, InPlace
<1>2. /\ SubSeq(PublishedFile, 1, Len(file)) \in Seq(Byte)
      /\ Len(SubSeq(PublishedFile, 1, Len(file))) = Len(file)
      /\ \A k \in 1..Len(file) : SubSeq(PublishedFile, 1, Len(file))[k] = k
  <2>1. \A k \in 1..Len(file) : PublishedFile[k] \in Byte
    BY <1>1, PublishedFacts, ElementOfSeq
  <2> QED BY <1>1, <2>1, PublishedFacts, SubSeqProperties
<1>3. file = SubSeq(PublishedFile, 1, Len(file))
  BY <1>1, <1>2, SeqEqual
<1>4. ASSUME Len(file) = Size PROVE file = PublishedFile
  BY <1>1, <1>4, PublishedFacts, SeqEqual
<1> QED BY <1>1, <1>3, <1>4 DEF PrefixOfPublished

LEMMA InPlaceStep ==
    ASSUME FetchTypeOK, Digested, InPlace, [FetchNext]_fetchVars
    PROVE  InPlace'
<1>0. /\ file \in Seq(Byte) /\ Len(file) \in Nat /\ Size \in Nat
      /\ task \in [Task -> TaskState] /\ InPlace
  BY FetchAssumption DEF FetchTypeOK
<1> SUFFICES ASSUME honestServers PROVE InPlace'
  <2>1. honestServers' = honestServers
    BY DEF FetchNext, FetchStep, fetchVars, Reuse, Begin, Acquire, Stat,
           FetchRespond, Truncate, Seed, ReceiveChunk, FinishAttempt,
           RetryAttempt, Backoff, FailAttempt, FetchCrash
  <2> QED BY <2>1 DEF InPlace
<1>1. ASSUME NEW t \in Task, ReceiveChunk(t) PROVE InPlace'
  <2>1. PICK b \in {task[t].pos + 1, 0} :
           /\ b = Len(file) + 1 /\ Len(file) < Size
           /\ file' = Append(file, b) /\ Len(file') = Len(file) + 1
           /\ b \in Byte
           /\ task'[t].result = task[t].result
    BY <1>0, <1>1, ChunkAppends
  <2>2. \A k \in 1..Len(file) + 1 : file'[k] = k
    BY <1>0, <2>1, AppendProperties DEF InPlace
  <2>3. task'[t].result # "ok"
    BY <1>1, <2>1 DEF ReceiveChunk, Digested, Exact
  <2> QED BY <1>0, <2>1, <2>2, <2>3 DEF InPlace
<1>2. ASSUME NEW t \in Task, Truncate(t) PROVE InPlace'
  <2>1. file' = <<>> /\ task'[t].result = task[t].result /\ task[t].result # "ok"
    BY <1>0, <1>2 DEF Truncate, TaskState, Digested, Exact
  <2>2. Len(<<>>) = 0
    BY EmptySeq
  <2> QED BY <1>0, <2>1, <2>2 DEF InPlace
<1>3. ASSUME file' = file PROVE InPlace'
  <2>1. ASSUME \A t \in Task : task'[t].result = "ok" PROVE Len(file) = Size
    <3>1. CASE \A t \in Task : task[t].result = "ok"
      BY <1>0, <3>1 DEF InPlace
    <3>2. ASSUME NEW t \in Task, Reuse(t) PROVE Len(file) = Size
      BY <3>2 DEF Reuse, IsPresentWithSize
    <3>3. ASSUME NEW t \in Task, FinishAttempt(t) PROVE Len(file) = Size
      <4>1. task'[t].result = IF Verified(task[t].seen) THEN "ok" ELSE "failed"
        BY <1>0, <3>3 DEF FinishAttempt, ReturnFrom, Start
      <4>2. task[t].seen = file
        BY <3>3 DEF FinishAttempt, Digested, Exact
      <4> QED BY <2>1, <4>1, <4>2, PublishedFacts DEF Verified
    <3> QED BY <2>1, <3>1, <3>2, <3>3, SuccessComes
  <2> QED BY <1>0, <1>3, <2>1 DEF InPlace
<1>4. file' = file \/ \E t \in Task : ReceiveChunk(t) \/ Truncate(t)
  BY DEF FetchNext, FetchStep, fetchVars, Reuse, Begin, Acquire, Stat,
         FetchRespond, Seed, FinishAttempt, RetryAttempt, Backoff,
         FailAttempt, FetchCrash
<1> QED BY <1>1, <1>2, <1>3, <1>4

LEMMA InPlaceHolds ==
    ASSUME TakingTurns
    PROVE  FetchSpec => [](FetchTypeOK /\ Digested /\ InPlace)
<1>1. FetchInit => InPlace
  <2>1. Len(<<>>) = 0 /\ Size \in Nat /\ \E t \in Task : TRUE
    BY EmptySeq, FetchAssumption
  <2> QED BY <2>1 DEF FetchInit, InPlace, Start
<1>2. FetchTypeOK /\ Digested /\ InPlace /\ [FetchNext]_fetchVars => InPlace'
  BY InPlaceStep
<1> QED BY <1>1, <1>2, DigestedHolds, PTL DEF FetchSpec

\* Wherever a download is interrupted, what is on disk is the beginning of the
\* published file.
THEOREM PrefixSafe ==
    ASSUME TakingTurns
    PROVE  FetchSpec => []PrefixOfPublished
<1>1. FetchTypeOK /\ InPlace => PrefixOfPublished
  BY InPlaceMeans DEF PrefixOfPublished
<1> QED BY <1>1, InPlaceHolds, PTL

\* A fetch that succeeds leaves the published file, also when it only looked at
\* the size of what was there.
THEOREM InstallSafe ==
    ASSUME TakingTurns
    PROVE  FetchSpec => []InstalledIfHonest
<1>1. FetchTypeOK /\ InPlace => InstalledIfHonest
  BY InPlaceMeans DEF InPlace, InstalledIfHonest, InstalledVerified
<1> QED BY <1>1, InPlaceHolds, PTL

------------------------------------------------------------------------------
(* The provisioner: what is published *)

LEMMA ListingType == Listing \subseteq Nat /\ \A l \in Listing : l >= 1 /\ \A k \in 1..l : k \in Listing
  BY JavaAssumption DEF Listing

LEMMA ListingNat == ASSUME NEW l \in Listing PROVE l \in Nat
  BY ListingType

LEMMA EntryType ==
  ASSUME NEW l \in Listing, NEW f \in Files(l)
  PROVE  Published[l][f] \in Entry
  BY JavaAssumption DEF Listing, Files

------------------------------------------------------------------------------
(* How a step changes the provision *)

LEMMA IdleType ==
  ASSUME NEW l \in Listing
  PROVE  /\ Idle(l) \in Op /\ Idle(l).pc = "idle" /\ Idle(l).listing = l
         /\ Idle(l).stage = [f \in File |-> "todo"]
  BY JavaAssumption DEF Idle, Op, Pc, Stage

LEMMA GotoType ==
  ASSUME op \in Op, NEW pc \in Pc, Goto(pc)
  PROVE  op' \in Op /\ op'.pc = pc /\ op'.listing = op.listing /\ op'.stage = op.stage
  BY DEF Goto, Op

LEMMA ReturnType ==
  ASSUME op \in Op, NEW result \in {"ok", "error"}, Return(result)
  PROVE  /\ op' \in Op /\ op'.pc = "idle" /\ op'.listing = op.listing
         /\ op'.stage = [f \in File |-> "todo"]
<1>1. op.listing \in Listing BY DEF Op
<1>2. Idle(op.listing) \in Op /\ Idle(op.listing).pc = "idle" /\ Idle(op.listing).listing = op.listing
      /\ Idle(op.listing).stage = [f \in File |-> "todo"]
  BY <1>1, IdleType
<1> QED BY <1>2 DEF Return, Op

LEMMA StageType ==
  ASSUME op \in Op, NEW f \in File, NEW stage \in Stage, GotoStage(f, stage)
  PROVE  /\ op' \in Op /\ op'.pc = op.pc /\ op'.listing = op.listing
         /\ op'.stage = [op.stage EXCEPT ![f] = stage]
<1> DEFINE S == [op.stage EXCEPT ![f] = stage]
<1>1. S \in [File -> Stage] BY DEF Op
<1>2. op' = [op EXCEPT !.stage = S] BY DEF GotoStage
<1> HIDE DEF S
<1>3. op' \in Op /\ op'.pc = op.pc /\ op'.listing = op.listing /\ op'.stage = S
  BY <1>1, <1>2 DEF Op
<1> QED BY <1>3 DEF S

\* What Retry makes of the provision.
LEMMA RetryType ==
  ASSUME op \in Op, NEW f \in File, Retry(f)
  PROVE  /\ op' \in Op /\ op'.pc = op.pc /\ op'.listing = op.listing
         /\ \E stage \in {"send", "failed"} : op'.stage = [op.stage EXCEPT ![f] = stage]
<1> DEFINE S == [op.stage EXCEPT ![f] = "send"]
           T == [op.tries EXCEPT ![f] = op.tries[f] + 1]
<1>1. CASE op.tries[f] < Attempts
  <2>1. op' = [op EXCEPT !.stage = S, !.tries = T] BY <1>1 DEF Retry
  <2>2. S \in [File -> Stage] BY DEF Op, Stage
  <2>3. T \in [File -> 1..Attempts]
    <3>1. op.tries[f] + 1 \in 1..Attempts BY <1>1, JavaAssumption DEF Op
    <3> QED BY <3>1 DEF Op
  <2> HIDE DEF S, T
  <2>4. op' \in Op /\ op'.pc = op.pc /\ op'.listing = op.listing /\ op'.stage = S
    BY <2>1, <2>2, <2>3 DEF Op
  <2> QED BY <2>4 DEF S
<1>2. CASE ~(op.tries[f] < Attempts)
  <2>1. GotoStage(f, "failed") BY <1>2 DEF Retry, GotoStage
  <2> QED BY <2>1, StageType DEF Stage
<1> QED BY <1>1, <1>2
------------------------------------------------------------------------------
(* How a step changes the files *)

LEMMA RespondDisk ==
  ASSUME disk \in [File -> OnDisk], NEW f \in File, Wanted(f) \in Entry, Respond(f)
  PROVE  /\ disk' \in [File -> OnDisk]
         /\ \A g \in File : g # f => disk'[g] = disk[g]
         /\ disk[f].len > 0 /\ disk[f].body = Wanted(f).body => disk'[f].body = Wanted(f).body
         /\ ~(disk[f].len > 0) => disk'[f].body = Wanted(f).body
<1>1. PICK partial \in BOOLEAN : disk' = [disk EXCEPT ![f] = Opened(disk[f], Wanted(f), partial)]
  BY DEF Respond
<1> DEFINE found == disk[f]
           wanted == Wanted(f)
           n == Opened(found, wanted, partial)
<1>2. found \in OnDisk /\ wanted \in Entry
  OBVIOUS
<1>3. found.len \in 0..MaxLen /\ found.executable \in BOOLEAN /\ wanted.body \in Body
      /\ wanted.size \in 1..MaxLen
  BY <1>2 DEF OnDisk, Entry
<1>4. n \in OnDisk /\ n.body \in {Garbled, wanted.body}
  BY <1>3, JavaAssumption DEF Opened, OnDisk
<1>5. /\ found.body = wanted.body => n.body = wanted.body
      /\ ~(found.len > 0) => n.body = wanted.body
  BY <1>3 DEF Opened
<1> HIDE DEF n
<1>6. disk'[f] = n /\ disk' \in [File -> OnDisk] /\ \A g \in File : g # f => disk'[g] = disk[g]
  BY <1>1, <1>4 DEF n
<1> QED BY <1>5, <1>6

LEMMA ChunkDisk ==
  ASSUME disk \in [File -> OnDisk], NEW f \in File, Wanted(f) \in Entry, Chunk(f)
  PROVE  /\ disk' \in [File -> OnDisk]
         /\ \A g \in File : g # f => disk'[g] = disk[g]
         /\ honest => disk'[f].body = disk[f].body
<1>1. PICK good \in BOOLEAN :
        /\ honest => good
        /\ disk' = [disk EXCEPT ![f].len = disk[f].len + 1,
                                ![f].body = IF good THEN disk[f].body ELSE Garbled]
  BY DEF Chunk
<1> DEFINE body == IF good THEN disk[f].body ELSE Garbled
           len == disk[f].len + 1
           n == [disk[f] EXCEPT !.len = len, !.body = body]
<1>2. disk' = [disk EXCEPT ![f] = n]
  BY <1>1
<1>3. disk[f] \in OnDisk /\ Wanted(f).size \in 1..MaxLen
  BY DEF Entry
<1>4. len \in 0..MaxLen
  BY <1>3, JavaAssumption DEF Chunk, OnDisk
<1>5. body \in Body \cup {Garbled, None} /\ (honest => body = disk[f].body)
  BY <1>1, <1>3 DEF OnDisk
<1> HIDE DEF body, len
<1>6. n \in OnDisk /\ n.body = body
  BY <1>3, <1>4, <1>5 DEF OnDisk
<1> HIDE DEF n
<1> QED BY <1>2, <1>5, <1>6

LEMMA SetExecutableDisk ==
  ASSUME disk \in [File -> OnDisk], NEW f \in File, Wanted(f) \in Entry, SetExecutable(f)
  PROVE  /\ disk' \in [File -> OnDisk]
         /\ \A g \in File : g # f => disk'[g] = disk[g]
         /\ disk'[f].body = disk[f].body /\ disk'[f].len = disk[f].len
         /\ Wanted(f).executable => disk'[f].executable
<1> DEFINE mode == disk[f].executable \/ Wanted(f).executable
           n == [disk[f] EXCEPT !.executable = mode]
<1>1. disk' = [disk EXCEPT ![f] = n]
  BY DEF SetExecutable
<1>2. disk[f] \in OnDisk /\ mode \in BOOLEAN /\ (Wanted(f).executable => mode)
  BY DEF OnDisk, Entry
<1> HIDE DEF mode
<1>3. n \in OnDisk /\ n.body = disk[f].body /\ n.len = disk[f].len /\ n.executable = mode
  BY <1>2 DEF OnDisk
<1> HIDE DEF n
<1> QED BY <1>1, <1>2, <1>3

------------------------------------------------------------------------------
(* Types *)

\* Only files of the listing are downloaded: the others have no size to compare with.
Chosen == \A f \in File : op.stage[f] # "todo" => f \in Files(op.listing)

LEMMA Wants ==
  ASSUME TypeOK, Chosen, NEW f \in File, f \in Files(op.listing) \/ op.stage[f] # "todo"
  PROVE  f \in Files(op.listing) /\ Wanted(f) \in Entry
<1>1. op.listing \in Listing BY DEF TypeOK, Op
<1>2. f \in Files(op.listing) BY DEF Chosen
<1> QED BY <1>1, <1>2, EntryType DEF Wanted

LEMMA FaultyType ==
  ASSUME faults \in 0..MaxFaults, Faulty
  PROVE  faults' \in 0..MaxFaults
  BY JavaAssumption DEF Faulty

LEMMA StartTypes == Init => TypeOK /\ Chosen
<1> SUFFICES ASSUME Init PROVE TypeOK /\ Chosen
  OBVIOUS
<1>1. 1 \in Listing
  BY JavaAssumption DEF Listing
<1>2. op \in Op /\ op.stage = [f \in File |-> "todo"]
  BY <1>1, IdleType DEF Init
<1>3. Missing \in OnDisk
  BY JavaAssumption DEF Missing, OnDisk
<1>4. TypeOK
  BY <1>1, <1>2, <1>3, JavaAssumption DEF Init, TypeOK
<1> QED BY <1>2, <1>4 DEF Chosen

LEMMA StepTypes ==
  ASSUME TypeOK, Chosen, [Next]_vars
  PROVE  TypeOK' /\ Chosen'
<1> USE DEF TypeOK
<1>0. op.listing \in Listing /\ op \in Op
  BY DEF Op
<1>1. CASE Publish
  BY <1>1 DEF Publish, Chosen, Files
<1>2. CASE Provision
  <2> DEFINE pc == IF marker = current THEN "finish" ELSE "listing"
  <2>1. op' = [Idle(current) EXCEPT !.pc = pc] /\ pc \in Pc
    BY <1>2 DEF Provision, Pc
  <2>2. op' \in Op /\ op'.stage = [f \in File |-> "todo"]
    BY <2>1, IdleType DEF Op
  <2>3. Chosen'
    BY <2>2 DEF Chosen
  <2> QED BY <1>2, <2>2, <2>3 DEF Provision
<1>3. CASE GetListing
  <2>1. op' \in Op /\ op'.listing = op.listing /\ op'.stage = op.stage
    BY <1>3, GotoType DEF GetListing, Pc
  <2> QED BY <1>3, <2>1 DEF GetListing, Chosen, Files
<1>4. ASSUME NEW f \in File, Check(f) PROVE TypeOK' /\ Chosen'
  <2>1. PICK stage \in Stage : GotoStage(f, stage)
    BY <1>4 DEF Check, Stage
  <2>2. op' \in Op /\ op'.listing = op.listing /\ op'.stage = [op.stage EXCEPT ![f] = stage]
    BY <1>0, <2>1, StageType
  <2> QED BY <1>0, <1>4, <2>2 DEF Check, Chosen, Files, Op
<1>5. ASSUME NEW f \in File, Respond(f) PROVE TypeOK' /\ Chosen'
  <2>1. f \in Files(op.listing) /\ Wanted(f) \in Entry
    BY <1>5, Wants DEF Respond
  <2>2. op' \in Op /\ op'.listing = op.listing /\ op'.stage = [op.stage EXCEPT ![f] = "body"]
    BY <1>0, <1>5, StageType DEF Respond, Stage
  <2>3. disk' \in [File -> OnDisk]
    BY <1>5, <2>1, RespondDisk
  <2> QED BY <1>0, <1>5, <2>1, <2>2, <2>3 DEF Respond, Chosen, Files, Op
<1>6. ASSUME NEW f \in File, Chunk(f) PROVE TypeOK' /\ Chosen'
  <2>1. f \in Files(op.listing) /\ Wanted(f) \in Entry
    BY <1>6, Wants DEF Chunk
  <2>2. disk' \in [File -> OnDisk]
    BY <1>6, <2>1, ChunkDisk
  <2> QED BY <1>6, <2>2 DEF Chunk, Chosen
<1>7. ASSUME NEW f \in File, BodyEnds(f) PROVE TypeOK' /\ Chosen'
  <2>1. f \in Files(op.listing)
    BY <1>7, Wants DEF BodyEnds
  <2>2. PICK stage \in Stage : GotoStage(f, stage)
    BY <1>7 DEF BodyEnds, Stage
  <2>3. op' \in Op /\ op'.listing = op.listing /\ op'.stage = [op.stage EXCEPT ![f] = stage]
    BY <1>0, <2>2, StageType
  <2> QED BY <1>0, <1>7, <2>1, <2>3 DEF BodyEnds, Chosen, Files, Op
<1>8. ASSUME NEW f \in File, Retry(f) PROVE TypeOK' /\ Chosen'
  <2>1. f \in Files(op.listing)
    BY <1>8, Wants DEF Retry
  <2>2. PICK stage \in {"send", "failed"} : op'.stage = [op.stage EXCEPT ![f] = stage]
    BY <1>0, <1>8, RetryType
  <2>3. op' \in Op /\ op'.listing = op.listing
    BY <1>0, <1>8, RetryType
  <2>4. faults' \in 0..MaxFaults
    BY <1>8, FaultyType DEF Retry
  <2> QED BY <1>0, <1>8, <2>1, <2>2, <2>3, <2>4 DEF Retry, Chosen, Files, Op
<1>9. ASSUME NEW f \in File, SetExecutable(f) PROVE TypeOK' /\ Chosen'
  <2>1. f \in Files(op.listing) /\ Wanted(f) \in Entry
    BY <1>9, Wants DEF SetExecutable
  <2>2. op' \in Op /\ op'.listing = op.listing /\ op'.stage = [op.stage EXCEPT ![f] = "done"]
    BY <1>0, <1>9, StageType DEF SetExecutable, Stage
  <2>3. disk' \in [File -> OnDisk]
    BY <1>9, <2>1, SetExecutableDisk
  <2> QED BY <1>0, <1>9, <2>1, <2>2, <2>3 DEF SetExecutable, Chosen, Files, Op
<1>10. ASSUME NEW f \in File, FileFails(f) PROVE TypeOK' /\ Chosen'
  <2>1. op' \in Op /\ op'.listing = op.listing /\ op'.stage = [op.stage EXCEPT ![f] = "failed"]
    BY <1>0, <1>10, StageType DEF FileFails, Stage
  <2>2. faults' \in 0..MaxFaults
    BY <1>10, FaultyType DEF FileFails
  <2> QED BY <1>0, <1>10, <2>1, <2>2 DEF FileFails, Chosen, Files, Op
<1>11. CASE Collect
  <2>1. CASE Return("error")
    <3>1. op' \in Op /\ op'.stage = [f \in File |-> "todo"]
      BY <1>0, <2>1, ReturnType
    <3> QED BY <1>11, <3>1 DEF Collect, Chosen
  <2>2. CASE Goto("unlink")
    <3>1. op' \in Op /\ op'.listing = op.listing /\ op'.stage = op.stage
      BY <1>0, <2>2, GotoType DEF Pc
    <3> QED BY <1>11, <3>1 DEF Collect, Chosen, Files
  <2> QED BY <1>11, <2>1, <2>2 DEF Collect
<1>12. CASE Unlink
  <2>1. op' \in Op /\ op'.listing = op.listing /\ op'.stage = op.stage
    BY <1>0, <1>12, GotoType DEF Unlink, Pc
  <2> QED BY <1>12, <2>1 DEF Unlink, Chosen, Files
<1>13. CASE Symlink
  <2>1. CASE link = None
    <3>1. op' \in Op /\ op'.listing = op.listing /\ op'.stage = op.stage
      BY <1>0, <1>13, <2>1, GotoType DEF Symlink, Pc
    <3>2. link' \in File
      BY <1>0, <1>13, <2>1, JavaAssumption DEF Symlink
    <3> QED BY <1>13, <3>1, <3>2 DEF Symlink, Chosen, Files
  <2>2. CASE link # None
    <3>1. op' \in Op /\ op'.stage = [f \in File |-> "todo"]
      BY <1>0, <1>13, <2>2, ReturnType DEF Symlink
    <3> QED BY <1>13, <2>2, <3>1 DEF Symlink, Chosen
  <2> QED BY <2>1, <2>2
<1>14. CASE MarkEmpty
  <2>1. op' \in Op /\ op'.listing = op.listing /\ op'.stage = op.stage
    BY <1>0, <1>14, GotoType DEF MarkEmpty, Pc
  <2> QED BY <1>14, <2>1 DEF MarkEmpty, Chosen, Files
<1>15. CASE Mark
  <2>1. op' \in Op /\ op'.listing = op.listing /\ op'.stage = op.stage
    BY <1>0, <1>15, GotoType DEF Mark, Pc
  <2> QED BY <1>0, <1>15, <2>1 DEF Mark, Chosen, Files
<1>16. CASE Finish
  <2>1. PICK result \in {"ok", "error"} : Return(result)
    BY <1>16 DEF Finish
  <2>2. op' \in Op /\ op'.stage = [f \in File |-> "todo"]
    BY <1>0, <2>1, ReturnType
  <2> QED BY <1>16, <2>2 DEF Finish, Chosen
<1>17. CASE Fail
  <2>1. op' \in Op /\ op'.stage = [f \in File |-> "todo"]
    BY <1>0, <1>17, ReturnType DEF Fail
  <2>2. faults' \in 0..MaxFaults
    BY <1>17, FaultyType DEF Fail
  <2> QED BY <1>17, <2>1, <2>2 DEF Fail, Chosen
<1>18. CASE Crash
  <2>1. op' \in Op /\ op'.stage = [f \in File |-> "todo"]
    BY <1>0, <1>18, IdleType DEF Crash
  <2>2. faults' \in 0..MaxFaults
    BY <1>18, FaultyType DEF Crash
  <2> QED BY <1>18, <2>1, <2>2 DEF Crash, Chosen
<1>19. CASE UNCHANGED vars
  BY <1>19 DEF vars, Chosen, Files
<1> QED
  BY <1>1, <1>2, <1>3, <1>4, <1>5, <1>6, <1>7, <1>8, <1>9, <1>10, <1>11, <1>12, <1>13,
     <1>14, <1>15, <1>16, <1>17, <1>18, <1>19 DEF Next, Step

\* The provisioner keeps its types, for any listings, files and failures: in
\* particular no file is longer than what servers send, and no file is tried more often
\* than the fetcher allows (Fetcher::retrying).
THEOREM JavaTypes == Spec => []TypeOK
<1>1. TypeOK /\ Chosen /\ [Next]_vars => TypeOK' /\ Chosen'
  BY StepTypes
<1> QED BY <1>1, StartTypes, PTL DEF Spec

------------------------------------------------------------------------------
(* The marker *)

\* Steps between the look at the marker and its being written.
Working == {"listing", "files", "unlink", "symlink", "markEmpty", "mark"}

\* Listings only get newer, and the marker follows.
Ordered ==
    /\ op.listing <= current
    /\ marker \in Listing => marker <= op.listing

\* What a provision works at has no marker yet.
Unmarked == op.pc \in Working => marker # op.listing

Vouched == marker = op.listing => Whole(op.listing)

There(f) == disk[f].len = Wanted(f).size
Fit(f) == There(f) /\ (Wanted(f).executable => disk[f].executable)

\* A download that is over left the file as the listing has it.
Fetched ==
    \A f \in Files(op.listing) :
        /\ op.stage[f] = "chmod" => There(f)
        /\ op.stage[f] = "done" => Fit(f)

Complete ==
    op.pc \in {"unlink", "symlink", "markEmpty", "mark"} =>
        \A f \in Files(op.listing) : op.stage[f] = "done"

Linked == op.pc \in {"markEmpty", "mark"} => link = Target[op.listing]

MarkerInv == Ordered /\ Unmarked /\ Vouched /\ Fetched /\ Complete /\ Linked

\* A step that leaves listings and the marker alone, and changes files and the link
\* only while a provision is at work, has nothing to show for these.
LEMMA Keeps ==
  ASSUME TypeOK, MarkerInv, op' \in Op,
         UNCHANGED <<current, marker>>, op'.listing = op.listing,
         op'.pc \in Working => op.pc \in Working,
         UNCHANGED <<disk, link>> \/ op.pc \in Working
  PROVE  Ordered' /\ Unmarked' /\ Vouched'
<1>1. Ordered' /\ Unmarked'
  BY DEF MarkerInv, Ordered, Unmarked, Listing
<1>2. ASSUME marker' = op'.listing PROVE Whole(op.listing)'
  <2>1. op.pc \notin Working
    BY <1>2 DEF MarkerInv, Unmarked
  <2>2. Whole(op.listing) /\ UNCHANGED <<disk, link>>
    BY <1>2, <2>1 DEF MarkerInv, Vouched
  <2> QED BY <2>2 DEF Whole, Files
<1> QED BY <1>1, <1>2 DEF Vouched

\* So has the end of a provision.
LEMMA Ends ==
  ASSUME TypeOK, MarkerInv, op' \in Op, op'.pc = "idle", op'.listing = op.listing,
         op'.stage = [f \in File |-> "todo"], UNCHANGED <<current, disk, link, marker>>
  PROVE  MarkerInv'
<1>1. Ordered' /\ Unmarked' /\ Vouched'
  BY Keeps DEF Working
<1>2. \A f \in Files(op.listing)' : op'.stage[f] = "todo"
  BY DEF Files
<1>3. Fetched' /\ Complete' /\ Linked'
  BY <1>2 DEF Fetched, Complete, Linked
<1> QED BY <1>1, <1>3 DEF MarkerInv

\* And a step of one download that keeps to its file.
LEMMA Downloads ==
  ASSUME TypeOK, MarkerInv, NEW f \in File, NEW stage \in Stage, f \in Files(op.listing),
         op' \in Op, op.pc = "files", op'.pc = op.pc, op'.listing = op.listing,
         op'.stage = [op.stage EXCEPT ![f] = stage],
         UNCHANGED <<current, link, marker>>,
         \A g \in File : g # f => disk'[g] = disk[g],
         stage = "chmod" => There(f)', stage = "done" => Fit(f)'
  PROVE  MarkerInv'
<1>1. Ordered' /\ Unmarked' /\ Vouched'
  BY Keeps DEF Working
<1>2. ASSUME NEW g \in Files(op'.listing)
      PROVE  (op'.stage[g] = "chmod" => There(g)') /\ (op'.stage[g] = "done" => Fit(g)')
  <2>1. g \in File /\ g \in Files(op.listing) /\ op.stage \in [File -> Stage]
    BY <1>2 DEF Files, TypeOK, Op
  <2>2. CASE g = f
    BY <2>1, <2>2
  <2>3. CASE g # f
    BY <2>1, <2>3 DEF MarkerInv, Fetched, There, Fit, Wanted
  <2> QED BY <2>2, <2>3
<1>3. Fetched'
  BY <1>2 DEF Fetched, Files
<1> QED BY <1>1, <1>3 DEF MarkerInv, Complete, Linked

\* A step from one phase to the next.
LEMMA Advances ==
  ASSUME TypeOK, MarkerInv, op' \in Op, op'.listing = op.listing, op'.stage = op.stage,
         op.pc \in Working, op'.pc \in Working, UNCHANGED <<current, disk, marker>>
  PROVE  Ordered' /\ Unmarked' /\ Vouched' /\ Fetched'
<1>1. Ordered' /\ Unmarked' /\ Vouched'
  BY Keeps
<1>2. Fetched'
  BY DEF MarkerInv, Fetched, There, Fit, Wanted, Files
<1> QED BY <1>1, <1>2

LEMMA StartMarker == Init => MarkerInv
<1> SUFFICES ASSUME Init PROVE MarkerInv
  OBVIOUS
<1>1. 1 \in Listing
  BY JavaAssumption DEF Listing
<1>2. op.listing = 1 /\ op.pc = "idle" /\ op.stage = [f \in File |-> "todo"]
  BY <1>1, IdleType DEF Init
<1>3. marker = None /\ None \notin Listing
  BY JavaAssumption DEF Init
<1>4. \A f \in Files(1) : f \in File
  BY DEF Files
<1> QED BY <1>1, <1>2, <1>3, <1>4
        DEF Init, MarkerInv, Ordered, Unmarked, Vouched, Fetched, Complete, Linked, Working

LEMMA StepMarker ==
  ASSUME TypeOK, Chosen, MarkerInv, [Next]_vars
  PROVE  MarkerInv'
<1>0. op \in Op /\ op.listing \in Listing /\ current \in Listing /\ op' \in Op
  BY StepTypes DEF TypeOK, Op
<1>n. op.listing \in Nat /\ current \in Nat
  BY <1>0, ListingNat
<1>o. op.listing <= current /\ (marker \in Listing => marker <= op.listing)
  BY DEF MarkerInv, Ordered
<1>1. CASE Publish
  <2>1. current' = current + 1 /\ UNCHANGED <<disk, link, marker, op>>
    BY <1>1 DEF Publish
  <2>2. op.listing <= current'
    BY <1>n, <1>o, <2>1
  <2>3. Ordered'
    BY <1>o, <2>1, <2>2 DEF Ordered, Listing
  <2> QED BY <2>1, <2>3
          DEF MarkerInv, Unmarked, Vouched, Fetched, Complete, Linked, Whole, Files, There, Fit, Wanted
<1>2. CASE Provision
  <2> DEFINE pc == IF marker = current THEN "finish" ELSE "listing"
  <2>1. op' = [Idle(current) EXCEPT !.pc = pc] /\ UNCHANGED <<current, disk, link, marker>>
    BY <1>2 DEF Provision
  <2>2. op'.listing = current /\ op'.stage = [f \in File |-> "todo"] /\ op'.pc = pc
    BY <1>0, <2>1, IdleType DEF Op
  <2>3. marker \in Listing => marker \in Nat /\ marker <= current
    BY <1>n, <1>o, ListingNat
  <2>4. Ordered'
    BY <1>n, <2>1, <2>2, <2>3 DEF Ordered, Listing
  <2>5. Unmarked'
    BY <2>1, <2>2 DEF Unmarked, Working
  <2>6. ASSUME marker = current PROVE Whole(current)'
    <3>1. op.listing = current
      <4>1. current <= op.listing
        BY <1>0, <1>o, <2>6
      <4> QED BY <4>1, <1>n, <1>o
    <3>2. Whole(current)
      BY <2>6, <3>1 DEF MarkerInv, Vouched
    <3> QED BY <2>1, <3>2 DEF Whole, Files
  <2>7. Vouched'
    BY <2>1, <2>2, <2>6 DEF Vouched
  <2>8. Fetched' /\ Complete' /\ Linked'
    BY <2>2 DEF Fetched, Complete, Linked, Files
  <2> QED BY <2>4, <2>5, <2>7, <2>8 DEF MarkerInv
<1>3. CASE GetListing
  <2>1. op'.listing = op.listing /\ op'.stage = op.stage /\ op'.pc = "files"
    BY <1>0, <1>3, GotoType DEF GetListing, Pc
  <2>2. Ordered' /\ Unmarked' /\ Vouched' /\ Fetched'
    BY <1>0, <1>3, <2>1, Advances DEF GetListing, Working
  <2> QED BY <2>1, <2>2 DEF MarkerInv, Complete, Linked
<1>4. ASSUME NEW f \in File, Check(f) PROVE MarkerInv'
  <2> DEFINE stage == IF IsPresent(f) THEN "chmod" ELSE "send"
  <2>1. stage \in Stage /\ GotoStage(f, stage) /\ f \in Files(op.listing) /\ op.pc = "files"
        /\ UNCHANGED <<current, disk, link, marker>>
    BY <1>4 DEF Check, Stage
  <2>2. stage # "done" /\ (stage = "chmod" => There(f))
    BY DEF IsPresent, There
  <2> HIDE DEF stage
  <2>3. op'.pc = op.pc /\ op'.listing = op.listing /\ op'.stage = [op.stage EXCEPT ![f] = stage]
    BY <1>0, <2>1, StageType
  <2>4. stage = "chmod" => There(f)'
    BY <2>1, <2>2, <2>3 DEF There, Wanted
  <2> QED BY <1>0, <2>1, <2>2, <2>3, <2>4, Downloads
<1>5. ASSUME NEW f \in File, Respond(f) PROVE MarkerInv'
  <2>1. f \in Files(op.listing) /\ Wanted(f) \in Entry
    BY <1>5, Wants DEF Respond
  <2>2. op'.pc = op.pc /\ op'.listing = op.listing /\ op'.stage = [op.stage EXCEPT ![f] = "body"]
    BY <1>0, <1>5, StageType DEF Respond, Stage
  <2>3. \A g \in File : g # f => disk'[g] = disk[g]
    BY <1>5, <2>1, RespondDisk DEF TypeOK
  <2>4. op.pc = "files" /\ UNCHANGED <<current, link, marker>> /\ "body" \in Stage
    BY <1>5 DEF Respond, Stage
  <2> QED BY <1>0, <2>1, <2>2, <2>3, <2>4, Downloads
<1>6. ASSUME NEW f \in File, Chunk(f) PROVE MarkerInv'
  <2>1. f \in Files(op.listing) /\ Wanted(f) \in Entry
    BY <1>6, Wants DEF Chunk
  <2>2. op' = op /\ op.pc = "files" /\ op.stage[f] = "body" /\ UNCHANGED <<current, link, marker>>
    BY <1>6 DEF Chunk
  <2>3. op'.stage = [op.stage EXCEPT ![f] = "body"] /\ "body" \in Stage
    BY <1>0, <2>2 DEF Op, Stage
  <2>4. \A g \in File : g # f => disk'[g] = disk[g]
    BY <1>6, <2>1, ChunkDisk DEF TypeOK
  <2> QED BY <1>0, <2>1, <2>2, <2>3, <2>4, Downloads
<1>7. ASSUME NEW f \in File, BodyEnds(f) PROVE MarkerInv'
  <2> DEFINE stage == IF disk[f].len = Wanted(f).size /\ disk[f].body = Wanted(f).body
                      THEN "chmod" ELSE "failed"
  <2>1. stage \in Stage /\ GotoStage(f, stage) /\ op.pc = "files"
        /\ UNCHANGED <<current, disk, link, marker>>
    BY <1>7 DEF BodyEnds, Stage
  <2>2. stage # "done" /\ (stage = "chmod" => There(f))
    BY DEF There
  <2> HIDE DEF stage
  <2>3. op'.pc = op.pc /\ op'.listing = op.listing /\ op'.stage = [op.stage EXCEPT ![f] = stage]
    BY <1>0, <2>1, StageType
  <2>4. f \in Files(op.listing)
    BY <1>7, Wants DEF BodyEnds
  <2>5. stage = "chmod" => There(f)'
    BY <2>1, <2>2, <2>3 DEF There, Wanted
  <2> QED BY <1>0, <2>1, <2>2, <2>3, <2>4, <2>5, Downloads
<1>8. ASSUME NEW f \in File, Retry(f) PROVE MarkerInv'
  <2>1. f \in Files(op.listing)
    BY <1>8, Wants DEF Retry
  <2>2. PICK stage \in {"send", "failed"} : op'.stage = [op.stage EXCEPT ![f] = stage]
    BY <1>0, <1>8, RetryType
  <2>3. op'.listing = op.listing /\ op'.pc = op.pc
    BY <1>0, <1>8, RetryType
  <2>4. op.pc = "files" /\ UNCHANGED <<current, disk, link, marker>> /\ stage \in Stage
    BY <1>8 DEF Retry, Stage
  <2> QED BY <1>0, <2>1, <2>2, <2>3, <2>4, Downloads
<1>9. ASSUME NEW f \in File, SetExecutable(f) PROVE MarkerInv'
  <2>1. f \in Files(op.listing) /\ Wanted(f) \in Entry
    BY <1>9, Wants DEF SetExecutable
  <2>2. op'.pc = op.pc /\ op'.listing = op.listing /\ op'.stage = [op.stage EXCEPT ![f] = "done"]
    BY <1>0, <1>9, StageType DEF SetExecutable, Stage
  <2>3. /\ \A g \in File : g # f => disk'[g] = disk[g]
        /\ disk'[f].len = disk[f].len
        /\ Wanted(f).executable => disk'[f].executable
    BY <1>9, <2>1, SetExecutableDisk DEF TypeOK
  <2>4. op.pc = "files" /\ op.stage[f] = "chmod" /\ UNCHANGED <<current, link, marker>>
        /\ "done" \in Stage
    BY <1>9 DEF SetExecutable, Stage
  <2>5. Fit(f)'
    BY <2>1, <2>2, <2>3, <2>4 DEF MarkerInv, Fetched, There, Fit, Wanted
  <2> QED BY <1>0, <2>1, <2>2, <2>3, <2>4, <2>5, Downloads
<1>10. ASSUME NEW f \in File, FileFails(f) PROVE MarkerInv'
  <2>1. op'.pc = op.pc /\ op'.listing = op.listing /\ op'.stage = [op.stage EXCEPT ![f] = "failed"]
    BY <1>0, <1>10, StageType DEF FileFails, Stage
  <2>2. op.pc = "files" /\ f \in Files(op.listing) /\ UNCHANGED <<current, disk, link, marker>>
        /\ "failed" \in Stage
    BY <1>10 DEF FileFails, Stage
  <2> QED BY <1>0, <2>1, <2>2, Downloads
<1>11. CASE Collect
  <2>1. CASE \E f \in Files(op.listing) : op.stage[f] = "failed"
    <3>1. op'.pc = "idle" /\ op'.listing = op.listing /\ op'.stage = [f \in File |-> "todo"]
      BY <1>0, <1>11, <2>1, ReturnType DEF Collect
    <3> QED BY <1>0, <1>11, <3>1, Ends DEF Collect
  <2>2. CASE ~\E f \in Files(op.listing) : op.stage[f] = "failed"
    <3>1. op'.listing = op.listing /\ op'.stage = op.stage /\ op'.pc = "unlink"
      BY <1>0, <1>11, <2>2, GotoType DEF Collect, Pc
    <3>2. Ordered' /\ Unmarked' /\ Vouched' /\ Fetched'
      BY <1>0, <1>11, <3>1, Advances DEF Collect, Working
    <3>3. \A f \in Files(op.listing) : op.stage[f] = "done"
      BY <1>11, <2>2 DEF Collect
    <3>4. Complete'
      BY <3>1, <3>3 DEF Complete, Files
    <3> QED BY <3>1, <3>2, <3>4 DEF MarkerInv, Linked
  <2> QED BY <2>1, <2>2
<1>12. CASE Unlink
  <2>1. op'.listing = op.listing /\ op'.stage = op.stage /\ op'.pc = "symlink"
    BY <1>0, <1>12, GotoType DEF Unlink, Pc
  <2>2. Ordered' /\ Unmarked' /\ Vouched' /\ Fetched'
    BY <1>0, <1>12, <2>1, Advances DEF Unlink, Working
  <2> QED BY <1>12, <2>1, <2>2 DEF Unlink, MarkerInv, Complete, Linked, Files
<1>13. CASE Symlink
  <2>1. CASE link = None
    <3>1. op'.listing = op.listing /\ op'.stage = op.stage /\ op'.pc = "markEmpty"
      BY <1>0, <1>13, <2>1, GotoType DEF Symlink, Pc
    <3>2. Ordered' /\ Unmarked' /\ Vouched' /\ Fetched'
      BY <1>0, <1>13, <3>1, Advances DEF Symlink, Working
    <3>3. link' = Target[op.listing]
      BY <1>13, <2>1 DEF Symlink
    <3> QED BY <1>13, <3>1, <3>2, <3>3 DEF Symlink, MarkerInv, Complete, Linked, Files
  <2>2. CASE link # None
    <3>1. op'.pc = "idle" /\ op'.listing = op.listing /\ op'.stage = [f \in File |-> "todo"]
      BY <1>0, <1>13, <2>2, ReturnType DEF Symlink
    <3> QED BY <1>0, <1>13, <2>2, <3>1, Ends DEF Symlink
  <2> QED BY <2>1, <2>2
<1>14. CASE MarkEmpty
  <2>1. op'.listing = op.listing /\ op'.stage = op.stage /\ op'.pc = "mark"
    BY <1>0, <1>14, GotoType DEF MarkEmpty, Pc
  <2>2. marker' = Torn /\ UNCHANGED <<current, disk, link>> /\ op.pc = "markEmpty"
    BY <1>14 DEF MarkEmpty
  <2>3. Ordered' /\ Unmarked' /\ Vouched'
    BY <1>0, <2>1, <2>2, JavaAssumption DEF MarkerInv, Ordered, Unmarked, Vouched
  <2>4. Fetched' /\ Complete' /\ Linked'
    BY <2>1, <2>2 DEF MarkerInv, Fetched, Complete, Linked, There, Fit, Wanted, Files
  <2> QED BY <2>3, <2>4 DEF MarkerInv
<1>15. CASE Mark
  <2>1. op'.listing = op.listing /\ op'.stage = op.stage /\ op'.pc = "finish"
    BY <1>0, <1>15, GotoType DEF Mark, Pc
  <2>2. marker' = op.listing /\ UNCHANGED <<current, disk, link>> /\ op.pc = "mark"
    BY <1>15 DEF Mark
  <2>3. Whole(op.listing)
    BY <2>2 DEF MarkerInv, Fetched, Complete, Linked, There, Fit, Wanted, Whole
  <2>4. Vouched'
    BY <2>1, <2>2, <2>3 DEF Vouched, Whole, Files
  <2>5. Ordered' /\ Unmarked'
    <3>1. op.listing <= op.listing
      BY <1>n
    <3>2. Ordered'
      BY <1>o, <2>1, <2>2, <3>1 DEF Ordered, Listing
    <3> QED BY <2>1, <3>2 DEF Unmarked, Working
  <2>6. Fetched' /\ Complete' /\ Linked'
    BY <2>1, <2>2 DEF MarkerInv, Fetched, Complete, Linked, There, Fit, Wanted, Files
  <2> QED BY <2>4, <2>5, <2>6 DEF MarkerInv
<1>16. CASE Finish
  <2>1. PICK result \in {"ok", "error"} : Return(result)
    BY <1>16 DEF Finish
  <2>2. op'.pc = "idle" /\ op'.listing = op.listing /\ op'.stage = [f \in File |-> "todo"]
    BY <1>0, <2>1, ReturnType
  <2> QED BY <1>0, <1>16, <2>2, Ends DEF Finish
<1>17. CASE Fail
  <2>1. op'.pc = "idle" /\ op'.listing = op.listing /\ op'.stage = [f \in File |-> "todo"]
    BY <1>0, <1>17, ReturnType DEF Fail
  <2> QED BY <1>0, <1>17, <2>1, Ends DEF Fail
<1>18. CASE Crash
  <2>1. op'.pc = "idle" /\ op'.listing = op.listing /\ op'.stage = [f \in File |-> "todo"]
    BY <1>0, <1>18, IdleType DEF Crash
  <2> QED BY <1>0, <1>18, <2>1, Ends DEF Crash
<1>19. CASE UNCHANGED vars
  BY <1>19 DEF vars, MarkerInv, Ordered, Unmarked, Vouched, Fetched, Complete, Linked, Whole,
               Files, There, Fit, Wanted
<1> QED
  BY <1>1, <1>2, <1>3, <1>4, <1>5, <1>6, <1>7, <1>8, <1>9, <1>10, <1>11, <1>12, <1>13,
     <1>14, <1>15, <1>16, <1>17, <1>18, <1>19 DEF Next, Step

\* Nothing is looked at once the marker names the listing that is published, and
\* nothing has to be: for any files and listings, and wherever provisions failed or
\* the daemon died, all of the runtime is there (is_complete, mark_complete).
THEOREM MarkerSafe == Spec => []MarkerSound
<1>1. TypeOK /\ Chosen /\ MarkerInv /\ [Next]_vars => TypeOK' /\ Chosen' /\ MarkerInv'
  BY StepTypes, StepMarker
<1>2. TypeOK /\ MarkerInv => MarkerSound
  <2> SUFFICES ASSUME TypeOK, MarkerInv, marker = current PROVE Whole(current)
    BY DEF MarkerSound
  <2>1. current \in Listing /\ op.listing \in Listing
    BY DEF TypeOK, Op
  <2>2. op.listing = current
    <3>1. op.listing \in Nat /\ current \in Nat
      BY <2>1, ListingNat
    <3>2. op.listing <= current /\ current <= op.listing
      BY <2>1 DEF MarkerInv, Ordered
    <3> QED BY <3>1, <3>2
  <2> QED BY <2>2 DEF MarkerInv, Vouched
<1> QED BY <1>1, <1>2, StartTypes, StartMarker, PTL DEF Spec

------------------------------------------------------------------------------
(* Contents *)

\* From the moment a file is opened for a download, or has a first unit, its body
\* is the published one.
Genuine ==
    honest => \A f \in Files(current) :
        Alike(f) => (disk[f].len > 0 \/ op.stage[f] = "body"
                        => disk[f].body = Published[current][f].body)

\* What a provision wants of a file no listing changed is what is published.
LEMMA WantedAlike ==
  ASSUME TypeOK, Ordered, NEW f \in File, Alike(f)
  PROVE  Wanted(f) = Published[current][f]
<1>1. op.listing \in Listing /\ current \in Listing
  BY DEF TypeOK, Op
<1>2. op.listing \in Nat /\ current \in Nat /\ op.listing >= 1 /\ op.listing <= current
  BY <1>1, ListingNat, ListingType DEF Ordered
<1>3. op.listing \in 1..current
  BY <1>2
<1> QED BY <1>3 DEF Alike, Wanted

\* A step that opens no file and writes none has nothing to show.
LEMMA Settles ==
  ASSUME Genuine, UNCHANGED <<current, disk, honest>>,
         \A f \in File : op'.stage[f] = "body" => op.stage[f] = "body"
  PROVE  Genuine'
<1> SUFFICES ASSUME honest', NEW f \in Files(current)', Alike(f)',
                    disk'[f].len > 0 \/ op'.stage[f] = "body"
             PROVE  disk'[f].body = Published[current'][f].body
  BY DEF Genuine
<1>1. f \in Files(current) /\ f \in File /\ Alike(f) /\ honest
  BY DEF Files, Alike
<1>2. disk[f].len > 0 \/ op.stage[f] = "body"
  BY <1>1
<1> QED BY <1>1, <1>2 DEF Genuine

\* Nor has one that writes to one file, if that file is right afterwards.
LEMMA Writes ==
  ASSUME Genuine, NEW f \in File, UNCHANGED <<current, honest>>,
         \A g \in File : g # f => disk'[g] = disk[g] /\ op'.stage[g] = op.stage[g],
         honest /\ f \in Files(current) /\ Alike(f)
             /\ (disk'[f].len > 0 \/ op'.stage[f] = "body")
             => disk'[f].body = Published[current][f].body
  PROVE  Genuine'
<1> SUFFICES ASSUME honest', NEW g \in Files(current)', Alike(g)',
                    disk'[g].len > 0 \/ op'.stage[g] = "body"
             PROVE  disk'[g].body = Published[current'][g].body
  BY DEF Genuine
<1>1. g \in Files(current) /\ g \in File /\ Alike(g) /\ honest
  BY DEF Files, Alike
<1>2. CASE g = f
  BY <1>1, <1>2
<1>3. CASE g # f
  <2>1. disk'[g] = disk[g] /\ op'.stage[g] = op.stage[g]
    BY <1>1, <1>3
  <2>2. disk[g].len > 0 \/ op.stage[g] = "body"
    BY <2>1
  <2> QED BY <1>1, <2>1, <2>2 DEF Genuine
<1> QED BY <1>2, <1>3

LEMMA StartGenuine == Init => Genuine
<1> SUFFICES ASSUME Init, NEW f \in Files(current)
             PROVE  ~(disk[f].len > 0) /\ op.stage[f] # "body"
  BY DEF Genuine
<1>1. f \in File
  BY DEF Files
<1>2. disk[f].len = 0
  BY <1>1 DEF Init, Missing
<1>3. op.stage[f] = "todo"
  BY <1>1 DEF Init, Idle
<1> QED BY <1>2, <1>3

LEMMA StepGenuine ==
  ASSUME TypeOK, Chosen, MarkerInv, Genuine, [Next]_vars
  PROVE  Genuine'
<1>0. op \in Op /\ op.listing \in Listing /\ current \in Listing /\ disk \in [File -> OnDisk]
      /\ op.stage \in [File -> Stage] /\ Ordered
  BY DEF TypeOK, Op, MarkerInv
<1>r. ASSUME op'.stage = [f \in File |-> "todo"], UNCHANGED <<current, disk, honest>>
      PROVE  Genuine'
  BY <1>r, Settles
<1>s. ASSUME op'.stage = op.stage, UNCHANGED <<current, disk, honest>>
      PROVE  Genuine'
  BY <1>s, Settles
<1>t. ASSUME NEW f \in File, NEW stage, op'.stage = [op.stage EXCEPT ![f] = stage],
             stage # "body", UNCHANGED <<current, disk, honest>>
      PROVE  Genuine'
  <2>1. \A g \in File : op'.stage[g] = "body" => op.stage[g] = "body"
    BY <1>0, <1>t
  <2> QED BY <1>t, <2>1, Settles
<1>1. CASE Publish
  <2>1. current' = current + 1 /\ UNCHANGED <<disk, op, honest>>
    BY <1>1 DEF Publish
  <2> SUFFICES ASSUME honest', NEW f \in Files(current)', Alike(f)',
                      disk'[f].len > 0 \/ op'.stage[f] = "body"
               PROVE  disk'[f].body = Published[current'][f].body
    BY DEF Genuine
  <2>2. current \in Nat /\ current >= 1
    BY <1>0, ListingNat, ListingType
  <2>3. \A l \in 1..current : l \in 1..current'
    BY <2>1, <2>2
  <2>4. current \in 1..current'
    BY <2>1, <2>2
  <2>5. \A l \in 1..current' : Published[l][f] = Published[current'][f]
    BY DEF Alike
  <2>6. Published[current][f] = Published[current'][f]
    BY <2>4, <2>5
  <2>7. Alike(f)
    BY <2>3, <2>5, <2>6 DEF Alike
  <2>8. f \in Files(current)
    BY <2>6 DEF Files
  <2>9. honest /\ (disk[f].len > 0 \/ op.stage[f] = "body")
    BY <2>1
  <2> QED BY <2>1, <2>6, <2>7, <2>8, <2>9 DEF Genuine
<1>2. CASE Provision
  <2> DEFINE pc == IF marker = current THEN "finish" ELSE "listing"
  <2>1. op' = [Idle(current) EXCEPT !.pc = pc] /\ UNCHANGED <<current, disk, honest>>
    BY <1>2 DEF Provision
  <2>2. op'.stage = [f \in File |-> "todo"]
    BY <1>0, <2>1, IdleType DEF Op
  <2> QED BY <2>1, <2>2, <1>r
<1>3. CASE GetListing
  <2>1. op'.stage = op.stage
    BY <1>0, <1>3, GotoType DEF GetListing, Pc
  <2> QED BY <1>3, <2>1, <1>s DEF GetListing
<1>4. ASSUME NEW f \in File, Check(f) PROVE Genuine'
  <2> DEFINE stage == IF IsPresent(f) THEN "chmod" ELSE "send"
  <2>1. stage \in Stage /\ GotoStage(f, stage) /\ UNCHANGED <<current, disk, honest>>
        /\ stage # "body"
    BY <1>4 DEF Check, Stage
  <2> HIDE DEF stage
  <2>2. op'.stage = [op.stage EXCEPT ![f] = stage]
    BY <1>0, <2>1, StageType
  <2> QED BY <2>1, <2>2, <1>t
<1>5. ASSUME NEW f \in File, Respond(f) PROVE Genuine'
  <2>1. Wanted(f) \in Entry
    BY <1>5, Wants DEF Respond
  <2>2. op'.stage = [op.stage EXCEPT ![f] = "body"] /\ UNCHANGED <<current, honest>>
    BY <1>0, <1>5, StageType DEF Respond, Stage
  <2>3. \A g \in File : g # f => disk'[g] = disk[g] /\ op'.stage[g] = op.stage[g]
    BY <1>0, <1>5, <2>1, <2>2, RespondDisk
  <2>4. ASSUME honest, f \in Files(current), Alike(f)
        PROVE  disk'[f].body = Published[current][f].body
    <3>1. Wanted(f) = Published[current][f]
      BY <1>0, <2>4, WantedAlike
    <3>2. disk[f].len > 0 => disk[f].body = Wanted(f).body
      BY <2>4, <3>1 DEF Genuine
    <3>3. disk'[f].body = Wanted(f).body
      BY <1>0, <1>5, <2>1, <3>2, RespondDisk
    <3> QED BY <3>1, <3>3
  <2> QED BY <2>2, <2>3, <2>4, Writes
<1>6. ASSUME NEW f \in File, Chunk(f) PROVE Genuine'
  <2>1. Wanted(f) \in Entry
    BY <1>6, Wants DEF Chunk
  <2>2. op' = op /\ op.stage[f] = "body" /\ UNCHANGED <<current, honest>>
    BY <1>6 DEF Chunk
  <2>3. \A g \in File : g # f => disk'[g] = disk[g] /\ op'.stage[g] = op.stage[g]
    BY <1>0, <1>6, <2>1, <2>2, ChunkDisk
  <2>4. ASSUME honest, f \in Files(current), Alike(f)
        PROVE  disk'[f].body = Published[current][f].body
    <3>1. disk[f].body = Published[current][f].body
      BY <2>2, <2>4 DEF Genuine
    <3>2. disk'[f].body = disk[f].body
      BY <1>0, <1>6, <2>1, <2>4, ChunkDisk
    <3> QED BY <3>1, <3>2
  <2> QED BY <2>2, <2>3, <2>4, Writes
<1>7. ASSUME NEW f \in File, BodyEnds(f) PROVE Genuine'
  <2> DEFINE stage == IF disk[f].len = Wanted(f).size /\ disk[f].body = Wanted(f).body
                      THEN "chmod" ELSE "failed"
  <2>1. stage \in Stage /\ GotoStage(f, stage) /\ UNCHANGED <<current, disk, honest>>
        /\ stage # "body"
    BY <1>7 DEF BodyEnds, Stage
  <2> HIDE DEF stage
  <2>2. op'.stage = [op.stage EXCEPT ![f] = stage]
    BY <1>0, <2>1, StageType
  <2> QED BY <2>1, <2>2, <1>t
<1>8. ASSUME NEW f \in File, Retry(f) PROVE Genuine'
  <2>1. PICK stage \in {"send", "failed"} : op'.stage = [op.stage EXCEPT ![f] = stage]
    BY <1>0, <1>8, RetryType
  <2>2. UNCHANGED <<current, disk, honest>>
    BY <1>8 DEF Retry
  <2> QED BY <2>1, <2>2, <1>t
<1>9. ASSUME NEW f \in File, SetExecutable(f) PROVE Genuine'
  <2>1. Wanted(f) \in Entry
    BY <1>9, Wants DEF SetExecutable
  <2>2. op'.stage = [op.stage EXCEPT ![f] = "done"] /\ UNCHANGED <<current, honest>>
    BY <1>0, <1>9, StageType DEF SetExecutable, Stage
  <2>3. disk'[f].body = disk[f].body /\ disk'[f].len = disk[f].len
        /\ \A g \in File : g # f => disk'[g] = disk[g]
    BY <1>0, <1>9, <2>1, SetExecutableDisk
  <2>4. op'.stage[f] # "body" /\ \A g \in File : g # f => op'.stage[g] = op.stage[g]
    BY <1>0, <2>2
  <2>5. honest /\ f \in Files(current) /\ Alike(f) /\ disk'[f].len > 0
        => disk'[f].body = Published[current][f].body
    BY <2>3 DEF Genuine
  <2> QED BY <2>2, <2>3, <2>4, <2>5, Writes
<1>10. ASSUME NEW f \in File, FileFails(f) PROVE Genuine'
  <2>1. op'.stage = [op.stage EXCEPT ![f] = "failed"] /\ UNCHANGED <<current, disk, honest>>
    BY <1>0, <1>10, StageType DEF FileFails, Stage
  <2> QED BY <2>1, <1>t
<1>11. CASE Collect
  <2>1. UNCHANGED <<current, disk, honest>>
    BY <1>11 DEF Collect
  <2>2. CASE \E f \in Files(op.listing) : op.stage[f] = "failed"
    <3>1. op'.stage = [f \in File |-> "todo"]
      BY <1>0, <1>11, <2>2, ReturnType DEF Collect
    <3> QED BY <2>1, <3>1, <1>r
  <2>3. CASE ~\E f \in Files(op.listing) : op.stage[f] = "failed"
    <3>1. op'.stage = op.stage
      BY <1>0, <1>11, <2>3, GotoType DEF Collect, Pc
    <3> QED BY <2>1, <3>1, <1>s
  <2> QED BY <2>2, <2>3
<1>12. CASE Unlink
  <2>1. op'.stage = op.stage
    BY <1>0, <1>12, GotoType DEF Unlink, Pc
  <2> QED BY <1>12, <2>1, <1>s DEF Unlink
<1>13. CASE Symlink
  <2>1. UNCHANGED <<current, disk, honest>>
    BY <1>13 DEF Symlink
  <2>2. CASE link = None
    <3>1. op'.stage = op.stage
      BY <1>0, <1>13, <2>2, GotoType DEF Symlink, Pc
    <3> QED BY <2>1, <3>1, <1>s
  <2>3. CASE link # None
    <3>1. op'.stage = [f \in File |-> "todo"]
      BY <1>0, <1>13, <2>3, ReturnType DEF Symlink
    <3> QED BY <2>1, <3>1, <1>r
  <2> QED BY <2>2, <2>3
<1>14. CASE MarkEmpty
  <2>1. op'.stage = op.stage
    BY <1>0, <1>14, GotoType DEF MarkEmpty, Pc
  <2> QED BY <1>14, <2>1, <1>s DEF MarkEmpty
<1>15. CASE Mark
  <2>1. op'.stage = op.stage
    BY <1>0, <1>15, GotoType DEF Mark, Pc
  <2> QED BY <1>15, <2>1, <1>s DEF Mark
<1>16. CASE Finish
  <2>1. PICK result \in {"ok", "error"} : Return(result)
    BY <1>16 DEF Finish
  <2>2. op'.stage = [f \in File |-> "todo"]
    BY <1>0, <2>1, ReturnType
  <2> QED BY <1>16, <2>2, <1>r DEF Finish
<1>17. CASE Fail
  <2>1. op'.stage = [f \in File |-> "todo"]
    BY <1>0, <1>17, ReturnType DEF Fail
  <2> QED BY <1>17, <2>1, <1>r DEF Fail
<1>18. CASE Crash
  <2>1. op'.stage = [f \in File |-> "todo"]
    BY <1>0, <1>18, IdleType DEF Crash
  <2> QED BY <1>18, <2>1, <1>r DEF Crash
<1>19. CASE UNCHANGED vars
  BY <1>19, <1>s DEF vars
<1> QED
  BY <1>1, <1>2, <1>3, <1>4, <1>5, <1>6, <1>7, <1>8, <1>9, <1>10, <1>11, <1>12, <1>13,
     <1>14, <1>15, <1>16, <1>17, <1>18, <1>19 DEF Next, Step

\* Taking files by their size after interruptions is right while servers send what
\* is published and for files no listing changed: such a file of a runtime the marker
\* vouches for has the published content (is_present_and_sized, resume).
THEOREM GenuineFiles == Spec => []RuntimeGenuine
<1>1. TypeOK /\ Chosen /\ MarkerInv /\ Genuine /\ [Next]_vars
      => TypeOK' /\ Chosen' /\ MarkerInv' /\ Genuine'
  BY StepTypes, StepMarker, StepGenuine
<1>2. TypeOK /\ MarkerInv /\ Genuine => RuntimeGenuine
  <2> SUFFICES ASSUME TypeOK, MarkerInv, Genuine, honest, marker = current,
                      NEW f \in Files(current), Alike(f)
               PROVE  disk[f].body = Published[current][f].body
    BY DEF RuntimeGenuine
  <2>1. current \in Listing /\ op.listing \in Listing
    BY DEF TypeOK, Op
  <2>2. op.listing \in Nat /\ current \in Nat
    BY <2>1, ListingNat
  <2>3. op.listing <= current /\ current <= op.listing
    BY <2>1 DEF MarkerInv, Ordered
  <2>4. op.listing = current
    BY <2>2, <2>3
  <2>5. Whole(current)
    BY <2>4 DEF MarkerInv, Vouched
  <2>6. Published[current][f] \in Entry
    BY <2>1, EntryType
  <2>7. disk[f].len = Published[current][f].size
    BY <2>5 DEF Whole
  <2>8. Published[current][f].size \in 1..MaxLen
    BY <2>6 DEF Entry
  <2>9. disk[f].len > 0
    BY <2>7, <2>8, JavaAssumption
  <2> QED BY <2>9 DEF Genuine
<1> QED BY <1>1, <1>2, StartTypes, StartMarker, StartGenuine, PTL DEF Spec

==============================================================================
