---------------------------- MODULE InstallProofs ----------------------------
(***************************************************************************)
(* What holds of installs for any jobs, instances, plans and contents,     *)
(* however jobs overlap, fail or die.                                      *)
(***************************************************************************)
EXTENDS Install, SequenceTheorems, TLAPS

\* Under an address is the content it names, or nothing.
BlobOK(b) == \A c \in Content : b[c] \in {c, Absent}

Acquiring == {"acquire", "alias", "aliasWrite"}

\* Every content a job has acquired is stored and has the digest of its artifact;
\* it is at the artifact after them until it has acquired them all.
Sound(b, r) ==
    /\ r \in JobState
    /\ r.pc # "idle" => r.inst \in Instance /\ r.plan \in AllPlans /\ r.n <= Len(r.plan)
    /\ \A k \in 1..Len(r.locked) :
        /\ b[r.locked[k]] = r.locked[k]
        /\ r.plan[k].sha1 \in {r.locked[k], Unpinned}
    /\ r.pc \in Acquiring => Len(r.locked) + 1 = r.n
    /\ r.pc \in {"alias", "aliasWrite"} =>
        /\ r.plan[r.n].sha1 = r.got
        /\ r.got \in Content
        /\ b[r.got] = r.got
    /\ r.pc \notin Acquiring \cup {"idle"} => Len(r.locked) = Len(r.plan)
    /\ r.pc = "unpacking" => r.got \in Content

IInv ==
    /\ TypeOK
    /\ BlobOK(blob)
    /\ AliasSound
    /\ LockSound
    /\ \A j \in Job : Sound(blob, job[j])

------------------------------------------------------------------------------
(* Facts about single jobs *)

\* The store only grows.
Grown(b, c) == \A a \in Content : b[a] # Absent => c[a] = b[a]

LEMMA PlanFacts ==
    ASSUME InstallAssumption, NEW plan \in AllPlans
    PROVE  /\ plan \in Seq(Artifact) /\ Len(plan) \in Nat /\ Len(plan) >= 1
           /\ \A n \in 1..Len(plan) : plan[n] \in Artifact
<1>1. plan \in Seq(Artifact) /\ plan # <<>>
  BY DEF InstallAssumption, AllPlans
<1> QED BY <1>1, EmptySeq, ElementOfSeq

LEMMA Constants ==
    ASSUME InstallAssumption
    PROVE  /\ Unpinned \notin Content /\ Absent \notin Content /\ Torn \notin Content
           /\ Torn # Absent /\ Garbage # Absent
           /\ Absent \notin Lockfile /\ Torn \notin Lockfile /\ Garbage \notin Lockfile
           /\ Shared \notin Instance
           /\ 1 \in Nat \ {0} /\ <<>> \in Seq(Content) /\ Len(<<>>) = 0
  BY EmptySeq DEF InstallAssumption

\* A job that is not at anything.
LEMMA WaitingSound == ASSUME InstallAssumption, NEW b PROVE Sound(b, Waiting)
<1>1. Waiting \in JobState
  BY Constants DEF Waiting, JobState, Pc
<1>2. Waiting.pc = "idle" /\ Waiting.locked = <<>>
  BY DEF Waiting
<1>3. \A k \in 1..Len(Waiting.locked) : FALSE
  BY <1>2, Constants
<1> QED BY <1>1, <1>2, <1>3 DEF Sound, Acquiring

\* What a job has acquired stays stored.
LEMMA SoundGrown ==
    ASSUME InstallAssumption, NEW b, NEW c, Grown(b, c), NEW r, Sound(b, r)
    PROVE  Sound(c, r)
<1>1. r.locked \in Seq(Content)
  BY DEF Sound, JobState
<1>2. \A k \in 1..Len(r.locked) : r.locked[k] \in Content
  BY <1>1, ElementOfSeq
<1>3. Absent \notin Content
  BY Constants
<1> QED BY <1>2, <1>3 DEF Sound, Grown

\* A job that goes from one stage to another of the same kind.
LEMMA GotoSound ==
    ASSUME InstallAssumption, NEW b, NEW r, Sound(b, r), NEW pc \in Pc,
           \/ pc \in Acquiring /\ r.pc \in {"alias", "aliasWrite"}
           \/ pc \notin Acquiring \cup {"idle", "unpacking"} /\ r.pc \notin Acquiring \cup {"idle"}
    PROVE  Sound(b, [r EXCEPT !.pc = pc])
<1> DEFINE q == [r EXCEPT !.pc = pc]
<1>1. r \in JobState /\ q \in JobState
  BY DEF Sound, JobState
<1>2. /\ q.pc = pc /\ q.inst = r.inst /\ q.plan = r.plan /\ q.n = r.n
      /\ q.locked = r.locked /\ q.got = r.got
  BY <1>1 DEF JobState
<1> HIDE DEF q
<1>3. Sound(b, q)
  BY <1>1, <1>2 DEF Sound, Acquiring
<1> QED BY <1>3 DEF q

\* The same, with another place in the plan.
LEMMA MoveSound ==
    ASSUME InstallAssumption, NEW b, NEW r, Sound(b, r), r.pc \notin Acquiring \cup {"idle"},
           NEW q \in JobState, q.pc \notin Acquiring \cup {"idle", "unpacking"},
           q.inst = r.inst, q.plan = r.plan, q.locked = r.locked, q.n <= Len(r.plan)
    PROVE  Sound(b, q)
BY DEF Sound, Acquiring

LEMMA UnpackedSound ==
    ASSUME InstallAssumption, NEW b, NEW r, Sound(b, r), r.pc \in {"unpack", "unpacking"}
    PROVE  Sound(b, Unpacked(r))
<1> DEFINE q == Unpacked(r)
<1>1. r \in JobState /\ r.plan \in AllPlans /\ r.n <= Len(r.plan) /\ r.n \in Nat \ {0}
  BY DEF Sound, JobState
<1>2. Len(r.plan) \in Nat /\ Len(r.plan) >= 1
  BY <1>1, PlanFacts
<1>3. /\ q \in JobState
      /\ q.inst = r.inst /\ q.plan = r.plan /\ q.locked = r.locked
      /\ q.pc \in {"provision", "unpack"}
      /\ q.n = 1 \/ (r.n # Len(r.plan) /\ q.n = r.n + 1)
  <2> DEFINE pc == IF r.n = Len(r.plan) THEN "provision" ELSE "unpack"
             n == IF r.n = Len(r.plan) THEN 1 ELSE r.n + 1
  <2>1. pc \in Pc /\ n \in Nat \ {0}
    BY <1>1 DEF Pc
  <2>2. q = [r EXCEPT !.pc = pc, !.n = n, !.got = Absent]
    BY DEF Unpacked
  <2> HIDE DEF pc, n, q
  <2>3. /\ q \in JobState /\ q.locked = r.locked /\ q.plan = r.plan /\ q.inst = r.inst
        /\ q.pc = pc /\ q.n = n
    BY <1>1, <2>1, <2>2 DEF JobState
  <2> QED BY <2>3 DEF pc, n
<1>4. q.n <= Len(r.plan)
  BY <1>1, <1>2, <1>3
<1> HIDE DEF q
<1>5. Sound(b, q)
  BY <1>3, <1>4, MoveSound DEF Acquiring
<1> QED BY <1>5 DEF q

\* An artifact that is acquired as what it should be.
LEMMA AcquiredSound ==
    ASSUME InstallAssumption, NEW b, NEW r, Sound(b, r), r.pc \in {"acquire", "aliasWrite"},
           NEW c \in Content, b[c] = c, r.plan[r.n].sha1 \in {c, Unpinned}
    PROVE  Sound(b, Acquired(r, c))
<1> DEFINE q == Acquired(r, c)
<1>1. /\ r \in JobState /\ r.plan \in AllPlans /\ r.n <= Len(r.plan) /\ r.n \in Nat \ {0}
      /\ r.locked \in Seq(Content) /\ Len(r.locked) + 1 = r.n /\ r.inst \in Instance
  BY DEF Sound, JobState, Acquiring
<1>2. Len(r.plan) \in Nat /\ Len(r.plan) >= 1 /\ Len(r.locked) \in Nat
  BY <1>1, PlanFacts
<1>3. /\ Append(r.locked, c) \in Seq(Content)
      /\ Len(Append(r.locked, c)) = Len(r.locked) + 1
      /\ \A k \in 1..Len(r.locked) : Append(r.locked, c)[k] = r.locked[k]
      /\ Append(r.locked, c)[Len(r.locked) + 1] = c
  BY <1>1, AppendProperties
<1>4. /\ q \in JobState
      /\ q.locked = Append(r.locked, c) /\ q.plan = r.plan /\ q.inst = r.inst
      /\ q.pc = IF r.n = Len(r.plan) THEN "unlink" ELSE "acquire"
      /\ q.n = IF r.n = Len(r.plan) THEN 1 ELSE r.n + 1
  <2> DEFINE pc == IF r.n = Len(r.plan) THEN "unlink" ELSE "acquire"
             n == IF r.n = Len(r.plan) THEN 1 ELSE r.n + 1
             locked == Append(r.locked, c)
  <2>1. pc \in Pc /\ n \in Nat \ {0} /\ locked \in Seq(Content)
    BY <1>1, <1>2, <1>3 DEF Pc
  <2>2. q = [r EXCEPT !.pc = pc, !.n = n, !.locked = locked, !.got = Absent]
    BY DEF Acquired
  <2> HIDE DEF pc, n, locked, q
  <2>3. /\ q \in JobState /\ q.locked = locked /\ q.plan = r.plan /\ q.inst = r.inst
        /\ q.pc = pc /\ q.n = n
    BY <1>1, <2>1, <2>2 DEF JobState
  <2> QED BY <2>3 DEF pc, n, locked
<1>5. \A k \in 1..Len(q.locked) :
        /\ b[q.locked[k]] = q.locked[k]
        /\ q.plan[k].sha1 \in {q.locked[k], Unpinned}
  <2> TAKE k \in 1..Len(q.locked)
  <2>1. CASE k = Len(r.locked) + 1
    BY <1>1, <1>3, <1>4, <2>1
  <2>2. CASE k # Len(r.locked) + 1
    <3>1. k \in 1..Len(r.locked)
      BY <1>2, <1>3, <1>4, <2>2
    <3> QED BY <1>3, <1>4, <3>1 DEF Sound
  <2> QED BY <2>1, <2>2
<1>6. q.n <= Len(q.plan)
  BY <1>1, <1>2, <1>4
<1>7. q.pc = "acquire" => Len(q.locked) + 1 = q.n
  BY <1>1, <1>2, <1>3, <1>4
<1>8. q.pc = "unlink" => Len(q.locked) = Len(q.plan)
  BY <1>1, <1>2, <1>3, <1>4
<1> HIDE DEF q
<1>9. Sound(b, q)
  BY <1>1, <1>4, <1>5, <1>6, <1>7, <1>8 DEF Sound, Acquiring
<1> QED BY <1>9 DEF q
------------------------------------------------------------------------------
(* What a step does to the jobs *)

\* One job changes, and the store grows: the jobs stay sound, and typed.
LEMMA OneJob ==
    ASSUME InstallAssumption, IInv, NEW j \in Job, NEW r, Sound(blob', r), Grown(blob, blob'),
           job' = [job EXCEPT ![j] = r]
    PROVE  /\ \A k \in Job : Sound(blob', job'[k])
           /\ job' \in [Job -> JobState]
           /\ \A k \in Job : job'[k].pc # "idle" => job'[k].n <= Len(job'[k].plan)
<1>1. job \in [Job -> JobState] /\ r \in JobState
  BY DEF IInv, TypeOK, Sound
<1>2. \A k \in Job : Sound(blob', job'[k])
  <2> TAKE k \in Job
  <2>1. CASE k = j
    BY <1>1, <2>1
  <2>2. CASE k # j
    <3>1. Sound(blob', job[k])
      BY SoundGrown DEF IInv
    <3> QED BY <1>1, <2>2, <3>1
  <2> QED BY <2>1, <2>2
<1> QED BY <1>1, <1>2 DEF Sound

\* Lockfiles stay sound while they are left alone and the store grows.
LEMMA LocksKept ==
    ASSUME InstallAssumption, TypeOK, LockSound, Grown(blob, blob'), lock' = lock
    PROVE  LockSound'
<1>1. ASSUME NEW i \in Instance, lock[i] \in Lockfile PROVE Pins(lock[i])'
  <2>1. lock[i].contents \in Seq(Content) /\ Pins(lock[i])
    BY <1>1 DEF Lockfile, LockSound
  <2>2. lock[i].plan \in AllPlans
    BY <1>1 DEF Lockfile
  <2>3. \A n \in 1..Len(lock[i].plan) : lock[i].contents[n] \in Content
    BY <2>1, ElementOfSeq DEF Pins
  <2> QED BY <2>1, <2>3, Constants DEF Pins, Grown
<1> QED BY <1>1 DEF LockSound

\* So do aliases.
LEMMA AliasesKept ==
    ASSUME InstallAssumption, AliasSound, Grown(blob, blob'),
           \A d \in Content : alias'[d] \in Content =>
               alias'[d] = alias[d] \/ (alias'[d] = d /\ blob[d] = d)
    PROVE  AliasSound'
BY Constants DEF AliasSound, Grown

\* The parts of IInv that speak of one variable each.
Files ==
    /\ placed \in [(Instance \cup {Shared}) \X Path -> Content \cup {Absent}]
    /\ natives \in [Instance \X Path -> Content \cup {Absent, Torn}]
    /\ settled \subseteq Instance

LEMMA StepKeeps ==
    ASSUME InstallAssumption, IInv, NEW j \in Job, NEW r, Sound(blob', r), Grown(blob, blob'),
           job' = [job EXCEPT ![j] = r],
           BlobOK(blob'), blob' \in [Content -> Content \cup {Absent}],
           alias' \in [Content -> Content \cup {Absent, Torn}],
           \A d \in Content : alias'[d] \in Content =>
               alias'[d] = alias[d] \/ (alias'[d] = d /\ blob[d] = d),
           lock' \in [Instance -> Lockfile \cup {Absent, Torn, Garbage}], LockSound', Files'
    PROVE  IInv'
<1>1. AliasSound'
  BY AliasesKept DEF IInv
<1>2. /\ \A k \in Job : Sound(blob', job'[k])
      /\ job' \in [Job -> JobState]
      /\ \A k \in Job : job'[k].pc # "idle" => job'[k].n <= Len(job'[k].plan)
  BY OneJob
<1>3. TypeOK'
  BY <1>2 DEF TypeOK, Files
<1> QED BY <1>1, <1>2, <1>3 DEF IInv

\* A step that leaves the store, the aliases and the lockfiles alone.
LEMMA QuietStep ==
    ASSUME InstallAssumption, IInv, NEW j \in Job, NEW r, Sound(blob, r),
           job' = [job EXCEPT ![j] = r], UNCHANGED <<blob, alias, lock>>, Files'
    PROVE  IInv'
<1>1. Sound(blob', r) /\ Grown(blob, blob')
  BY DEF Grown
<1>2. /\ BlobOK(blob') /\ blob' \in [Content -> Content \cup {Absent}]
      /\ alias' \in [Content -> Content \cup {Absent, Torn}]
      /\ lock' \in [Instance -> Lockfile \cup {Absent, Torn, Garbage}]
  BY DEF IInv, TypeOK
<1>3. LockSound'
  BY <1>1, LocksKept DEF IInv
<1>4. \A d \in Content : alias'[d] \in Content => alias'[d] = alias[d]
  OBVIOUS
<1> QED BY <1>1, <1>2, <1>3, <1>4, StepKeeps

\* A step that only changes jobs, and which instances are settled.
LEMMA JobsStep ==
    ASSUME InstallAssumption, IInv, UNCHANGED <<blob, alias, placed, natives, lock>>,
           settled' \subseteq Instance, job' \in [Job -> JobState],
           \A k \in Job : Sound(blob, job'[k])
    PROVE  IInv'
<1>1. \A k \in Job : job'[k].pc # "idle" => job'[k].n <= Len(job'[k].plan)
  BY DEF Sound
<1>2. TypeOK'
  BY <1>1 DEF IInv, TypeOK
<1>3. LockSound' /\ AliasSound'
  BY DEF IInv, LockSound, AliasSound, Pins
<1> QED BY <1>2, <1>3 DEF IInv

------------------------------------------------------------------------------
(* The invariant *)

LEMMA IInvInit == ASSUME InstallAssumption, Init PROVE IInv
<1>1. BlobOK(blob) /\ AliasSound /\ LockSound
  BY Constants DEF Init, Store!Init, BlobOK, AliasSound, LockSound
<1>2. \A j \in Job : Sound(blob, job[j])
  BY WaitingSound DEF Init
<1>3. TypeOK
  <2>1. Waiting \in JobState /\ Waiting.pc = "idle"
    BY WaitingSound DEF Sound, Waiting
  <2> QED BY <2>1 DEF Init, Store!Init, TypeOK
<1> QED BY <1>1, <1>2, <1>3 DEF IInv

LEMMA BeginKeeps ==
    ASSUME InstallAssumption, IInv, NEW j \in Job, Begin(j)
    PROVE  IInv'
<1> DEFINE others(i) == {k \in Job \ {j} : job[k].pc # "idle" /\ job[k].inst = i}
           fresh(i, plan, alone) == [Waiting EXCEPT !.pc = "acquire", !.inst = i, !.plan = plan,
                                                    !.alone = alone]
<1>0. PICK i \in Instance : \E plan \in Plans[i] :
        /\ job' = [k \in Job |-> IF k = j THEN fresh(i, plan, others(i) = {})
                                 ELSE IF k \in others(i) THEN [job[k] EXCEPT !.alone = FALSE]
                                 ELSE job[k]]
        /\ settled' = settled \ {i}
        /\ UNCHANGED <<blob, alias, placed, natives, lock>>
  BY DEF Begin
<1>1. PICK plan \in Plans[i] :
        /\ job' = [k \in Job |-> IF k = j THEN fresh(i, plan, others(i) = {})
                                 ELSE IF k \in others(i) THEN [job[k] EXCEPT !.alone = FALSE]
                                 ELSE job[k]]
        /\ settled' = settled \ {i}
        /\ UNCHANGED <<blob, alias, placed, natives, lock>>
  BY <1>0
<1>2. plan \in AllPlans /\ Len(plan) >= 1
  <2>1. plan \in AllPlans
    BY <1>1 DEF AllPlans
  <2> QED BY <2>1, PlanFacts
<1>3. ASSUME NEW alone \in BOOLEAN PROVE Sound(blob, fresh(i, plan, alone))
  <2> DEFINE q == fresh(i, plan, alone)
  <2>1. /\ q \in JobState /\ q.pc = "acquire" /\ q.inst = i /\ q.plan = plan /\ q.n = 1
        /\ q.locked = <<>>
    BY <1>2, Constants DEF Waiting, JobState, Pc
  <2> HIDE DEF q
  <2>2. \A k \in 1..Len(q.locked) : FALSE
    BY <2>1, Constants
  <2>3. Sound(blob, q)
    BY <1>2, <2>1, <2>2, Constants DEF Sound, Acquiring
  <2> QED BY <2>3 DEF q
<1>4. ASSUME NEW k \in Job PROVE Sound(blob, [job[k] EXCEPT !.alone = FALSE])
  <2> DEFINE q == [job[k] EXCEPT !.alone = FALSE]
  <2>1. Sound(blob, job[k]) /\ job[k] \in JobState
    BY DEF IInv, Sound
  <2>2. /\ q \in JobState /\ q.pc = job[k].pc /\ q.inst = job[k].inst /\ q.plan = job[k].plan
        /\ q.n = job[k].n /\ q.locked = job[k].locked /\ q.got = job[k].got
    BY <2>1 DEF JobState
  <2> HIDE DEF q
  <2>3. Sound(blob, q)
    BY <2>1, <2>2 DEF Sound
  <2> QED BY <2>3 DEF q
<1>5. \A k \in Job : Sound(blob, job'[k])
  <2> TAKE k \in Job
  <2>1. CASE k = j
    BY <1>1, <1>3, <2>1
  <2>2. CASE k # j
    <3>1. Sound(blob, job[k])
      BY DEF IInv
    <3> QED BY <1>1, <1>4, <2>2, <3>1
  <2> QED BY <2>1, <2>2
<1>6. job' \in [Job -> JobState]
  <2>1. \A k \in Job : job'[k] \in JobState
    BY <1>5 DEF Sound
  <2> QED BY <1>1, <2>1
<1>7. settled' \subseteq Instance
  BY <1>1 DEF IInv, TypeOK
<1> QED BY <1>1, <1>5, <1>6, <1>7, JobsStep

LEMMA CrashKeeps == ASSUME InstallAssumption, IInv, Crash PROVE IInv'
<1>1. \A k \in Job : Sound(blob, job'[k])
  BY WaitingSound DEF Crash
<1>2. job' \in [Job -> JobState]
  BY WaitingSound DEF Crash, Sound
<1> QED BY <1>1, <1>2, JobsStep DEF Crash, IInv, TypeOK

\* The actions of one job but Begin.
LEMMA JobKeeps ==
    ASSUME InstallAssumption, IInv, NEW j \in Job,
           \/ Reuse(j) \/ Fetch(j) \/ AliasTruncate(j) \/ AliasWrite(j)
           \/ PlaceUnlink(j) \/ PlacePut(j) \/ PassOver(j) \/ Unpack(j) \/ UnpackEnd(j)
           \/ Provision(j) \/ LockTruncate(j) \/ LockWrite(j) \/ Fail(j)
    PROVE  IInv'
<1> DEFINE r == job[j]
<1> USE DEF Becomes, Goto, Return, Current
<1>1. Sound(blob, r) /\ r \in JobState
  BY DEF IInv, Sound
<1>2. ASSUME r.pc # "idle"
      PROVE  /\ r.inst \in Instance /\ r.plan \in AllPlans /\ r.n \in 1..Len(r.plan)
             /\ r.plan[r.n] \in Artifact /\ Len(r.plan) \in Nat /\ Len(r.plan) >= 1
  <2>1. r.inst \in Instance /\ r.plan \in AllPlans /\ r.n <= Len(r.plan) /\ r.n \in Nat \ {0}
    BY <1>1, <1>2 DEF Sound, JobState
  <2>2. r.n \in 1..Len(r.plan)
    BY <2>1, PlanFacts
  <2> QED BY <2>1, <2>2, PlanFacts
<1>3. Files
  BY DEF IInv, TypeOK, Files
<1>4. /\ alias \in [Content -> Content \cup {Absent, Torn}]
      /\ lock \in [Instance -> Lockfile \cup {Absent, Torn, Garbage}]
      /\ blob \in [Content -> Content \cup {Absent}]
      /\ BlobOK(blob) /\ LockSound /\ AliasSound
  BY DEF IInv, TypeOK
<1>5. ASSUME NEW d \in Content, Resolved(d) # Absent
      PROVE  Resolved(d) = d /\ blob[d] = d
  BY <1>4, <1>5, Constants DEF Resolved, AliasSound
<1>6. Grown(blob, blob)
  BY DEF Grown
<1>7. CASE Reuse(j)
  <2> DEFINE c == r.plan[r.n].sha1
  <2>1. c \in Content
    BY <1>2, <1>7 DEF Reuse, Artifact
  <2>2. Resolved(c) = c /\ blob[c] = c
    BY <1>5, <1>7, <2>1 DEF Reuse
  <2>3. Sound(blob, Acquired(r, c))
    BY <1>1, <1>7, <2>1, <2>2, AcquiredSound DEF Reuse
  <2>4. job' = [job EXCEPT ![j] = Acquired(r, c)] /\ UNCHANGED <<blob, alias, lock>> /\ Files'
    BY <1>3, <1>7, <2>2 DEF Reuse, Files
  <2> QED BY <2>3, <2>4, QuietStep
<1>8. CASE Fetch(j)
  <2>1. PICK c \in Content :
          /\ r.plan[r.n].sha1 \in {c, Unpinned}
          /\ Store!Insert(c) \/ (blob[c] # Absent /\ UNCHANGED blob)
          /\ job' = [job EXCEPT ![j] = IF r.plan[r.n].sha1 = Unpinned THEN Acquired(r, c)
                                       ELSE [r EXCEPT !.pc = "alias", !.got = c]]
    BY <1>8 DEF Fetch
  <2>2. /\ Grown(blob, blob') /\ BlobOK(blob') /\ blob'[c] = c
        /\ blob' \in [Content -> Content \cup {Absent}]
    BY <1>4, <2>1, Constants DEF Store!Insert, Grown, BlobOK
  <2>3. Sound(blob', r)
    BY <1>1, <2>2, SoundGrown
  <2>4. Sound(blob', IF r.plan[r.n].sha1 = Unpinned THEN Acquired(r, c)
                     ELSE [r EXCEPT !.pc = "alias", !.got = c])
    <3>1. CASE r.plan[r.n].sha1 = Unpinned
      <4>1. Sound(blob', Acquired(r, c))
        BY <1>8, <2>2, <2>3, <3>1, AcquiredSound DEF Fetch
      <4> QED BY <3>1, <4>1
    <3>2. CASE r.plan[r.n].sha1 # Unpinned
      <4> DEFINE q == [r EXCEPT !.pc = "alias", !.got = c]
      <4>1. /\ q \in JobState /\ q.pc = "alias" /\ q.got = c /\ q.inst = r.inst
            /\ q.plan = r.plan /\ q.n = r.n /\ q.locked = r.locked
        BY <1>1 DEF JobState, Pc
      <4> HIDE DEF q
      <4>2. r.pc = "acquire" /\ r.plan[r.n].sha1 = c
        BY <1>8, <2>1, <3>2 DEF Fetch
      <4> HIDE DEF r
      <4>3. Sound(blob', q)
        BY <2>2, <2>3, <4>1, <4>2 DEF Sound, Acquiring
      <4> QED BY <3>2, <4>3 DEF q
    <3> QED BY <3>1, <3>2
  <2>5. UNCHANGED <<alias, lock>> /\ Files' /\ LockSound'
    BY <1>3, <1>4, <1>8, <2>2, LocksKept DEF Fetch, Files, IInv
  <2> QED BY <1>4, <2>1, <2>2, <2>4, <2>5, StepKeeps
<1>9. CASE AliasTruncate(j)
  <2> DEFINE q == [r EXCEPT !.pc = "aliasWrite"]
  <2>1. Sound(blob, q)
    BY <1>1, <1>9, GotoSound DEF AliasTruncate, Acquiring, Pc
  <2>2. /\ job' = [job EXCEPT ![j] = q] /\ UNCHANGED <<blob, lock>> /\ Files'
        /\ alias' = [alias EXCEPT ![r.plan[r.n].sha1] = Torn]
    BY <1>3, <1>9 DEF AliasTruncate, Files
  <2> HIDE DEF q
  <2>3. /\ alias' \in [Content -> Content \cup {Absent, Torn}]
        /\ \A d \in Content : alias'[d] \in Content => alias'[d] = alias[d]
    BY <1>4, <2>2, Constants
  <2>4. LockSound' /\ Grown(blob, blob') /\ Sound(blob', q)
    BY <1>4, <1>6, <2>1, <2>2, LocksKept DEF IInv
  <2> QED BY <1>4, <2>2, <2>3, <2>4, StepKeeps
<1>10. CASE AliasWrite(j)
  <2>1. r.got \in Content /\ blob[r.got] = r.got /\ r.plan[r.n].sha1 = r.got
    BY <1>1, <1>10 DEF AliasWrite, Sound
  <2> DEFINE q == Acquired(r, r.got)
  <2>2. Sound(blob, q)
    BY <1>1, <1>10, <2>1, AcquiredSound DEF AliasWrite
  <2>3. /\ job' = [job EXCEPT ![j] = q] /\ UNCHANGED <<blob, lock>> /\ Files'
        /\ alias' = [alias EXCEPT ![r.got] = r.got]
    BY <1>3, <1>10, <2>1 DEF AliasWrite, Files
  <2> HIDE DEF q
  <2>4. /\ alias' \in [Content -> Content \cup {Absent, Torn}]
        /\ \A d \in Content : alias'[d] \in Content =>
             alias'[d] = alias[d] \/ (alias'[d] = d /\ blob[d] = d)
    BY <1>4, <2>1, <2>3
  <2>5. LockSound' /\ Grown(blob, blob') /\ Sound(blob', q)
    BY <1>4, <1>6, <2>2, <2>3, LocksKept DEF IInv
  <2> QED BY <1>4, <2>3, <2>4, <2>5, StepKeeps
<1>11. CASE PlaceUnlink(j)
  <2>1. Sound(blob, [r EXCEPT !.pc = "put"])
    BY <1>1, <1>11, GotoSound DEF PlaceUnlink, Acquiring, Pc
  <2>2. /\ job' = [job EXCEPT ![j] = [r EXCEPT !.pc = "put"]]
        /\ UNCHANGED <<blob, alias, lock>> /\ Files'
    BY <1>3, <1>11 DEF PlaceUnlink, Files
  <2> QED BY <2>1, <2>2, QuietStep
<1>12. CASE PlacePut(j)
  <2> DEFINE q == IF r.n = Len(r.plan) THEN [r EXCEPT !.pc = "unpack", !.n = 1]
                  ELSE [r EXCEPT !.pc = "unlink", !.n = r.n + 1]
  <2>1. r.pc = "put" /\ r.pc \notin Acquiring \cup {"idle"}
    BY <1>12 DEF PlacePut, Acquiring
  <2> DEFINE pc == IF r.n = Len(r.plan) THEN "unpack" ELSE "unlink"
             n == IF r.n = Len(r.plan) THEN 1 ELSE r.n + 1
  <2>2. /\ q \in JobState /\ q.pc \in {"unpack", "unlink"} /\ q.inst = r.inst
        /\ q.plan = r.plan /\ q.locked = r.locked
        /\ q.n = IF r.n = Len(r.plan) THEN 1 ELSE r.n + 1
    <3>1. pc \in Pc /\ n \in Nat \ {0} /\ pc \in {"unpack", "unlink"}
      BY <1>2, <2>1 DEF Pc
    <3>2. q = [r EXCEPT !.pc = pc, !.n = n]
      BY <1>1 DEF JobState
    <3> HIDE DEF q, pc
    <3>3. /\ q \in JobState /\ q.locked = r.locked /\ q.plan = r.plan /\ q.inst = r.inst
          /\ q.pc = pc /\ q.n = n
      BY <1>1, <3>1, <3>2 DEF JobState
    <3> QED BY <3>1, <3>3
  <2>3. q.n <= Len(r.plan)
    BY <1>2, <2>1, <2>2
  <2>4. r.locked[r.n] \in Content
    <3>1. Len(r.locked) = Len(r.plan) /\ r.locked \in Seq(Content)
      BY <1>1, <2>1 DEF Sound, JobState
    <3> QED BY <1>2, <2>1, <3>1, ElementOfSeq
  <2>5. job' = [job EXCEPT ![j] = q] /\ UNCHANGED <<blob, alias, lock>> /\ Files'
    BY <1>3, <1>12, <2>4 DEF PlacePut, Files
  <2> HIDE DEF q
  <2>6. Sound(blob, q)
    BY <1>1, <2>1, <2>2, <2>3, MoveSound DEF Acquiring
  <2> QED BY <2>5, <2>6, QuietStep
<1>13. CASE PassOver(j)
  <2>1. Sound(blob, Unpacked(r))
    BY <1>1, <1>13, UnpackedSound DEF PassOver
  <2>2. /\ job' = [job EXCEPT ![j] = Unpacked(r)]
        /\ UNCHANGED <<blob, alias, lock>> /\ Files'
    BY <1>3, <1>13 DEF PassOver, Files
  <2> QED BY <2>1, <2>2, QuietStep
<1>14. CASE Unpack(j)
  <2> DEFINE at == <<r.inst, r.plan[r.n].path>>
             q == [r EXCEPT !.pc = "unpacking", !.got = placed[at]]
  <2>1. r.pc = "unpack" /\ placed[at] # Absent
    BY <1>14 DEF Unpack
  <2>2. placed[at] \in Content
    BY <1>2, <1>3, <2>1 DEF Files, Artifact
  <2>3. /\ job' = [job EXCEPT ![j] = q]
        /\ UNCHANGED <<blob, alias, lock>> /\ Files'
    BY <1>3, <1>14 DEF Unpack, Files
  <2>4. /\ q \in JobState /\ q.pc = "unpacking" /\ q.got = placed[at] /\ q.inst = r.inst
        /\ q.plan = r.plan /\ q.n = r.n /\ q.locked = r.locked
    BY <1>1, <2>2 DEF JobState, Pc
  <2> HIDE DEF q, r, at
  <2>5. Sound(blob, q)
    BY <1>1, <2>1, <2>2, <2>4 DEF Sound, Acquiring
  <2> QED BY <2>3, <2>5, QuietStep DEF r
<1>15. CASE UnpackEnd(j)
  <2>1. r.pc = "unpacking" /\ r.got \in Content
    BY <1>1, <1>15 DEF UnpackEnd, Sound
  <2>2. Sound(blob, Unpacked(r))
    BY <1>1, <2>1, UnpackedSound
  <2>3. /\ job' = [job EXCEPT ![j] = Unpacked(r)]
        /\ UNCHANGED <<blob, alias, lock>> /\ Files'
    BY <1>3, <1>15, <2>1 DEF UnpackEnd, Files
  <2> QED BY <2>2, <2>3, QuietStep
<1>16. CASE Provision(j)
  <2>1. Sound(blob, [r EXCEPT !.pc = "lock"])
    BY <1>1, <1>16, GotoSound DEF Provision, Acquiring, Pc
  <2>2. /\ job' = [job EXCEPT ![j] = [r EXCEPT !.pc = "lock"]]
        /\ UNCHANGED <<blob, alias, lock>> /\ Files'
    BY <1>3, <1>16 DEF Provision, Files
  <2> QED BY <2>1, <2>2, QuietStep
<1>17. CASE LockTruncate(j)
  <2> DEFINE q == [r EXCEPT !.pc = "lockWrite"]
  <2>1. Sound(blob, q)
    BY <1>1, <1>17, GotoSound DEF LockTruncate, Acquiring, Pc
  <2>2. /\ job' = [job EXCEPT ![j] = q] /\ UNCHANGED <<blob, alias>> /\ Files'
        /\ lock' = [lock EXCEPT ![r.inst] = Torn]
    BY <1>3, <1>17 DEF LockTruncate, Files
  <2> HIDE DEF q
  <2>3. lock' \in [Instance -> Lockfile \cup {Absent, Torn, Garbage}] /\ LockSound'
    <3>1. /\ lock' \in [Instance -> Lockfile \cup {Absent, Torn, Garbage}]
          /\ \A i \in Instance : lock'[i] = lock[i] \/ lock'[i] = Torn
      BY <1>4, <2>2
    <3>2. Torn \notin Lockfile
      BY Constants
    <3>3. ASSUME NEW i \in Instance, lock'[i] \in Lockfile
          PROVE  lock'[i] = lock[i]
      BY <3>1, <3>2, <3>3
    <3> QED BY <1>4, <2>2, <3>1, <3>3 DEF LockSound, Pins
  <2>4. Sound(blob', q) /\ Grown(blob, blob')
    BY <1>6, <2>1, <2>2
  <2> QED BY <1>4, <2>2, <2>3, <2>4, StepKeeps
<1>18. CASE LockWrite(j)
  <2> DEFINE text == [plan |-> r.plan, contents |-> r.locked]
  <2>1. PICK file \in {text, Garbage} : lock' = [lock EXCEPT ![r.inst] = file]
    BY <1>18 DEF LockWrite, Written
  <2>2. job' = [job EXCEPT ![j] = Waiting] /\ UNCHANGED <<blob, alias>> /\ Files'
    BY <1>2, <1>3, <1>18 DEF LockWrite, Files
  <2>3. text \in Lockfile /\ Pins(text)
    <3>1. r.locked \in Seq(Content) /\ r.plan \in AllPlans /\ Len(r.locked) = Len(r.plan)
      BY <1>1, <1>2, <1>18 DEF LockWrite, Sound, JobState, Acquiring
    <3> QED BY <1>1, <3>1 DEF Lockfile, Pins, Sound
  <2> HIDE DEF text
  <2>4. lock' \in [Instance -> Lockfile \cup {Absent, Torn, Garbage}] /\ LockSound'
    <3>1. file \in Lockfile => file = text
      BY <2>1, Constants
    <3>2. lock' \in [Instance -> Lockfile \cup {Absent, Torn, Garbage}]
      BY <1>4, <2>1, <2>3
    <3>3. ASSUME NEW i \in Instance, lock'[i] \in Lockfile
          PROVE  lock'[i] = text \/ lock'[i] = lock[i]
      BY <1>4, <2>1, <3>1, <3>3
    <3>4. ASSUME NEW i \in Instance, lock'[i] \in Lockfile PROVE Pins(lock[i])'
      <4>1. CASE lock'[i] = text
        BY <2>2, <2>3, <4>1 DEF Pins
      <4>2. CASE lock'[i] = lock[i]
        BY <1>4, <2>2, <3>4, <4>2 DEF Pins, LockSound
      <4> QED BY <3>3, <3>4, <4>1, <4>2
    <3> QED BY <3>2, <3>4 DEF LockSound
  <2>5. Sound(blob', Waiting) /\ Grown(blob, blob')
    BY <1>6, <2>2, WaitingSound
  <2> QED BY <1>4, <2>2, <2>4, <2>5, StepKeeps
<1>19. CASE Fail(j)
  <2>1. /\ job' = [job EXCEPT ![j] = Waiting]
        /\ UNCHANGED <<blob, alias, lock>> /\ Files'
    BY <1>3, <1>19 DEF Fail, Files
  <2> QED BY <2>1, WaitingSound, QuietStep
<1> QED
  BY <1>7, <1>8, <1>9, <1>10, <1>11, <1>12, <1>13, <1>14, <1>15, <1>16, <1>17, <1>18, <1>19

LEMMA IInvStep == ASSUME InstallAssumption, IInv, [Next]_vars PROVE IInv'
<1>1. ASSUME NEW j \in Job, Begin(j) PROVE IInv'
  BY <1>1, BeginKeeps
<1>2. ASSUME NEW j \in Job,
             \/ Reuse(j) \/ Fetch(j) \/ AliasTruncate(j) \/ AliasWrite(j)
             \/ PlaceUnlink(j) \/ PlacePut(j) \/ PassOver(j) \/ Unpack(j) \/ UnpackEnd(j)
             \/ Provision(j) \/ LockTruncate(j) \/ LockWrite(j) \/ Fail(j)
      PROVE  IInv'
  BY <1>2, JobKeeps
<1>3. ASSUME Crash PROVE IInv'
  BY <1>3, CrashKeeps
<1>4. ASSUME UNCHANGED vars PROVE IInv'
  <2>1. /\ UNCHANGED <<blob, alias, placed, natives, lock>> /\ settled' \subseteq Instance
        /\ job' \in [Job -> JobState] /\ \A k \in Job : Sound(blob, job'[k])
    BY <1>4 DEF vars, IInv, TypeOK
  <2> QED BY <2>1, JobsStep
<1> QED BY <1>1, <1>2, <1>3, <1>4 DEF Next

LEMMA IInvAlways == Spec => []IInv
<1>1. Init => IInv
  BY InstallAssumption, IInvInit
<1>2. IInv /\ [Next]_vars => IInv'
  BY InstallAssumption, IInvStep
<1> QED BY <1>1, <1>2, PTL DEF Spec

------------------------------------------------------------------------------
(* Theorems *)

\* Every variable of installs has its type, and no job is past the end of its plan
\* (install.run).
THEOREM InstallTypes == Spec => []TypeOK
<1>1. IInv => TypeOK
  BY DEF IInv
<1> QED BY <1>1, IInvAlways, PTL

\* However installs overlap, fail or die between emptying and writing an alias, an
\* alias that parses names a stored content with the digest it is an alias of
\* (Installer::acquire, ContentStore::set_alias).
THEOREM AliasesSound == Spec => []AliasSound
<1>1. IInv => AliasSound
  BY DEF IInv
<1> QED BY <1>1, IInvAlways, PTL

\* A lockfile that parses names, for each artifact of its plan and in their order, a
\* stored content with the published digest, whether it was downloaded or reused
\* (Installer::install, write_lockfile).
THEOREM LocksSound == Spec => []LockSound
<1>1. IInv => LockSound
  BY DEF IInv
<1> QED BY <1>1, IInvAlways, PTL

------------------------------------------------------------------------------
(* Instances that are left alone *)

\* What two artifacts of a plan put at one place of an instance is published with one
\* digest: the resolver keeps one classpath entry of a library but each of its natives.
OnePerPlace ==
    \A i \in Instance : \A plan \in Plans[i] : \A m, n \in 1..Len(plan) :
        m # n /\ plan[m].path = plan[n].path /\ "index" \notin {plan[m].role, plan[n].role}
            => plan[m].sha1 = plan[n].sha1 /\ plan[m].sha1 # Unpinned

After == {"unpack", "unpacking", "provision", "lock", "lockWrite"}

\* Artifact k of job r is in place, or r is just placing another there.
IsPlaced(r, p, k) ==
    r.plan[k].role # "index" =>
        \/ p[<<r.inst, r.plan[k].path>>] = r.locked[k]
        \/ r.pc = "put" /\ r.plan[k].path = r.plan[r.n].path /\ r.plan[r.n].role # "index"

IsUnpacked(r, nat, k) ==
    r.plan[k].role = "native" =>
        \/ nat[<<r.inst, r.plan[k].path>>] = r.locked[k]
        \/ r.pc = "unpacking" /\ r.plan[k].path = r.plan[r.n].path

\* What a job that has the instance to itself has done so far is there.
Placing(r, p) ==
    /\ r.pc \in {"unlink", "put"} => \A k \in 1..Len(r.plan) : k < r.n => IsPlaced(r, p, k)
    /\ r.pc \in After => \A k \in 1..Len(r.plan) : IsPlaced(r, p, k)

Unpacking(r, nat) ==
    /\ r.pc \in {"unpack", "unpacking"} =>
        \A k \in 1..Len(r.plan) : k < r.n => IsUnpacked(r, nat, k)
    /\ r.pc = "unpacking" => r.got = r.locked[r.n] /\ r.plan[r.n].role = "native"
    /\ r.pc \in {"provision", "lock", "lockWrite"} =>
        \A k \in 1..Len(r.plan) : IsUnpacked(r, nat, k)

Undisturbed(r, p, nat, locks) ==
    r.pc # "idle" /\ r.alone =>
        Placing(r, p) /\ Unpacking(r, nat) /\ (r.pc = "lockWrite" => locks[r.inst] = Torn)

At(j, i) == job[j].pc # "idle" /\ job[j].inst = i

Alone ==
    /\ \A j, k \in Job : j # k /\ At(j, job[j].inst) /\ job[j].alone => ~At(k, job[j].inst)
    /\ \A i \in settled, j \in Job : ~At(j, i)

Quiet ==
    /\ Alone
    /\ \A j \in Job : Undisturbed(job[j], placed, natives, lock)
    /\ SettledStays

\* What is at an instance, and what its lockfile names is there.
Same(i, p, nat, q, nat2) ==
    \A x \in Path : q[<<i, x>>] = p[<<i, x>>] /\ nat2[<<i, x>>] = nat[<<i, x>>]

Held(i, text, p, nat) ==
    \A n \in 1..Len(text.plan) : text.plan[n].role \in {"library", "native"} =>
        /\ p[<<i, text.plan[n].path>>] = text.contents[n]
        /\ text.plan[n].role = "native" => nat[<<i, text.plan[n].path>>] = text.contents[n]

LEMMA HeldInPlace ==
    /\ \A i, text : InPlace(i, text, {"library", "native"}) <=> Held(i, text, placed, natives)
    /\ \A i, text : InPlace(i, text, {"library", "native"})' <=> Held(i, text, placed', natives')
  BY DEF InPlace, Held, Destination

\* What is placed or unpacked at one place twice is one content.
LEMMA SamePlace ==
    ASSUME InstallAssumption, OnePerPlace, NEW b, NEW r, Sound(b, r),
           r.pc \notin Acquiring \cup {"idle"},
           NEW m \in 1..Len(r.plan), NEW n \in 1..Len(r.plan),
           r.plan[m].path = r.plan[n].path, "index" \notin {r.plan[m].role, r.plan[n].role}
    PROVE  r.locked[m] = r.locked[n]
<1>1. CASE m = n
  BY <1>1
<1>2. CASE m # n
  <2>1. PICK i \in Instance : r.plan \in Plans[i]
    BY DEF Sound, AllPlans
  <2>2. r.plan[m].sha1 = r.plan[n].sha1 /\ r.plan[m].sha1 # Unpinned
    BY <1>2, <2>1 DEF OnePerPlace
  <2>3. Len(r.locked) = Len(r.plan)
    BY DEF Sound
  <2>4. r.plan[m].sha1 \in {r.locked[m], Unpinned} /\ r.plan[n].sha1 \in {r.locked[n], Unpinned}
    BY <2>3 DEF Sound
  <2> QED BY <2>2, <2>4
<1> QED BY <1>1, <1>2

\* What others do elsewhere does not disturb a job.
LEMMA Undisturbing ==
    ASSUME InstallAssumption, NEW b, NEW r, Sound(b, r),
           NEW p, NEW nat, NEW locks, NEW q, NEW nat2, NEW locks2,
           Undisturbed(r, p, nat, locks), Same(r.inst, p, nat, q, nat2),
           locks2[r.inst] = locks[r.inst]
    PROVE  Undisturbed(r, q, nat2, locks2)
<1> SUFFICES ASSUME r.pc # "idle", r.alone PROVE Undisturbed(r, q, nat2, locks2)
  BY DEF Undisturbed
<1>1. r.plan \in AllPlans
  BY DEF Sound
<1>2. \A k \in 1..Len(r.plan) : r.plan[k].path \in Path
  BY <1>1, PlanFacts DEF Artifact
<1>3. Placing(r, p) /\ Unpacking(r, nat) /\ (r.pc = "lockWrite" => locks[r.inst] = Torn)
  BY DEF Undisturbed
<1>4. Placing(r, q)
  BY <1>2, <1>3 DEF Placing, IsPlaced, Same
<1>5. Unpacking(r, nat2)
  BY <1>2, <1>3 DEF Unpacking, IsUnpacked, Same
<1> QED BY <1>3, <1>4, <1>5 DEF Undisturbed

LEMMA HeldStays ==
    ASSUME InstallAssumption, NEW i, NEW text \in Lockfile,
           NEW p, NEW nat, NEW q, NEW nat2, Held(i, text, p, nat), Same(i, p, nat, q, nat2)
    PROVE  Held(i, text, q, nat2)
<1>1. text.plan \in AllPlans
  BY DEF Lockfile
<1>2. \A k \in 1..Len(text.plan) : text.plan[k].path \in Path
  BY <1>1, PlanFacts DEF Artifact
<1> QED BY <1>2 DEF Held, Same

\* A step of the job at an instance, or its end, keeps the others undisturbed.
LEMMA OneAtWork ==
    ASSUME InstallAssumption, IInv, Quiet, NEW j \in Job, NEW r, r = job[j], r.pc # "idle",
           NEW q, job' = [job EXCEPT ![j] = q],
           q.pc = "idle" \/ (q.inst = r.inst /\ q.alone = r.alone),
           Undisturbed(q, placed', natives', lock'),
           \A i \in Instance \ {r.inst} :
               lock'[i] = lock[i] /\ Same(i, placed, natives, placed', natives'),
           \/ settled' = settled
           \/ /\ settled' = settled \cup {r.inst} /\ q.pc = "idle" /\ r.alone
              /\ lock'[r.inst] \in Lockfile
              /\ Held(r.inst, lock'[r.inst], placed', natives')
    PROVE  Quiet'
<1>1. /\ job \in [Job -> JobState] /\ settled \subseteq Instance
      /\ \A k \in Job : Sound(blob, job[k])
  BY DEF IInv, TypeOK
<1>2. /\ \A k \in Job : job'[k] = IF k = j THEN q ELSE job[k]
  BY <1>1
<1>3. /\ \A k, l \in Job : k # l /\ At(k, job[k].inst) /\ job[k].alone => ~At(l, job[k].inst)
      /\ \A i \in settled, k \in Job : ~At(k, i)
  BY DEF Quiet, Alone
<1>4. Alone'
  <2>1. ASSUME NEW k \in Job, NEW l \in Job, k # l, job'[k].pc # "idle", job'[k].alone,
               job'[l].pc # "idle", job'[l].inst = job'[k].inst
        PROVE  FALSE
    <3>1. /\ job[k].pc # "idle" /\ job[k].inst = job'[k].inst /\ job[k].alone
          /\ job[l].pc # "idle" /\ job[l].inst = job'[l].inst
      BY <1>2, <2>1
    <3> QED BY <1>3, <2>1, <3>1 DEF At
  <2>2. ASSUME NEW i \in settled', NEW k \in Job, job'[k].pc # "idle", job'[k].inst = i
        PROVE  FALSE
    <3>1. job[k].pc # "idle" /\ job[k].inst = i
      BY <1>2, <2>2
    <3>2. i \notin settled
      BY <1>3, <3>1 DEF At
    <3>3. i = r.inst /\ q.pc = "idle" /\ r.alone
      BY <2>2, <3>2
    <3>4. k # j
      BY <1>2, <2>2, <3>3
    <3> QED BY <1>3, <3>1, <3>3, <3>4 DEF At
  <2> QED BY <2>1, <2>2 DEF Alone, At
<1>5. ASSUME NEW k \in Job PROVE Undisturbed(job'[k], placed', natives', lock')
  <2>1. CASE k = j
    BY <1>2, <2>1
  <2>2. CASE k # j
    <3>1. job'[k] = job[k] /\ Undisturbed(job[k], placed, natives, lock)
      BY <1>2, <2>2 DEF Quiet
    <3>2. CASE job[k].pc # "idle" /\ job[k].alone
      <4>1. job[k].inst \in Instance /\ job[k].inst # r.inst
        BY <1>1, <1>3, <2>2, <3>2 DEF At, Sound
      <4> QED BY <1>1, <3>1, <4>1, Undisturbing
    <3>3. CASE ~(job[k].pc # "idle" /\ job[k].alone)
      BY <3>1, <3>3 DEF Undisturbed
    <3> QED BY <3>2, <3>3
  <2> QED BY <2>1, <2>2
<1>6. SettledStays'
  <2>1. ASSUME NEW i \in settled
        PROVE  lock'[i] \in Lockfile /\ Held(i, lock'[i], placed', natives')
    <3>1. lock[i] \in Lockfile /\ Held(i, lock[i], placed, natives)
      BY HeldInPlace DEF Quiet, SettledStays
    <3>2. i \in Instance /\ i # r.inst
      BY <1>1, <1>3 DEF At
    <3> QED BY <3>1, <3>2, HeldStays
  <2>2. \A i \in settled' : lock'[i] \in Lockfile /\ Held(i, lock'[i], placed', natives')
    BY <2>1
  <2> QED BY <2>2, HeldInPlace DEF SettledStays
<1> QED BY <1>4, <1>5, <1>6 DEF Quiet

\* A job that works alone goes on from what it has placed and unpacked so far.
LEMMA AcquireOn ==
    ASSUME NEW q, NEW p, NEW nat, NEW locks, q.n \in Nat \ {0},
           q.pc \in Acquiring \cup {"idle"} \/ (q.pc = "unlink" /\ q.n = 1)
    PROVE  Undisturbed(q, p, nat, locks)
<1>1. Placing(q, p)
  <2>1. \A k \in 1..Len(q.plan) : k < 1 => FALSE
    OBVIOUS
  <2> QED BY <2>1 DEF Placing, Acquiring, After
<1>2. Unpacking(q, nat)
  BY DEF Unpacking, Acquiring
<1> QED BY <1>1, <1>2 DEF Undisturbed, Acquiring

LEMMA UnlinkOn ==
    ASSUME InstallAssumption, NEW b, NEW r, Sound(b, r), r.pc = "unlink",
           NEW p, NEW nat, NEW locks, Undisturbed(r, p, nat, locks),
           NEW q, q.pc = "put", q.inst = r.inst, q.alone = r.alone, q.plan = r.plan,
           q.n = r.n, q.locked = r.locked,
           NEW place, NEW x,
           p \in [(Instance \cup {Shared}) \X Path -> Content \cup {Absent}],
           place = [p EXCEPT ![Destination(r.inst, r.plan[r.n])] = x]
    PROVE  Undisturbed(q, place, nat, locks)
<1> SUFFICES ASSUME r.alone PROVE Undisturbed(q, place, nat, locks)
  BY DEF Undisturbed
<1>1. /\ r.plan \in AllPlans /\ r.inst \in Instance
  BY DEF Sound
<1>2. \A k \in 1..Len(r.plan) : r.plan[k].path \in Path
  BY <1>1, PlanFacts DEF Artifact
<1>3. \A k \in 1..Len(r.plan) : k < r.n => IsPlaced(r, p, k)
  BY DEF Undisturbed, Placing
<1>4. ASSUME NEW k \in 1..Len(q.plan), k < q.n PROVE IsPlaced(q, place, k)
  <2> SUFFICES ASSUME r.plan[k].role # "index",
                      ~(r.plan[k].path = r.plan[r.n].path /\ r.plan[r.n].role # "index")
               PROVE  place[<<r.inst, r.plan[k].path>>] = r.locked[k]
    BY DEF IsPlaced
  <2>1. p[<<r.inst, r.plan[k].path>>] = r.locked[k]
    BY <1>3, <1>4 DEF IsPlaced
  <2>2. Destination(r.inst, r.plan[r.n]) # <<r.inst, r.plan[k].path>>
    BY <1>1, Constants DEF Destination
  <2>3. <<r.inst, r.plan[k].path>> \in (Instance \cup {Shared}) \X Path
    BY <1>1, <1>2, <1>4
  <2> QED BY <2>1, <2>2, <2>3
<1>5. Placing(q, place)
  BY <1>4 DEF Placing, After
<1> QED BY <1>5 DEF Undisturbed, Unpacking

LEMMA PutOn ==
    ASSUME InstallAssumption, OnePerPlace, NEW b, NEW r, Sound(b, r), r.pc = "put",
           NEW p, NEW nat, NEW locks, Undisturbed(r, p, nat, locks),
           NEW q, q.inst = r.inst, q.alone = r.alone, q.plan = r.plan, q.locked = r.locked,
           \/ q.pc = "unpack" /\ q.n = 1 /\ r.n = Len(r.plan)
           \/ q.pc = "unlink" /\ q.n = r.n + 1,
           NEW place,
           p \in [(Instance \cup {Shared}) \X Path -> Content \cup {Absent}],
           place = [p EXCEPT ![Destination(r.inst, r.plan[r.n])] = r.locked[r.n]]
    PROVE  Undisturbed(q, place, nat, locks)
<1> SUFFICES ASSUME r.alone PROVE Undisturbed(q, place, nat, locks)
  BY DEF Undisturbed
<1>1. r.plan \in AllPlans /\ r.inst \in Instance /\ r.n \in Nat \ {0} /\ r.n <= Len(r.plan)
  BY DEF Sound, JobState
<1>2. /\ \A k \in 1..Len(r.plan) : r.plan[k].path \in Path
      /\ Len(r.plan) \in Nat
  BY <1>1, PlanFacts DEF Artifact
<1>3. r.n \in 1..Len(r.plan)
  BY <1>1, <1>2
<1>4. \A k \in 1..Len(r.plan) : k < r.n => IsPlaced(r, p, k)
  BY DEF Undisturbed, Placing
<1>5. ASSUME NEW k \in 1..Len(r.plan), k <= r.n, r.plan[k].role # "index"
      PROVE  place[<<r.inst, r.plan[k].path>>] = r.locked[k]
  <2>1. <<r.inst, r.plan[k].path>> \in (Instance \cup {Shared}) \X Path
    BY <1>1, <1>2
  <2>2. CASE r.plan[k].path = r.plan[r.n].path /\ r.plan[r.n].role # "index"
    <3>0. "index" \notin {r.plan[k].role, r.plan[r.n].role}
      BY <1>5, <2>2
    <3>1. r.locked[k] = r.locked[r.n]
      BY <1>3, <2>2, <3>0, SamePlace DEF Acquiring
    <3>2. Destination(r.inst, r.plan[r.n]) = <<r.inst, r.plan[k].path>>
      BY <2>2 DEF Destination
    <3> QED BY <2>1, <3>1, <3>2
  <2>3. CASE ~(r.plan[k].path = r.plan[r.n].path /\ r.plan[r.n].role # "index")
    <3>1. Destination(r.inst, r.plan[r.n]) # <<r.inst, r.plan[k].path>>
      BY <1>1, <2>3, Constants DEF Destination
    <3>2. k < r.n
      BY <1>1, <1>5, <2>3
    <3>3. p[<<r.inst, r.plan[k].path>>] = r.locked[k]
      BY <1>4, <1>5, <2>3, <3>2 DEF IsPlaced
    <3> QED BY <2>1, <3>1, <3>3
  <2> QED BY <2>2, <2>3
<1>6. /\ 1..Len(q.plan) = 1..Len(r.plan)
      /\ \A k \in 1..Len(r.plan) : k <= r.n => IsPlaced(q, place, k)
  <2>1. ASSUME NEW k \in 1..Len(r.plan), k <= r.n PROVE IsPlaced(q, place, k)
    BY <1>5, <2>1 DEF IsPlaced
  <2> QED BY <2>1
<1>7. CASE q.pc = "unpack" /\ q.n = 1 /\ r.n = Len(r.plan)
  <2>1. \A k \in 1..Len(r.plan) : k <= r.n
    BY <1>2, <1>7
  <2>2. \A k \in 1..Len(q.plan) : IsPlaced(q, place, k)
    BY <1>6, <2>1
  <2>3. Placing(q, place)
    BY <1>7, <2>2 DEF Placing
  <2>4. Unpacking(q, nat)
    BY <1>2, <1>7 DEF Unpacking
  <2> QED BY <1>7, <2>3, <2>4 DEF Undisturbed
<1>8. CASE q.pc = "unlink" /\ q.n = r.n + 1
  <2>1. \A k \in 1..Len(r.plan) : k < q.n => k <= r.n
    BY <1>1, <1>2, <1>8
  <2>2. \A k \in 1..Len(q.plan) : k < q.n => IsPlaced(q, place, k)
    BY <1>6, <2>1
  <2>3. Placing(q, place)
    BY <1>8, <2>2 DEF Placing, After
  <2> QED BY <1>8, <2>3 DEF Undisturbed, Unpacking
<1> QED BY <1>7, <1>8

\* Once an artifact is unpacked, or passed over, those before it are unpacked too.
LEMMA UnpackedOn ==
    ASSUME InstallAssumption, OnePerPlace, NEW b, NEW r, Sound(b, r),
           NEW p, NEW nat, NEW locks, Undisturbed(r, p, nat, locks), NEW nat2,
           nat \in [Instance \X Path -> Content \cup {Absent, Torn}],
           \/ r.pc = "unpack" /\ r.plan[r.n].role # "native" /\ nat2 = nat
           \/ r.pc = "unpacking" /\ nat2 = [nat EXCEPT ![<<r.inst, r.plan[r.n].path>>] = r.got]
    PROVE  Undisturbed(Unpacked(r), p, nat2, locks)
<1> DEFINE q == Unpacked(r)
<1>0. r \in JobState
  BY DEF Sound
<1>1. /\ r.plan \in AllPlans /\ r.inst \in Instance /\ r.n \in Nat \ {0} /\ r.n <= Len(r.plan)
  BY DEF Sound, JobState
<1>2. /\ \A k \in 1..Len(r.plan) : r.plan[k].path \in Path
      /\ Len(r.plan) \in Nat
  BY <1>1, PlanFacts DEF Artifact
<1>3. r.n \in 1..Len(r.plan)
  BY <1>1, <1>2
<1>4. /\ q.inst = r.inst /\ q.plan = r.plan /\ q.locked = r.locked /\ q.alone = r.alone
      /\ \/ r.n = Len(r.plan) /\ q.pc = "provision" /\ q.n = 1
         \/ r.n # Len(r.plan) /\ q.pc = "unpack" /\ q.n = r.n + 1
  BY <1>0 DEF Unpacked, JobState
<1> HIDE DEF q
<1> SUFFICES ASSUME r.alone PROVE Undisturbed(q, p, nat2, locks)
  BY <1>4 DEF Undisturbed, q
<1>5. Placing(q, p)
  <2>1. \A k \in 1..Len(r.plan) : IsPlaced(r, p, k)
    BY DEF Undisturbed, Placing, After
  <2>2. \A k \in 1..Len(r.plan) : IsPlaced(q, p, k)
    BY <1>4, <2>1 DEF IsPlaced
  <2> QED BY <1>4, <2>2 DEF Placing, After
<1>6. Unpacking(r, nat)
  BY DEF Undisturbed
<1>7. ASSUME NEW k \in 1..Len(r.plan), k <= r.n PROVE IsUnpacked(q, nat2, k)
  <2> SUFFICES ASSUME r.plan[k].role = "native"
               PROVE  nat2[<<r.inst, r.plan[k].path>>] = r.locked[k]
    BY <1>4 DEF IsUnpacked
  <2>1. CASE r.pc = "unpack" /\ r.plan[r.n].role # "native" /\ nat2 = nat
    <3>1. k < r.n
      BY <1>1, <1>7, <2>1
    <3>2. IsUnpacked(r, nat, k)
      BY <1>6, <2>1, <3>1 DEF Unpacking
    <3> QED BY <2>1, <3>2 DEF IsUnpacked
  <2>2. CASE r.pc = "unpacking" /\ nat2 = [nat EXCEPT ![<<r.inst, r.plan[r.n].path>>] = r.got]
    <3>1. r.got = r.locked[r.n] /\ r.plan[r.n].role = "native"
      BY <1>6, <2>2 DEF Unpacking
    <3>2. <<r.inst, r.plan[k].path>> \in Instance \X Path
      BY <1>1, <1>2
    <3>3. CASE r.plan[k].path = r.plan[r.n].path
      <4>1. r.locked[k] = r.locked[r.n]
        BY <1>3, <2>2, <3>1, <3>3, SamePlace DEF Acquiring
      <4> QED BY <2>2, <3>1, <3>2, <3>3, <4>1
    <3>4. CASE r.plan[k].path # r.plan[r.n].path
      <4>1. k < r.n
        BY <1>1, <1>7, <3>4
      <4>2. IsUnpacked(r, nat, k)
        BY <1>6, <2>2, <4>1 DEF Unpacking
      <4> QED BY <2>2, <3>2, <3>4, <4>2 DEF IsUnpacked
    <3> QED BY <3>3, <3>4
  <2> QED BY <2>1, <2>2
<1>8. Unpacking(q, nat2)
  <2>1. CASE r.n = Len(r.plan) /\ q.pc = "provision" /\ q.n = 1
    <3>1. \A k \in 1..Len(r.plan) : IsUnpacked(q, nat2, k)
      BY <1>2, <1>7, <2>1
    <3> QED BY <1>4, <2>1, <3>1 DEF Unpacking
  <2>2. CASE r.n # Len(r.plan) /\ q.pc = "unpack" /\ q.n = r.n + 1
    <3>1. \A k \in 1..Len(r.plan) : k < q.n => IsUnpacked(q, nat2, k)
      BY <1>1, <1>2, <1>7, <2>2
    <3> QED BY <1>4, <2>2, <3>1 DEF Unpacking
  <2> QED BY <1>4, <2>1, <2>2
<1>9. q.pc # "lockWrite"
  BY <1>4
<1> QED BY <1>5, <1>8, <1>9 DEF Undisturbed, q

\* So does all that is placed and unpacked, until the lockfile is written.
LEMMA ProvidedOn ==
    ASSUME NEW r, NEW p, NEW nat, NEW locks, Undisturbed(r, p, nat, locks), r.alone,
           r.pc \in {"provision", "lock"},
           NEW q, q.pc \in {"lock", "lockWrite"}, q.inst = r.inst, q.plan = r.plan,
           q.locked = r.locked, NEW locks2, q.pc = "lockWrite" => locks2[q.inst] = Torn
    PROVE  Undisturbed(q, p, nat, locks2)
<1>1. /\ \A k \in 1..Len(r.plan) : IsPlaced(r, p, k)
      /\ \A k \in 1..Len(r.plan) : IsUnpacked(r, nat, k)
  BY DEF Undisturbed, Placing, Unpacking, After
<1>2. \A k \in 1..Len(q.plan) : IsPlaced(q, p, k)
  BY <1>1 DEF IsPlaced
<1>3. \A k \in 1..Len(q.plan) : IsUnpacked(q, nat, k)
  BY <1>1 DEF IsUnpacked
<1>4. Placing(q, p)
  BY <1>2 DEF Placing
<1>5. Unpacking(q, nat)
  BY <1>3 DEF Unpacking
<1> QED BY <1>4, <1>5 DEF Undisturbed

LEMMA JobQuiet ==
    ASSUME InstallAssumption, OnePerPlace, IInv, Quiet, NEW j \in Job,
           \/ Reuse(j) \/ Fetch(j) \/ AliasTruncate(j) \/ AliasWrite(j)
           \/ PlaceUnlink(j) \/ PlacePut(j) \/ PassOver(j) \/ Unpack(j) \/ UnpackEnd(j)
           \/ Provision(j) \/ LockTruncate(j) \/ LockWrite(j) \/ Fail(j)
    PROVE  Quiet'
<1> DEFINE Elsewhere(i) == \A k \in Instance \ {i} :
               lock'[k] = lock[k] /\ Same(k, placed, natives, placed', natives')
<1>1. PICK r : r = job[j]
  OBVIOUS
<1>2. /\ r \in JobState /\ Sound(blob, r) /\ Undisturbed(r, placed, natives, lock)
      /\ placed \in [(Instance \cup {Shared}) \X Path -> Content \cup {Absent}]
      /\ natives \in [Instance \X Path -> Content \cup {Absent, Torn}]
      /\ lock \in [Instance -> Lockfile \cup {Absent, Torn, Garbage}]
  BY <1>1 DEF IInv, TypeOK, Quiet
<1>3. r.pc # "idle"
  BY <1>1 DEF Reuse, Fetch, AliasTruncate, AliasWrite, PlaceUnlink, PlacePut, PassOver,
              Unpack, UnpackEnd, Provision, LockTruncate, LockWrite, Fail
<1>4. /\ r.plan \in AllPlans /\ r.inst \in Instance /\ r.n \in Nat \ {0} /\ r.n <= Len(r.plan)
  BY <1>2, <1>3 DEF Sound, JobState
<1>5. /\ \A k \in 1..Len(r.plan) : r.plan[k].path \in Path
      /\ Len(r.plan) \in Nat /\ r.n \in 1..Len(r.plan)
  <2>1. Len(r.plan) \in Nat /\ \A k \in 1..Len(r.plan) : r.plan[k] \in Artifact
    BY <1>4, PlanFacts
  <2> QED BY <1>4, <2>1 DEF Artifact
<1>6. ASSUME UNCHANGED <<placed, natives>>, \A k \in Instance \ {r.inst} : lock'[k] = lock[k]
      PROVE  Elsewhere(r.inst)
  BY <1>6 DEF Same
<1>7. ASSUME NEW q, job' = [job EXCEPT ![j] = q], q.pc = "idle" \/ (q.inst = r.inst /\ q.alone = r.alone),
             Undisturbed(q, placed', natives', lock'), Elsewhere(r.inst), settled' = settled
      PROVE  Quiet'
  BY <1>1, <1>3, <1>7, OneAtWork
<1> HIDE DEF Elsewhere
<1>8. ASSUME NEW c, c \in Content,
             job' = [job EXCEPT ![j] = Acquired(r, c)], UNCHANGED <<placed, natives, lock, settled>>
      PROVE  Quiet'
  <2> DEFINE q == Acquired(r, c)
  <2>1. /\ q.inst = r.inst /\ q.alone = r.alone
        /\ q.n \in Nat \ {0}
        /\ q.pc = "acquire" \/ (q.pc = "unlink" /\ q.n = 1)
    BY <1>2, <1>4 DEF Acquired, JobState
  <2>2. job' = [job EXCEPT ![j] = q]
    BY <1>8
  <2> HIDE DEF q
  <2>3. Undisturbed(q, placed', natives', lock')
    BY <2>1, AcquireOn DEF Acquiring
  <2> QED BY <1>6, <1>7, <1>8, <2>1, <2>2, <2>3
<1>9. ASSUME NEW q \in JobState, q.pc \in Acquiring, q.inst = r.inst, q.alone = r.alone,
             job' = [job EXCEPT ![j] = q], UNCHANGED <<placed, natives, lock, settled>>
      PROVE  Quiet'
  <2>1. q.n \in Nat \ {0}
    BY DEF JobState
  <2>2. Undisturbed(q, placed', natives', lock')
    BY <1>9, <2>1, AcquireOn
  <2> QED BY <1>6, <1>7, <1>9, <2>2
<1>10. CASE Reuse(j)
  <2>1. Resolved(r.plan[r.n].sha1) \in Content
    BY <1>1, <1>10 DEF Reuse, Resolved, Current
  <2>2. /\ job' = [job EXCEPT ![j] = Acquired(r, Resolved(r.plan[r.n].sha1))]
        /\ UNCHANGED <<placed, natives, lock, settled>>
    BY <1>1, <1>10 DEF Reuse, Becomes, Current
  <2> QED BY <1>8, <2>1, <2>2
<1>11. CASE Fetch(j)
  <2>1. PICK c \in Content :
          job' = [job EXCEPT ![j] = IF Current(j).sha1 = Unpinned THEN Acquired(r, c)
                                    ELSE [r EXCEPT !.pc = "alias", !.got = c]]
    BY <1>1, <1>11 DEF Fetch, Becomes
  <2>2. UNCHANGED <<placed, natives, lock, settled>>
    BY <1>11 DEF Fetch
  <2>3. CASE Current(j).sha1 = Unpinned
    BY <1>8, <2>1, <2>2, <2>3
  <2>4. CASE Current(j).sha1 # Unpinned
    <3> DEFINE q == [r EXCEPT !.pc = "alias", !.got = c]
    <3>1. q \in JobState /\ q.pc = "alias" /\ q.inst = r.inst /\ q.alone = r.alone
      BY <1>2 DEF JobState, Pc
    <3>2. job' = [job EXCEPT ![j] = q]
      BY <2>1, <2>4
    <3> HIDE DEF q
    <3> QED BY <1>9, <2>2, <3>1, <3>2 DEF Acquiring
  <2> QED BY <2>3, <2>4
<1>12. CASE AliasTruncate(j)
  <2> DEFINE q == [r EXCEPT !.pc = "aliasWrite"]
  <2>1. q \in JobState /\ q.pc = "aliasWrite" /\ q.inst = r.inst /\ q.alone = r.alone
    BY <1>2 DEF JobState, Pc
  <2>2. job' = [job EXCEPT ![j] = q] /\ UNCHANGED <<placed, natives, lock, settled>>
    BY <1>1, <1>12 DEF AliasTruncate, Goto, Becomes
  <2> HIDE DEF q
  <2> QED BY <1>9, <2>1, <2>2 DEF Acquiring
<1>13. CASE AliasWrite(j)
  <2>1. r.got \in Content
    BY <1>1, <1>2, <1>13 DEF AliasWrite, Sound
  <2>2. /\ job' = [job EXCEPT ![j] = Acquired(r, r.got)]
        /\ UNCHANGED <<placed, natives, lock, settled>>
    BY <1>1, <1>13 DEF AliasWrite, Becomes
  <2> QED BY <1>8, <2>1, <2>2
<1>14. ASSUME NEW x, placed' = [placed EXCEPT ![Destination(r.inst, r.plan[r.n])] = x],
              UNCHANGED <<natives, lock>>
       PROVE  Elsewhere(r.inst)
  <2>1. \A k \in Instance \ {r.inst}, y \in Path :
            /\ <<k, y>> # Destination(r.inst, r.plan[r.n])
            /\ <<k, y>> \in (Instance \cup {Shared}) \X Path
    BY Constants DEF Destination
  <2> QED BY <1>2, <1>14, <2>1 DEF Elsewhere, Same
<1>15. CASE PlaceUnlink(j)
  <2> DEFINE q == [r EXCEPT !.pc = "put"]
  <2>1. /\ q.pc = "put" /\ q.inst = r.inst /\ q.alone = r.alone /\ q.plan = r.plan
        /\ q.n = r.n /\ q.locked = r.locked
    BY <1>2 DEF JobState
  <2>2. /\ r.pc = "unlink" /\ job' = [job EXCEPT ![j] = q] /\ UNCHANGED <<natives, lock, settled>>
        /\ placed' = [placed EXCEPT ![Destination(r.inst, r.plan[r.n])] = Absent]
    BY <1>1, <1>15 DEF PlaceUnlink, Goto, Becomes, Current
  <2> HIDE DEF q
  <2>3. Undisturbed(q, placed', natives, lock)
    BY <1>2, <2>1, <2>2, UnlinkOn
  <2> QED BY <1>7, <1>14, <2>1, <2>2, <2>3
<1>16. CASE PlacePut(j)
  <2> DEFINE q == IF r.n = Len(r.plan) THEN [r EXCEPT !.pc = "unpack", !.n = 1]
                  ELSE [r EXCEPT !.pc = "unlink", !.n = r.n + 1]
  <2>1. /\ q.inst = r.inst /\ q.alone = r.alone /\ q.plan = r.plan /\ q.locked = r.locked
        /\ \/ q.pc = "unpack" /\ q.n = 1 /\ r.n = Len(r.plan)
           \/ q.pc = "unlink" /\ q.n = r.n + 1
    BY <1>2 DEF JobState
  <2>2. /\ r.pc = "put" /\ job' = [job EXCEPT ![j] = q] /\ UNCHANGED <<natives, lock, settled>>
        /\ placed' = [placed EXCEPT ![Destination(r.inst, r.plan[r.n])] = r.locked[r.n]]
    BY <1>1, <1>16 DEF PlacePut, Becomes, Current
  <2> HIDE DEF q
  <2>3. Undisturbed(q, placed', natives, lock)
    BY <1>2, <2>1, <2>2, PutOn
  <2> QED BY <1>7, <1>14, <2>1, <2>2, <2>3
<1>17. ASSUME NEW x, natives' = [natives EXCEPT ![<<r.inst, r.plan[r.n].path>>] = x],
              UNCHANGED <<placed, lock>>
       PROVE  Elsewhere(r.inst)
  <2>1. \A k \in Instance \ {r.inst}, y \in Path :
            <<k, y>> # <<r.inst, r.plan[r.n].path>> /\ <<k, y>> \in Instance \X Path
    OBVIOUS
  <2> QED BY <1>2, <1>17, <2>1 DEF Elsewhere, Same
<1>18. Unpacked(r).inst = r.inst /\ Unpacked(r).alone = r.alone
  BY <1>2 DEF Unpacked, JobState
<1>19. CASE PassOver(j)
  <2>1. /\ r.pc = "unpack" /\ r.plan[r.n].role # "native"
        /\ job' = [job EXCEPT ![j] = Unpacked(r)] /\ UNCHANGED <<placed, natives, lock, settled>>
    BY <1>1, <1>19 DEF PassOver, Becomes, Current
  <2>2. Undisturbed(Unpacked(r), placed, natives, lock)
    BY <1>2, <2>1, UnpackedOn
  <2> QED BY <1>6, <1>7, <1>18, <2>1, <2>2
<1>20. CASE UnpackEnd(j)
  <2>1. /\ r.pc = "unpacking" /\ job' = [job EXCEPT ![j] = Unpacked(r)]
        /\ UNCHANGED <<placed, lock, settled>>
        /\ natives' = [natives EXCEPT ![<<r.inst, r.plan[r.n].path>>] = r.got]
    BY <1>1, <1>20 DEF UnpackEnd, Becomes, Current
  <2>2. Undisturbed(Unpacked(r), placed, natives', lock)
    BY <1>2, <2>1, UnpackedOn
  <2> QED BY <1>7, <1>17, <1>18, <2>1, <2>2
<1>21. CASE Unpack(j)
  <2> DEFINE at == <<r.inst, r.plan[r.n].path>>
             q == [r EXCEPT !.pc = "unpacking", !.got = placed[at]]
  <2>1. /\ r.pc = "unpack" /\ r.plan[r.n].role = "native" /\ job' = [job EXCEPT ![j] = q]
        /\ natives' = [natives EXCEPT ![at] = Torn] /\ UNCHANGED <<placed, lock, settled>>
    BY <1>1, <1>21 DEF Unpack, Becomes, Current
  <2>2. /\ q.pc = "unpacking" /\ q.inst = r.inst /\ q.alone = r.alone /\ q.plan = r.plan
        /\ q.n = r.n /\ q.locked = r.locked /\ q.got = placed[at]
    BY <1>2 DEF JobState
  <2> HIDE DEF q
  <2>3. ASSUME r.alone PROVE Placing(q, placed) /\ Unpacking(q, natives')
    <3>1. /\ \A k \in 1..Len(r.plan) : IsPlaced(r, placed, k)
          /\ \A k \in 1..Len(r.plan) : k < r.n => IsUnpacked(r, natives, k)
      BY <1>2, <2>1, <2>3 DEF Undisturbed, Placing, Unpacking, After
    <3>2. Placing(q, placed)
      BY <2>1, <2>2, <3>1 DEF Placing, IsPlaced
    <3>3. q.got = q.locked[q.n]
      BY <1>5, <2>1, <2>2, <3>1 DEF IsPlaced
    <3>4. ASSUME NEW k \in 1..Len(r.plan), k < r.n PROVE IsUnpacked(q, natives', k)
      <4>1. <<r.inst, r.plan[k].path>> \in Instance \X Path
        BY <1>4, <1>5
      <4>2. IsUnpacked(r, natives, k)
        BY <3>1, <3>4
      <4> QED BY <1>2, <2>1, <2>2, <4>1, <4>2 DEF IsUnpacked
    <3> QED BY <2>1, <2>2, <3>2, <3>3, <3>4 DEF Unpacking
  <2>4. Undisturbed(q, placed', natives', lock')
    BY <2>1, <2>2, <2>3 DEF Undisturbed
  <2> QED BY <1>7, <1>17, <2>1, <2>2, <2>4
<1>22. CASE Provision(j)
  <2> DEFINE q == [r EXCEPT !.pc = "lock"]
  <2>1. /\ r.pc = "provision" /\ job' = [job EXCEPT ![j] = q]
        /\ UNCHANGED <<placed, natives, lock, settled>>
    BY <1>1, <1>22 DEF Provision, Goto, Becomes
  <2>2. /\ q.pc = "lock" /\ q.inst = r.inst /\ q.alone = r.alone /\ q.plan = r.plan
        /\ q.locked = r.locked
    BY <1>2 DEF JobState
  <2> HIDE DEF q
  <2>3. ASSUME r.alone PROVE Undisturbed(q, placed, natives, lock)
    BY <1>2, <2>1, <2>2, <2>3, ProvidedOn
  <2>4. Undisturbed(q, placed', natives', lock')
    BY <2>1, <2>2, <2>3 DEF Undisturbed
  <2> QED BY <1>6, <1>7, <2>1, <2>2, <2>4
<1>23. CASE LockTruncate(j)
  <2> DEFINE q == [r EXCEPT !.pc = "lockWrite"]
  <2>1. /\ r.pc = "lock" /\ job' = [job EXCEPT ![j] = q]
        /\ UNCHANGED <<placed, natives, settled>> /\ lock' = [lock EXCEPT ![r.inst] = Torn]
    BY <1>1, <1>23 DEF LockTruncate, Goto, Becomes
  <2>2. /\ q.pc = "lockWrite" /\ q.inst = r.inst /\ q.alone = r.alone /\ q.plan = r.plan
        /\ q.locked = r.locked
    BY <1>2 DEF JobState
  <2> HIDE DEF q
  <2>3. lock'[r.inst] = Torn /\ \A k \in Instance \ {r.inst} : lock'[k] = lock[k]
    BY <1>2, <1>4, <2>1
  <2>4. ASSUME r.alone PROVE Undisturbed(q, placed, natives, lock')
    <3>1. lock'[q.inst] = Torn
      BY <2>2, <2>3
    <3>2. Undisturbed(r, placed, natives, lock) /\ r.pc \in {"provision", "lock"}
      BY <1>2, <2>1
    <3>3. q.pc \in {"lock", "lockWrite"} /\ (q.pc = "lockWrite" => lock'[q.inst] = Torn)
      BY <2>2, <3>1
    <3>4. q.inst = r.inst /\ q.plan = r.plan /\ q.locked = r.locked
      BY <2>2
    <3> QED BY <2>4, <3>2, <3>3, <3>4, ProvidedOn
  <2>5. Undisturbed(q, placed', natives', lock')
    BY <2>1, <2>2, <2>4 DEF Undisturbed
  <2> QED BY <1>6, <1>7, <2>1, <2>2, <2>3, <2>5
<1>24. Waiting.pc = "idle" /\ Undisturbed(Waiting, placed', natives', lock')
  BY DEF Waiting, Undisturbed
<1>25. CASE LockWrite(j)
  <2> DEFINE text == [plan |-> r.plan, contents |-> r.locked]
  <2>1. PICK file \in Written(lock[r.inst], text) : lock' = [lock EXCEPT ![r.inst] = file]
    BY <1>1, <1>25 DEF LockWrite
  <2>2. /\ r.pc = "lockWrite" /\ job' = [job EXCEPT ![j] = Waiting] /\ UNCHANGED <<placed, natives>>
        /\ settled' = IF r.alone THEN settled \cup {r.inst} ELSE settled
    BY <1>1, <1>25 DEF LockWrite, Return, Becomes
  <2>3. Elsewhere(r.inst)
    BY <1>2, <1>6, <2>1, <2>2
  <2>4. CASE r.alone
    <3>1. /\ \A k \in 1..Len(r.plan) : IsPlaced(r, placed, k)
          /\ \A k \in 1..Len(r.plan) : IsUnpacked(r, natives, k)
          /\ lock[r.inst] = Torn
      BY <1>2, <2>2, <2>4 DEF Undisturbed, Placing, Unpacking, After
    <3>2. lock'[r.inst] = text
      BY <1>2, <1>4, <2>1, <3>1 DEF Written
    <3>3. text \in Lockfile
      BY <1>2, <1>4 DEF Lockfile, JobState
    <3>4. Held(r.inst, text, placed, natives)
      BY <2>2, <3>1 DEF Held, IsPlaced, IsUnpacked
    <3>5. Held(r.inst, lock'[r.inst], placed', natives') /\ lock'[r.inst] \in Lockfile
      BY <2>2, <3>2, <3>3, <3>4
    <3> QED BY <1>1, <1>3, <1>24, <2>2, <2>3, <2>4, <3>5, OneAtWork DEF Elsewhere
  <2>5. CASE ~r.alone
    BY <1>7, <1>24, <2>2, <2>3, <2>5
  <2> QED BY <2>4, <2>5
<1>26. CASE Fail(j)
  <2>1. job' = [job EXCEPT ![j] = Waiting] /\ UNCHANGED <<placed, natives, lock, settled>>
    BY <1>26 DEF Fail, Return, Becomes
  <2> QED BY <1>6, <1>7, <1>24, <2>1
<1> QED
  BY <1>10, <1>11, <1>12, <1>13, <1>15, <1>16, <1>19, <1>20, <1>21, <1>22, <1>23, <1>25, <1>26

LEMMA BeginQuiet ==
    ASSUME InstallAssumption, IInv, Quiet, NEW j \in Job, Begin(j)
    PROVE  Quiet'
<1>1. PICK i \in Instance : \E plan \in Plans[i] :
        LET others == {k \in Job \ {j} : job[k].pc # "idle" /\ job[k].inst = i} IN
        /\ job' = [k \in Job |->
                     IF k = j THEN [Waiting EXCEPT !.pc = "acquire", !.inst = i, !.plan = plan,
                                                   !.alone = others = {}]
                     ELSE IF k \in others THEN [job[k] EXCEPT !.alone = FALSE]
                     ELSE job[k]]
        /\ settled' = settled \ {i}
  BY Zenon DEF Begin
<1> DEFINE others == {k \in Job \ {j} : job[k].pc # "idle" /\ job[k].inst = i}
<1>2. PICK plan \in Plans[i] :
        /\ job' = [k \in Job |->
                     IF k = j THEN [Waiting EXCEPT !.pc = "acquire", !.inst = i, !.plan = plan,
                                                   !.alone = others = {}]
                     ELSE IF k \in others THEN [job[k] EXCEPT !.alone = FALSE]
                     ELSE job[k]]
        /\ settled' = settled \ {i}
  BY <1>1, Zenon
<1> DEFINE q == [Waiting EXCEPT !.pc = "acquire", !.inst = i, !.plan = plan, !.alone = others = {}]
<1>3. /\ q.pc = "acquire" /\ q.inst = i /\ q.n = 1
      /\ q.alone => \A k \in Job \ {j} : job[k].pc # "idle" => job[k].inst # i
  BY DEF Waiting
<1>4. \A k \in others : LET o == [job[k] EXCEPT !.alone = FALSE] IN
          o.pc = job[k].pc /\ o.inst = job[k].inst /\ ~o.alone
  BY DEF IInv, TypeOK, JobState
<1>5. /\ job'[j] = q
      /\ \A k \in others : job'[k] = [job[k] EXCEPT !.alone = FALSE]
      /\ \A k \in Job \ (others \cup {j}) : job'[k] = job[k]
      /\ UNCHANGED <<placed, natives, lock>> /\ settled' = settled \ {i}
  BY <1>2 DEF Begin
<1> HIDE DEF q
<1>6. ASSUME NEW k \in Job \ {j}
      PROVE  /\ job'[k].pc = job[k].pc /\ job'[k].inst = job[k].inst
             /\ job'[k].alone /\ job[k].pc # "idle" => job[k].alone /\ job[k].inst # i
             /\ job'[k] = job[k] \/ ~job'[k].alone
  BY <1>4, <1>5
<1>7. /\ \A k, l \in Job : k # l /\ At(k, job[k].inst) /\ job[k].alone => ~At(l, job[k].inst)
      /\ \A h \in settled, k \in Job : ~At(k, h)
  BY DEF Quiet, Alone
<1>8. Alone'
  <2>1. ASSUME NEW k \in Job, NEW l \in Job, k # l, job'[k].pc # "idle", job'[k].alone,
               job'[l].pc # "idle", job'[l].inst = job'[k].inst
        PROVE  FALSE
    <3>1. CASE k = j
      BY <1>3, <1>5, <1>6, <2>1, <3>1
    <3>2. CASE l = j
      BY <1>3, <1>5, <1>6, <2>1, <3>2
    <3>3. CASE k # j /\ l # j
      BY <1>6, <1>7, <2>1, <3>3 DEF At
    <3> QED BY <3>1, <3>2, <3>3
  <2>2. ASSUME NEW h \in settled', NEW k \in Job, job'[k].pc # "idle", job'[k].inst = h
        PROVE  FALSE
    <3>1. h \in settled /\ h # i
      BY <1>5
    <3>2. CASE k = j
      BY <1>3, <1>5, <2>2, <3>1, <3>2
    <3>3. CASE k # j
      BY <1>6, <1>7, <2>2, <3>1, <3>3 DEF At
    <3> QED BY <3>2, <3>3
  <2> QED BY <2>1, <2>2 DEF Alone, At
<1>9. ASSUME NEW k \in Job PROVE Undisturbed(job'[k], placed', natives', lock')
  <2>1. CASE k = j
    <3>1. Undisturbed(q, placed', natives', lock')
      BY <1>3, AcquireOn DEF Acquiring
    <3> QED BY <1>5, <2>1, <3>1
  <2>2. CASE k # j /\ job'[k] = job[k]
    BY <1>5, <2>2 DEF Quiet
  <2>3. CASE k # j /\ ~job'[k].alone
    BY <2>3 DEF Undisturbed
  <2> QED BY <1>6, <2>1, <2>2, <2>3
<1>10. SettledStays'
  <2>1. \A h \in settled' : h \in settled
    BY <1>5
  <2>2. \A h \in settled' : lock[h] \in Lockfile /\ Held(h, lock[h], placed, natives)
    BY <2>1, HeldInPlace DEF Quiet, SettledStays
  <2>3. \A h \in settled' : lock'[h] \in Lockfile /\ Held(h, lock'[h], placed', natives')
    BY <1>5, <2>2
  <2> QED BY <2>3, HeldInPlace DEF SettledStays
<1> QED BY <1>8, <1>9, <1>10 DEF Quiet

LEMMA QuietKept ==
    ASSUME InstallAssumption, OnePerPlace, IInv, Quiet, [Next]_vars
    PROVE  Quiet'
<1>1. ASSUME NEW j \in Job, Begin(j) PROVE Quiet'
  BY <1>1, BeginQuiet
<1>2. ASSUME NEW j \in Job,
             \/ Reuse(j) \/ Fetch(j) \/ AliasTruncate(j) \/ AliasWrite(j)
             \/ PlaceUnlink(j) \/ PlacePut(j) \/ PassOver(j) \/ Unpack(j) \/ UnpackEnd(j)
             \/ Provision(j) \/ LockTruncate(j) \/ LockWrite(j) \/ Fail(j)
      PROVE  Quiet'
  BY <1>2, JobQuiet
<1>3. ASSUME UNCHANGED <<placed, natives, lock, settled>>, Alone',
             \A j \in Job : job'[j] = job[j] \/ job'[j].pc = "idle"
      PROVE  Quiet'
  <2>1. \A h \in settled : lock[h] \in Lockfile /\ Held(h, lock[h], placed, natives)
    BY HeldInPlace DEF Quiet, SettledStays
  <2>2. \A h \in settled' : lock'[h] \in Lockfile /\ Held(h, lock'[h], placed', natives')
    BY <1>3, <2>1
  <2>3. SettledStays'
    BY <2>2, HeldInPlace DEF SettledStays
  <2>4. ASSUME NEW j \in Job PROVE Undisturbed(job'[j], placed', natives', lock')
    <3>1. Undisturbed(job[j], placed, natives, lock)
      BY DEF Quiet
    <3>2. CASE job'[j] = job[j]
      BY <1>3, <3>1, <3>2
    <3>3. CASE job'[j].pc = "idle"
      BY <3>3 DEF Undisturbed
    <3> QED BY <1>3, <3>2, <3>3
  <2> QED BY <1>3, <2>3, <2>4 DEF Quiet
<1>4. ASSUME Crash PROVE Quiet'
  <2>1. UNCHANGED <<placed, natives, lock, settled>> /\ \A j \in Job : job'[j].pc = "idle"
    BY <1>4 DEF Crash, Waiting
  <2>2. Alone'
    BY <2>1 DEF Alone, At
  <2> QED BY <1>3, <2>1, <2>2
<1>5. ASSUME UNCHANGED vars PROVE Quiet'
  <2>1. UNCHANGED <<placed, natives, lock, settled, job>>
    BY <1>5 DEF vars
  <2>2. Alone'
    BY <2>1 DEF Quiet, Alone, At
  <2> QED BY <1>3, <2>1, <2>2
<1> QED BY <1>1, <1>2, <1>4, <1>5 DEF Next

LEMMA QuietStart == Init => Quiet
<1> SUFFICES ASSUME Init PROVE Quiet
  OBVIOUS
<1>1. settled = {} /\ \A j \in Job : job[j].pc = "idle"
  BY DEF Init, Waiting
<1> QED BY <1>1 DEF Quiet, Alone, At, Undisturbed, SettledStays

\* An install that had its instance to itself and was answered for leaves all its
\* lockfile names in place and unpacked, and so it stays until the next install of
\* the instance begins, whatever other jobs do to the store, the aliases, the shared
\* index and other instances, and whenever they fail or die (install.run).
THEOREM SettledSafe == OnePerPlace /\ Spec => []SettledStays
<1> SUFFICES ASSUME OnePerPlace PROVE Spec => []SettledStays
  OBVIOUS
<1>1. Quiet => SettledStays
  BY DEF Quiet
<1>2. Init => IInv /\ Quiet
  BY InstallAssumption, IInvInit, QuietStart
<1>3. IInv /\ Quiet /\ [Next]_vars => IInv' /\ Quiet'
  BY InstallAssumption, IInvStep, QuietKept
<1> QED BY <1>1, <1>2, <1>3, PTL DEF Spec

==============================================================================
