------------------------------- MODULE Install -------------------------------
(***************************************************************************)
(* install.run: the artifacts of a plan are acquired one after another     *)
(* (taken from the store through an alias of their published digest, or    *)
(* downloaded into it), then placed in the instance, natives are unpacked, *)
(* assets and a Java runtime fetched, and the lockfile is written last.    *)
(* Jobs are requests of different connections; nothing keeps two from      *)
(* working on one instance, and the asset index has one place for all.     *)
(*                                                                         *)
(* The store keeps what BlobStore promises; Cas is how.  A content is its  *)
(* own address and its own digest.  The daemon never collects garbage.     *)
(***************************************************************************)
EXTENDS Naturals, Sequences

CONSTANTS
    Job,        \* requests for install.run
    Instance,   \* instances there are descriptors for
    Content,    \* contents of artifacts
    Path,       \* paths of artifacts, below an instance or below the shared root
    Plans,      \* what the resolver and the loaders may answer for an instance
    Shared,     \* Paths::root, where asset indexes are
    Unpinned,   \* no digest is published for an artifact
    Absent,     \* no file, no alias, nothing stored
    Torn,       \* a file that was emptied and not written yet, or half unpacked
    Garbage,    \* a lockfile that holds parts of two texts
    Crashes     \* the daemon may die

\* is_shared and the destination of the asset index make three kinds of roles.
Artifact == [path : Path, sha1 : Content \cup {Unpinned}, role : {"library", "native", "index"}]

AllPlans == UNION {Plans[i] : i \in Instance}

Lockfile == [plan : AllPlans, contents : Seq(Content)]

ASSUME InstallAssumption ==
    /\ Plans \in [Instance -> SUBSET (Seq(Artifact) \ {<<>>})]
    /\ \A x \in {Unpinned, Absent, Torn, Garbage} : x \notin Content \cup Lockfile
    /\ Absent \notin {Torn, Garbage}
    /\ Shared \notin Instance
    /\ Crashes \in BOOLEAN

VARIABLES
    blob,      \* the store
    alias,     \* aliases/sha1: what each digest is an alias of
    placed,    \* the artifacts that are in place
    natives,   \* the archives that are unpacked in an instance's natives
    lock,      \* acelus.lock: the plan, and the content of each of its artifacts
    job,       \* what each request is in the middle of
    settled    \* history: instances whose last install was answered for, and was alone

vars == <<blob, alias, placed, natives, lock, job, settled>>

Store == INSTANCE BlobStore WITH Address <- Content

Pc == {"idle", "acquire", "alias", "aliasWrite", "unlink", "put", "unpack", "unpacking",
       "provision", "lock", "lockWrite"}

JobState == [pc     : Pc,
             inst   : Instance \cup {Shared},   \* Shared when there is none
             plan   : AllPlans \cup {<<>>},
             n      : Nat \ {0},        \* the artifact it is at
             locked : Seq(Content),     \* the contents of those acquired
             got    : Content \cup {Absent},  \* what it downloaded, or read to unpack
             alone  : BOOLEAN]          \* history: nobody else was at the instance

Waiting == [pc |-> "idle", inst |-> Shared, plan |-> <<>>, n |-> 1, locked |-> <<>>,
            got |-> Absent, alone |-> FALSE]

TypeOK ==
    /\ blob \in [Content -> Content \cup {Absent}]
    /\ alias \in [Content -> Content \cup {Absent, Torn}]
    /\ placed \in [(Instance \cup {Shared}) \X Path -> Content \cup {Absent}]
    /\ natives \in [Instance \X Path -> Content \cup {Absent, Torn}]
    /\ lock \in [Instance -> Lockfile \cup {Absent, Torn, Garbage}]
    /\ job \in [Job -> JobState]
    /\ settled \subseteq Instance
    /\ \A j \in Job : job[j].pc # "idle" => job[j].n <= Len(job[j].plan)

Init ==
    /\ Store!Init
    /\ alias = [d \in Content |-> Absent]
    /\ placed = [p \in (Instance \cup {Shared}) \X Path |-> Absent]
    /\ natives = [p \in Instance \X Path |-> Absent]
    /\ lock = [i \in Instance |-> Absent]
    /\ job = [j \in Job |-> Waiting]
    /\ settled = {}

------------------------------------------------------------------------------
(* Helpers *)

Current(j) == job[j].plan[job[j].n]

\* destination.
Destination(i, artifact) == <<IF artifact.role = "index" THEN Shared ELSE i, artifact.path>>

\* resolve_alias: the content an alias names, if it parses and is stored.
Resolved(d) == IF alias[d] \in Content /\ blob[alias[d]] # Absent THEN alias[d] ELSE Absent

\* What fs::write leaves: the text, or a mixture if another job has written since
\* this one emptied the file.
Written(file, text) == IF file = Torn THEN {text} ELSE {text, Garbage}

\* Fault: the loop runs once too often.
AcquiredMore(r, c) ==
    [r EXCEPT !.pc = IF r.n > Len(r.plan) THEN "unlink" ELSE "acquire",
              !.n = IF r.n > Len(r.plan) THEN 1 ELSE r.n + 1,
              !.locked = Append(r.locked, c),
              !.got = Absent]

\* Job r once the artifact it was at has been acquired as content c.
Acquired(r, c) ==
    [r EXCEPT !.pc = IF r.n = Len(r.plan) THEN "unlink" ELSE "acquire",
              !.n = IF r.n = Len(r.plan) THEN 1 ELSE r.n + 1,
              !.locked = Append(r.locked, c),
              !.got = Absent]

\* Job r once it has dealt with the artifact it is at, looking for natives.
Unpacked(r) ==
    [r EXCEPT !.pc = IF r.n = Len(r.plan) THEN "provision" ELSE "unpack",
              !.n = IF r.n = Len(r.plan) THEN 1 ELSE r.n + 1,
              !.got = Absent]

Becomes(j, r) == job' = [job EXCEPT ![j] = r]

Goto(j, pc) == Becomes(j, [job[j] EXCEPT !.pc = pc])

Return(j) == Becomes(j, Waiting)

------------------------------------------------------------------------------
(* One install *)

\* The descriptor is read and a plan resolved.  The job has the instance to itself
\* if no other is at it now or comes to it later.
Begin(j) ==
    /\ job[j].pc = "idle"
    /\ \E i \in Instance : \E plan \in Plans[i] :
        LET others == {k \in Job \ {j} : job[k].pc # "idle" /\ job[k].inst = i} IN
        /\ job' = [k \in Job |->
                     IF k = j THEN [Waiting EXCEPT !.pc = "acquire", !.inst = i, !.plan = plan,
                                                   !.alone = others = {}]
                     ELSE IF k \in others THEN [job[k] EXCEPT !.alone = FALSE]
                     ELSE job[k]]
        /\ settled' = settled \ {i}
    /\ UNCHANGED <<blob, alias, placed, natives, lock>>

\* Fault: the digest of the first artifact is looked up for each.
ReuseFirst(j) ==
    /\ job[j].pc = "acquire"
    /\ job[j].plan[1].sha1 # Unpinned
    /\ Resolved(job[j].plan[1].sha1) # Absent
    /\ Becomes(j, Acquired(job[j], Resolved(job[j].plan[1].sha1)))
    /\ UNCHANGED <<blob, alias, placed, natives, lock, settled>>

\* acquire: an artifact whose digest is an alias of a stored content is reused.
Reuse(j) ==
    /\ job[j].pc = "acquire"
    /\ Current(j).sha1 # Unpinned
    /\ Resolved(Current(j).sha1) # Absent
    /\ Becomes(j, Acquired(job[j], Resolved(Current(j).sha1)))
    /\ UNCHANGED <<blob, alias, placed, natives, lock, settled>>

\* Fault: what was downloaded is not compared with the digest.
FetchUnverified(j) ==
    /\ job[j].pc = "acquire"
    /\ Current(j).sha1 # Unpinned => Resolved(Current(j).sha1) = Absent
    /\ \E c \in Content :
        /\ Store!Insert(c) \/ (blob[c] # Absent /\ UNCHANGED blob)
        /\ Becomes(j, IF Current(j).sha1 = Unpinned THEN Acquired(job[j], c)
                      ELSE [job[j] EXCEPT !.pc = "alias", !.got = c])
    /\ UNCHANGED <<alias, placed, natives, lock, settled>>

\* download_into_store: the content is verified while it streams and committed,
\* or found to be in the store already.  Without a digest any content will do.
Fetch(j) ==
    /\ job[j].pc = "acquire"
    /\ Current(j).sha1 # Unpinned => Resolved(Current(j).sha1) = Absent
    /\ \E c \in Content :
        /\ Current(j).sha1 \in {c, Unpinned}
        /\ Store!Insert(c) \/ (blob[c] # Absent /\ UNCHANGED blob)
        /\ Becomes(j, IF Current(j).sha1 = Unpinned THEN Acquired(job[j], c)
                      ELSE [job[j] EXCEPT !.pc = "alias", !.got = c])
    /\ UNCHANGED <<alias, placed, natives, lock, settled>>

\* set_alias.
AliasTruncate(j) ==
    /\ job[j].pc = "alias"
    /\ alias' = [alias EXCEPT ![Current(j).sha1] = Torn]
    /\ Goto(j, "aliasWrite")
    /\ UNCHANGED <<blob, placed, natives, lock, settled>>

AliasWrite(j) ==
    /\ job[j].pc = "aliasWrite"
    /\ alias' = [alias EXCEPT ![Current(j).sha1] = job[j].got]
    /\ Becomes(j, Acquired(job[j], job[j].got))
    /\ UNCHANGED <<blob, placed, natives, lock, settled>>

\* materialize removes what is at the destination,
PlaceUnlink(j) ==
    /\ job[j].pc = "unlink"
    /\ placed' = [placed EXCEPT ![Destination(job[j].inst, Current(j))] = Absent]
    /\ Goto(j, "put")
    /\ UNCHANGED <<blob, alias, natives, lock, settled>>

\* Fault: the loop over natives starts where the one before ended.
PlacePutOn(j) ==
    /\ job[j].pc = "put"
    /\ placed' = [placed EXCEPT ![Destination(job[j].inst, Current(j))] = job[j].locked[job[j].n]]
    /\ Becomes(j, IF job[j].n = Len(job[j].plan) THEN [job[j] EXCEPT !.pc = "unpack"]
                  ELSE [job[j] EXCEPT !.pc = "unlink", !.n = job[j].n + 1])
    /\ UNCHANGED <<blob, alias, natives, lock, settled>>

\* and puts the content there; then the next artifact.
PlacePut(j) ==
    /\ job[j].pc = "put"
    /\ placed' = [placed EXCEPT ![Destination(job[j].inst, Current(j))] = job[j].locked[job[j].n]]
    /\ Becomes(j, IF job[j].n = Len(job[j].plan) THEN [job[j] EXCEPT !.pc = "unpack", !.n = 1]
                  ELSE [job[j] EXCEPT !.pc = "unlink", !.n = job[j].n + 1])
    /\ UNCHANGED <<blob, alias, natives, lock, settled>>

\* artifacts_with_role(Native).
PassOver(j) ==
    /\ job[j].pc = "unpack"
    /\ Current(j).role # "native"
    /\ Becomes(j, Unpacked(job[j]))
    /\ UNCHANGED <<blob, alias, placed, natives, lock, settled>>

\* unpack_native reads the archive where it was placed, then overwrites file after
\* file in natives, which is not cleared before.
Unpack(j) ==
    /\ job[j].pc = "unpack"
    /\ Current(j).role = "native"
    /\ LET at == <<job[j].inst, Current(j).path>> IN
        /\ placed[at] # Absent
        /\ natives' = [natives EXCEPT ![at] = Torn]
        /\ Becomes(j, [job[j] EXCEPT !.pc = "unpacking", !.got = placed[at]])
    /\ UNCHANGED <<blob, alias, placed, lock, settled>>

UnpackEnd(j) ==
    /\ job[j].pc = "unpacking"
    /\ natives' = [natives EXCEPT ![<<job[j].inst, Current(j).path>>] = job[j].got]
    /\ Becomes(j, Unpacked(job[j]))
    /\ UNCHANGED <<blob, alias, placed, lock, settled>>

\* install_assets and JavaProvisioner::provision, whose files are not modelled here.
Provision(j) ==
    /\ job[j].pc = "provision"
    /\ Goto(j, "lock")
    /\ UNCHANGED <<blob, alias, placed, natives, lock, settled>>

\* write_lockfile, and the reply.
LockTruncate(j) ==
    /\ job[j].pc = "lock"
    /\ lock' = [lock EXCEPT ![job[j].inst] = Torn]
    /\ Goto(j, "lockWrite")
    /\ UNCHANGED <<blob, alias, placed, natives, settled>>

LockWrite(j) ==
    /\ job[j].pc = "lockWrite"
    /\ LET i == job[j].inst
           text == [plan |-> job[j].plan, contents |-> job[j].locked]
       IN  /\ \E file \in Written(lock[i], text) : lock' = [lock EXCEPT ![i] = file]
           /\ settled' = IF job[j].alone THEN settled \cup {i} ELSE settled
    /\ Return(j)
    /\ UNCHANGED <<blob, alias, placed, natives>>

------------------------------------------------------------------------------
(* What can go wrong *)

\* The network, the disk or another job makes a step fail, and the request with
\* it: what was done stays done.
Fail(j) ==
    /\ job[j].pc # "idle"
    /\ Return(j)
    /\ UNCHANGED <<blob, alias, placed, natives, lock, settled>>

\* The daemon dies.
Crash ==
    /\ Crashes
    /\ job' = [j \in Job |-> Waiting]
    /\ UNCHANGED <<blob, alias, placed, natives, lock, settled>>

Next ==
    \/ \E j \in Job :
        \/ Begin(j) \/ Reuse(j) \/ Fetch(j) \/ AliasTruncate(j) \/ AliasWrite(j)
        \/ PlaceUnlink(j) \/ PlacePut(j) \/ PassOver(j) \/ Unpack(j) \/ UnpackEnd(j)
        \/ Provision(j) \/ LockTruncate(j) \/ LockWrite(j) \/ Fail(j)
    \/ Crash

Spec == Init /\ [][Next]_vars

------------------------------------------------------------------------------
(* Properties *)

\* An alias that parses names a stored content with the digest it is an alias of:
\* what is reused is what would have been downloaded (Installer::acquire).
AliasSound ==
    \A d \in Content : alias[d] \in Content => alias[d] = d /\ blob[d] = d

\* A lockfile that parses names, for each artifact of its plan, a stored content
\* that has the published digest (acelus.lock pins what was verified).
Pins(text) ==
    /\ Len(text.contents) = Len(text.plan)
    /\ \A n \in 1..Len(text.plan) :
        /\ blob[text.contents[n]] = text.contents[n]
        /\ text.plan[n].sha1 \in {text.contents[n], Unpinned}

LockSound == \A i \in Instance : lock[i] \in Lockfile => Pins(lock[i])

\* What a lockfile names, of the given roles, is in place, and unpacked.
InPlace(i, text, roles) ==
    \A n \in 1..Len(text.plan) : text.plan[n].role \in roles =>
        /\ placed[Destination(i, text.plan[n])] = text.contents[n]
        /\ text.plan[n].role = "native" =>
             natives[<<i, text.plan[n].path>>] = text.contents[n]

\* Until the next install of an instance begins, the lockfile and the files of one
\* that was answered for, and had the instance to itself, are there, whatever is
\* done to other instances (install.run, InstanceLayout).
SettledStays ==
    \A i \in settled :
        /\ lock[i] \in Lockfile
        /\ InPlace(i, lock[i], {"library", "native"})
==============================================================================
