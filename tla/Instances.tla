------------------------------ MODULE Instances ------------------------------
(***************************************************************************)
(* The directories of instances: what instance.create, import.run,         *)
(* instance.configure, instance.delete and launch.start read, change and   *)
(* save there.  Names that sanitise_id maps to one id are one instance.    *)
(*                                                                         *)
(* Threads are requests of different connections.  Nothing keeps one from  *)
(* running between the steps of another at the same instance, and each may *)
(* stop half way.                                                          *)
(***************************************************************************)
EXTENDS Naturals

CONSTANTS
    Thread,    \* requests
    Id,        \* ids of instances
    File,      \* files of the player, below the game directory
    Foreign,   \* those the other launcher's instance has too
    Managed,   \* of "files" and "lock", what install.run makes
    Setting,   \* an amount of memory, or a list of JVM arguments
    Default,   \* none is set
    Absent,    \* no file
    Torn,      \* a descriptor that was emptied and not written yet
    Garbage,   \* a descriptor that holds parts of two texts
    Unknown,   \* history: nobody was told what a directory holds
    Faults,    \* the disk may fail
    Crashes    \* the daemon may die

Descriptor == [memory : Setting, arguments : Setting, played : BOOLEAN]

\* What a directory holds: instance.json, what install.run put there, and the
\* player's files: written by the game, copied by an import, or partly copied.
Directory == [desc    : Descriptor \cup {Absent, Torn, Garbage},
              managed : SUBSET Managed,
              data    : [File -> {Absent, "own", "copied", "cut"}]]

ASSUME InstancesAssumption ==
    /\ Foreign \subseteq File
    /\ Managed \subseteq {"files", "lock"}
    /\ Default \in Setting
    /\ \A x \in {Absent, Torn, Garbage} : x \notin Descriptor
    /\ Absent \notin Id \cup {Torn, Garbage} /\ Torn # Garbage
    /\ Absent \notin {"own", "copied", "cut"}
    /\ Unknown \notin Directory
    /\ {Faults, Crashes} \subseteq BOOLEAN

VARIABLES
    dir,      \* the directory of each id
    op,       \* what each request is in the middle of
    told,     \* history: the directory as the last answer has it, unless others joined in
    worlds    \* history: files the game wrote that delete and import have no business with

vars == <<dir, op, told, worlds>>

Kind == {"none", "create", "import", "configure", "launch", "delete", "keep"}

Pc == {"idle", "exists", "get", "await", "truncate", "write", "carry", "find",
       "keepFiles", "keepLock", "keepDesc", "remove"}

Op == [pc    : Pc,
       kind  : Kind,
       inst  : Id \cup {Absent},
       given : SUBSET {"memory", "arguments", "drop"},  \* fields of a configure
       value : Setting,                \* their value
       next  : Descriptor,             \* what is to be saved
       saves : 0..2,                   \* how often it still is
       lost  : BOOLEAN,                \* the file it writes was removed meanwhile
       left  : SUBSET Foreign,         \* files to copy
       base  : Directory \cup {Unknown}]  \* history: what it found, while no other joins in

Fresh == [memory |-> Default, arguments |-> Default, played |-> FALSE]

Nothing == [desc |-> Absent, managed |-> {}, data |-> [f \in File |-> Absent]]

Idle == [pc |-> "idle", kind |-> "none", inst |-> Absent, given |-> {},
         value |-> Default, next |-> Fresh, saves |-> 0, lost |-> FALSE, left |-> {},
         base |-> Unknown]

TypeOK ==
    /\ dir \in [Id -> Directory]
    /\ op \in [Thread -> Op]
    /\ told \in [Id -> Directory \cup {Unknown}]
    /\ worlds \in [Id -> SUBSET File]

Init ==
    /\ dir = [i \in Id |-> Nothing]
    /\ op = [t \in Thread |-> Idle]
    /\ told = [i \in Id |-> Nothing]
    /\ worlds = [i \in Id |-> {}]

------------------------------------------------------------------------------
(* What requests are to do *)

\* instance_configure; "drop" is a text that all of the arguments contain.
Configured(d, given, value) ==
    [d EXCEPT !.memory = IF "memory" \in given THEN value ELSE d.memory,
              !.arguments = IF "drop" \in given THEN Default
                            ELSE IF "arguments" \in given THEN value ELSE d.arguments]

Played(d) == [d EXCEPT !.played = TRUE]

\* Fault: an amount of memory that does not parse is taken as it is.
ImportedUnparsed(value) == [Fresh EXCEPT !.memory = Garbage, !.arguments = value]

\* The settings of an imported instance are those of the other launcher.
Imported(value) == [Fresh EXCEPT !.memory = value, !.arguments = value]

\* What request o, begun in directory o.base and answered for, has made of it.
Promised(o) ==
    LET b == o.base IN
    CASE o.kind = "create"    -> [b EXCEPT !.desc = Fresh]
      [] o.kind = "configure" -> [b EXCEPT !.desc = Configured(b.desc, o.given, o.value)]
      [] o.kind = "launch"    -> [b EXCEPT !.desc = Played(b.desc)]
      [] o.kind = "delete"    -> Nothing
      [] o.kind = "keep"      -> [b EXCEPT !.desc = Absent, !.managed = {}]
      [] o.kind = "import"    ->
           [b EXCEPT !.desc = Imported(o.value),
                     !.data = [f \in File |-> IF f \in Foreign THEN "copied" ELSE b.data[f]]]

------------------------------------------------------------------------------
(* Helpers *)

At(i) == {t \in Thread : op[t].pc # "idle" /\ op[t].inst = i}

Dir(t) == dir[op[t].inst]

Changes(t, d) == dir' = [dir EXCEPT ![op[t].inst] = d]

\* Request o once another is at its instance.
Joined(o) == [o EXCEPT !.base = Unknown]

\* What fs::write leaves: the text, or a mixture if another request has written
\* since this one emptied the file.
Written(file, text) == IF file = Torn THEN {text} ELSE {text, Garbage}

\* Requests whose file is removed under them go on writing to it.
Becomes(t, o) ==
    op' = [s \in Thread |->
             IF s = t THEN o
             ELSE IF op[s].pc = "write" /\ op[s].inst = op[t].inst /\ dir'[op[t].inst].desc = Absent
                  THEN [op[s] EXCEPT !.lost = TRUE]
             ELSE op[s]]

Goto(t, pc) == Becomes(t, [op[t] EXCEPT !.pc = pc])

\* The reply, which says of the directory of a request that was alone what it holds.
Reply(t, known) ==
    /\ Becomes(t, Idle)
    /\ told' = IF op[t].base = Unknown THEN told ELSE [told EXCEPT ![op[t].inst] = known]

Done(t) == Reply(t, Promised(op[t]))

Refused(t) == Reply(t, op[t].base)

------------------------------------------------------------------------------
(* Requests *)

\* The descriptor is looked at first, to be absent, to be there, or to be read.
Entry(kind) ==
    CASE kind \in {"create", "import"} -> "exists"
      [] kind \in {"configure", "launch"} -> "get"
      [] kind \in {"delete", "keep"} -> "find"

Begun(i, kind, given, value) ==
    [Idle EXCEPT !.pc = Entry(kind), !.kind = kind, !.inst = i, !.given = given,
                 !.value = value, !.base = IF At(i) = {} THEN dir[i] ELSE Unknown]

Begin(t) ==
    /\ op[t].pc = "idle"
    /\ \E i \in Id, kind \in Kind \ {"none"}, given \in SUBSET {"memory", "arguments", "drop"},
          value \in Setting :
        /\ kind # "configure" => given = {}
        /\ kind # "import" /\ given \cap {"memory", "arguments"} = {} => value = Default
        /\ "memory" \in given => value # Default
        /\ op' = [s \in Thread |->
             IF s = t THEN Begun(i, kind, given, value)
             ELSE IF s \in At(i) THEN Joined(op[s]) ELSE op[s]]
        /\ told' = [told EXCEPT ![i] = Unknown]
        /\ worlds' = IF kind = "delete" THEN [worlds EXCEPT ![i] = {}] ELSE worlds
    /\ UNCHANGED dir

\* create: an instance that is there is left alone; so is a descriptor that does
\* not parse.
Exists(t) ==
    /\ op[t].pc = "exists"
    /\ UNCHANGED dir
    /\ IF Dir(t).desc # Absent THEN Refused(t) /\ UNCHANGED worlds
       ELSE /\ Becomes(t, [op[t] EXCEPT !.pc = "truncate",
                             !.saves = IF op[t].kind = "import" THEN 2 ELSE 1])
            /\ worlds' = IF op[t].kind = "import"
                         THEN [worlds EXCEPT ![op[t].inst] = worlds[op[t].inst] \ Foreign]
                         ELSE worlds
            /\ UNCHANGED told

\* Instances::get, and the lockfile a launch needs.
Get(t) ==
    /\ op[t].pc = "get"
    /\ UNCHANGED <<dir, worlds>>
    /\ IF \/ Dir(t).desc \in {Absent, Torn, Garbage}
          \/ op[t].kind = "launch" /\ "lock" \notin Dir(t).managed
       THEN Refused(t)
       ELSE /\ Becomes(t, [op[t] EXCEPT !.saves = 1,
                   !.pc = IF op[t].kind = "launch" THEN "await" ELSE "truncate",
                   !.next = IF op[t].kind = "launch" THEN Played(Dir(t).desc)
                            ELSE Configured(Dir(t).desc, op[t].given, op[t].value)])
            /\ UNCHANGED told

\* launch_start: an account and a runtime are found and the game is spawned, or not.
Await(t) ==
    /\ op[t].pc = "await"
    /\ UNCHANGED <<dir, worlds>>
    /\ \/ Goto(t, "truncate") /\ UNCHANGED told
       \/ Refused(t)

\* Instances::save.
Truncate(t) ==
    /\ op[t].pc = "truncate"
    /\ Changes(t, [Dir(t) EXCEPT !.desc = Torn])
    /\ Becomes(t, [op[t] EXCEPT !.pc = "write", !.lost = FALSE])
    /\ UNCHANGED <<told, worlds>>

\* The second save of an import has the settings; then the files are copied.
Write(t) ==
    /\ op[t].pc = "write"
    /\ \E file \in IF op[t].lost THEN {Dir(t).desc} ELSE Written(Dir(t).desc, op[t].next) :
        Changes(t, [Dir(t) EXCEPT !.desc = file])
    /\ CASE op[t].saves = 2 ->
              /\ Becomes(t, [op[t] EXCEPT !.pc = "truncate", !.saves = 1,
                                          !.next = Imported(op[t].value)])
              /\ UNCHANGED told
         [] op[t].saves = 1 /\ op[t].kind = "import" ->
              /\ Becomes(t, [op[t] EXCEPT !.pc = "carry", !.saves = 0, !.next = Fresh,
                                          !.left = Foreign])
              /\ UNCHANGED told
         [] OTHER -> Done(t)
    /\ UNCHANGED worlds

\* carry_over_reporting copies over what is there; a file is cut until it is copied.
Carry(t) ==
    /\ op[t].pc = "carry"
    /\ \E f \in op[t].left, file \in {"cut", "copied"} :
        /\ Changes(t, [Dir(t) EXCEPT !.data[f] = file])
        /\ Becomes(t, [op[t] EXCEPT !.left = IF file = "cut" THEN op[t].left ELSE op[t].left \ {f}])
    /\ UNCHANGED <<told, worlds>>

CarryEnd(t) ==
    /\ op[t].pc = "carry" /\ op[t].left = {}
    /\ UNCHANGED <<dir, worlds>>
    /\ Done(t)

\* A copy that fails is undone: the instance is deleted, with all that was there.
CarryFails(t) ==
    /\ Faults
    /\ op[t].pc = "carry" /\ op[t].left # {}
    /\ worlds' = [worlds EXCEPT ![op[t].inst] = {}]
    /\ UNCHANGED <<dir, told>>
    /\ Becomes(t, [op[t] EXCEPT !.pc = "find", !.left = {}])

\* Fault: keep_user_data is forgotten.
FindForgets(t) ==
    /\ op[t].pc = "find"
    /\ UNCHANGED <<dir, worlds>>
    /\ IF Dir(t).desc = Absent
       THEN Reply(t, IF op[t].kind = "import" THEN Unknown ELSE op[t].base)
       ELSE Goto(t, "remove") /\ UNCHANGED told

\* Instances::delete.
Find(t) ==
    /\ op[t].pc = "find"
    /\ UNCHANGED <<dir, worlds>>
    /\ IF Dir(t).desc = Absent
       THEN Reply(t, IF op[t].kind = "import" THEN Unknown ELSE op[t].base)
       ELSE /\ Goto(t, IF op[t].kind = "keep" THEN "keepFiles" ELSE "remove")
            /\ UNCHANGED told

\* Fault: the descriptor goes first.
KeepFilesUnlisted(t) ==
    /\ op[t].pc = "keepFiles"
    /\ Changes(t, [Dir(t) EXCEPT !.managed = Dir(t).managed \ {"files"}, !.desc = Absent])
    /\ Goto(t, "keepLock")
    /\ UNCHANGED <<told, worlds>>

\* With keep_user_data what Acelus manages is removed, the descriptor last.
KeepFiles(t) ==
    /\ op[t].pc = "keepFiles"
    /\ Changes(t, [Dir(t) EXCEPT !.managed = Dir(t).managed \ {"files"}])
    /\ Goto(t, "keepLock")
    /\ UNCHANGED <<told, worlds>>

\* Fault: the lockfile stays.
KeepLockSkipped(t) ==
    /\ op[t].pc = "keepLock"
    /\ UNCHANGED <<dir, told, worlds>>
    /\ Goto(t, "keepDesc")

KeepLock(t) ==
    /\ op[t].pc = "keepLock"
    /\ Changes(t, [Dir(t) EXCEPT !.managed = Dir(t).managed \ {"lock"}])
    /\ Goto(t, "keepDesc")
    /\ UNCHANGED <<told, worlds>>

KeepDesc(t) ==
    /\ op[t].pc = "keepDesc"
    /\ Changes(t, [Dir(t) EXCEPT !.desc = Absent])
    /\ Done(t)
    /\ UNCHANGED worlds

\* remove_dir_all removes what it finds, in any order,
Remove(t) ==
    /\ op[t].pc = "remove"
    /\ \/ /\ Dir(t).desc # Absent
          /\ Changes(t, [Dir(t) EXCEPT !.desc = Absent])
       \/ \E m \in Dir(t).managed :
            Changes(t, [Dir(t) EXCEPT !.managed = Dir(t).managed \ {m}])
       \/ \E f \in File : /\ Dir(t).data[f] # Absent
                          /\ Changes(t, [Dir(t) EXCEPT !.data[f] = Absent])
    /\ Goto(t, "remove")
    /\ UNCHANGED <<told, worlds>>

\* and then the directory, if it is empty.  An import that was undone has failed.
RemoveEnd(t) ==
    /\ op[t].pc = "remove"
    /\ UNCHANGED <<dir, worlds>>
    /\ Dir(t) = Nothing
    /\ Reply(t, Nothing)

------------------------------------------------------------------------------
(* Others, and what can go wrong *)

\* The game writes one of its files.
Play(i) ==
    /\ dir[i].desc \in Descriptor
    /\ \E f \in File :
        /\ dir' = [dir EXCEPT ![i].data[f] = "own"]
        /\ worlds' = IF At(i) = {} THEN [worlds EXCEPT ![i] = worlds[i] \cup {f}] ELSE worlds
    /\ op' = [t \in Thread |-> IF t \in At(i) THEN Joined(op[t]) ELSE op[t]]
    /\ told' = IF told[i] = Unknown THEN told ELSE [told EXCEPT ![i] = dir'[i]]

\* install.run from its beginning to its end (Install).
InstallRun(i) ==
    /\ dir[i].desc \in Descriptor
    /\ dir' = [dir EXCEPT ![i].managed = Managed]
    /\ op' = [t \in Thread |-> IF t \in At(i) THEN Joined(op[t]) ELSE op[t]]
    /\ told' = IF told[i] = Unknown THEN told ELSE [told EXCEPT ![i] = dir'[i]]
    /\ UNCHANGED worlds

\* A step fails, and the request with it; but not a launch, whose game runs, and
\* not an import whose undoing fails, which is answered as if it had not.
Fail(t) ==
    /\ Faults
    /\ op[t].pc \in {"truncate", "write", "keepFiles", "keepLock", "keepDesc", "remove"}
    /\ UNCHANGED <<dir, worlds>>
    /\ Reply(t, Unknown)

Crash ==
    /\ Crashes
    /\ op' = [t \in Thread |-> Idle]
    /\ UNCHANGED <<dir, told, worlds>>

Next ==
    \/ \E t \in Thread :
        \/ Begin(t) \/ Exists(t) \/ Get(t) \/ Await(t) \/ Truncate(t) \/ Write(t)
        \/ Carry(t) \/ CarryEnd(t) \/ CarryFails(t)
        \/ Find(t) \/ KeepFiles(t) \/ KeepLock(t) \/ KeepDesc(t) \/ Remove(t) \/ RemoveEnd(t)
        \/ Fail(t)
    \/ \E i \in Id : Play(i) \/ InstallRun(i)
    \/ Crash

Spec == Init /\ [][Next]_vars

------------------------------------------------------------------------------
(* Properties *)

\* Whatever was left by requests that failed, died or overlapped: what the last
\* request is answered to have done is what it has done to the directory it found,
\* and nothing else, if it had the instance to itself (import.run,
\* instance.configure, instance.delete, launch.start, and instance.create, which
\* makes the descriptor and no lockfile).
ToldIsSo == \A i \in Id : told[i] # Unknown => dir[i] = told[i]

\* What a request that has instance b to itself may have made of it when it stops
\* before its last step.
Halfway(o, d) ==
    LET b == o.base IN
    CASE o.kind \in {"create", "configure", "launch"} -> d \in {b, [b EXCEPT !.desc = Torn]}
      [] o.kind = "keep"   -> /\ d.desc = b.desc /\ d.data = b.data
                              /\ d.managed \subseteq b.managed
      [] o.kind = "delete" -> /\ d.desc \in {b.desc, Absent} /\ d.managed \subseteq b.managed
                              /\ \A f \in File : d.data[f] \in {b.data[f], Absent}
      [] o.kind = "import" /\ o.pc \notin {"find", "remove"} ->
           /\ d.desc \in {b.desc, Torn, Fresh, Imported(o.value)} /\ d.managed = b.managed
           /\ \A f \in Foreign : d.data[f] \in {b.data[f], "cut", "copied"}
           /\ \A f \in File \ Foreign : d.data[f] = b.data[f]
      [] OTHER -> d.desc \in {Imported(o.value), Absent}

\* Wherever the disk fails or the daemon dies: a request that is cut short leaves no
\* more than its own change undone or half done.  A delete that keeps the player's
\* data still has the descriptor, without which it could not be asked for again; one
\* that configures or creates leaves at worst a torn descriptor, and an import the
\* files of the player it does not bring (Instances::delete, Instances::save,
\* import_run).
CutShort == \A t \in Thread :
                op[t].pc # "idle" /\ op[t].base # Unknown => Halfway(op[t], Dir(t))

\* However requests overlap, fail or die: what the game wrote while none was at the
\* instance stays as it is until somebody asks to delete it with its data, or imports
\* an instance under its name, which finds no descriptor after its data was kept: the
\* import overwrites what it brings, and if its copying fails it removes the rest too
\* (Instances::delete, Instances::create, carry_over_reporting, import_run).
WorldsStay == \A i \in Id : \A f \in worlds[i] : dir[i].data[f] = "own"
==============================================================================
