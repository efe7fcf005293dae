--------------------------- MODULE InstancesProofs ---------------------------
(***************************************************************************)
(* What requests were told of an instance is so, one that is cut short     *)
(* leaves no more than its own change half done, and what the game wrote   *)
(* stays, for any requests, instances and files.                           *)
(*                                                                         *)
(* The invariant says of every request what has become of the directory    *)
(* it found (Phase), as long as it has it for itself, and of every request *)
(* that is going to overwrite or remove what the game wrote that nothing   *)
(* of it is owed any more (Covered).                                       *)
(***************************************************************************)
EXTENDS Instances, TLAPS

------------------------------------------------------------------------------
(* The invariant *)

\* Which requests get where.
Shape(o) ==
    /\ o.inst \in Id
    /\ o.kind # "none"
    /\ o.pc = "exists" => o.kind \in {"create", "import"}
    /\ o.pc = "get" => o.kind \in {"configure", "launch"}
    /\ o.pc = "await" => o.kind = "launch"
    /\ o.pc \in {"truncate", "write"} => o.kind \in {"create", "import", "configure", "launch"}
    /\ o.pc \in {"truncate", "write"} => o.saves \in (IF o.kind = "import" THEN {1, 2} ELSE {1})
    /\ o.pc = "await" => o.saves = 1
    /\ o.pc = "carry" => o.kind = "import"
    /\ o.pc = "find" => o.kind \in {"delete", "keep", "import"}
    /\ o.pc \in {"keepFiles", "keepLock", "keepDesc"} => o.kind = "keep"
    /\ o.pc = "remove" => o.kind \in {"delete", "import"}

Covered(o, w) ==
    /\ o.kind = "delete" => w = {}
    /\ o.kind = "import" /\ o.pc # "exists" => w \cap Foreign = {}
    /\ o.kind = "import" /\ o.pc \in {"find", "remove"} => w = {}

\* What is to be saved.
NextIs(o) ==
    /\ o.kind = "create" => o.next = Fresh
    /\ o.kind = "import" => o.next = IF o.saves = 2 THEN Fresh ELSE Imported(o.value)
    /\ o.kind = "configure" =>
         o.base.desc \in Descriptor /\ o.next = Configured(o.base.desc, o.given, o.value)
    /\ o.kind = "launch" => o.base.desc \in Descriptor /\ o.next = Played(o.base.desc)

DescIs(o, desc) ==
    /\ o.pc = "write" => desc = Torn /\ ~o.lost
    /\ o.pc = "truncate" =>
         desc = IF o.kind = "import" /\ o.saves = 1 THEN Fresh ELSE o.base.desc
    /\ o.pc = "carry" => desc = Imported(o.value)
    /\ o.pc \in {"exists", "get", "await", "keepFiles", "keepLock", "keepDesc"} =>
         desc = o.base.desc
    /\ o.pc = "find" => desc = IF o.kind = "import" THEN Imported(o.value) ELSE o.base.desc
    /\ o.pc = "remove" =>
         desc \in {Absent, IF o.kind = "import" THEN Imported(o.value) ELSE o.base.desc}

ManagedIs(o, managed) ==
    CASE o.pc \in {"find", "remove"} /\ o.kind = "import" -> TRUE
      [] o.pc = "remove" /\ o.kind # "import" -> managed \subseteq o.base.managed
      [] o.pc = "keepLock" -> managed = o.base.managed \ {"files"}
      [] o.pc = "keepDesc" -> managed = {}
      [] OTHER -> managed = o.base.managed

DataIs(o, data) ==
    CASE o.pc \in {"find", "remove"} /\ o.kind = "import" -> TRUE
      [] o.pc = "remove" /\ o.kind # "import" ->
            \A f \in File : data[f] \in {o.base.data[f], Absent}
      [] o.pc = "carry" -> \A f \in File :
            /\ f \notin Foreign => data[f] = o.base.data[f]
            /\ f \in Foreign => data[f] \in {o.base.data[f], "cut", "copied"}
            /\ f \in Foreign \ o.left => data[f] = "copied"
      [] OTHER -> data = o.base.data

\* What has become of the directory the request found.
Phase(o, d) ==
    /\ o.pc = "exists" => o.next = Fresh
    /\ o.pc \in {"await", "truncate", "write"} => NextIs(o)
    /\ DescIs(o, d.desc)
    /\ ManagedIs(o, d.managed)
    /\ DataIs(o, d.data)

Sound(o, d, w) ==
    /\ Shape(o)
    /\ Covered(o, w)
    /\ o.base # Unknown => Phase(o, d)

Alone == \A t \in Thread : op[t].pc # "idle" /\ op[t].base # Unknown => At(op[t].inst) = {t}

AllSound == \A t \in Thread : op[t].pc # "idle" =>
                Sound(op[t], dir[op[t].inst], worlds[op[t].inst])

Told == \A i \in Id : told[i] # Unknown => At(i) = {} /\ dir[i] = told[i]

IInv == TypeOK /\ Told /\ Alone /\ AllSound /\ WorldsStay

------------------------------------------------------------------------------
(* Facts about directories *)

(* Directories with the same things in them are the same. *)
LEMMA DirEq ==
    ASSUME NEW x \in Directory, NEW y \in Directory,
           x.desc = y.desc, x.managed = y.managed, x.data = y.data
    PROVE  x = y
BY DEF Directory

(* No directory is the unknown one. *)
LEMMA Facts ==
    /\ Unknown \notin Directory
    /\ Fresh \in Descriptor
    /\ Nothing \in Directory
    /\ Torn \notin Descriptor /\ Absent \notin Descriptor /\ Garbage \notin Descriptor
    /\ Torn # Absent /\ Absent \notin Id
BY InstancesAssumption DEF Directory, Descriptor, Nothing, Fresh

LEMMA IdleType == Idle \in Op
BY Facts, InstancesAssumption DEF Op, Idle, Pc, Kind

------------------------------------------------------------------------------
(* What the kinds of steps keep *)

(* What a step of one request does to the others: it may take their file away. *)
LEMMA OthersKeep ==
    ASSUME IInv, NEW t \in Thread, NEW n \in Op, Becomes(t, n)
    PROVE  /\ op' \in [Thread -> Op]
           /\ op'[t] = n
           /\ \A s \in Thread \ {t} :
                /\ op[s].inst # op[t].inst => op'[s] = op[s]
                /\ op'[s].pc = op[s].pc /\ op'[s].inst = op[s].inst
                /\ op'[s].base = op[s].base
                /\ op'[s].kind = op[s].kind /\ op'[s].saves = op[s].saves
<1>1. ASSUME NEW s \in Thread \ {t}
      PROVE  /\ op'[s] \in Op
             /\ op[s].inst # op[t].inst => op'[s] = op[s]
             /\ op'[s].pc = op[s].pc /\ op'[s].inst = op[s].inst
             /\ op'[s].base = op[s].base
             /\ op'[s].kind = op[s].kind /\ op'[s].saves = op[s].saves
  <2>1. op[s] \in Op
    BY DEF IInv, TypeOK
  <2>2. op'[s] = op[s] \/ op'[s] = [op[s] EXCEPT !.lost = TRUE]
    BY DEF Becomes
  <2>3. op[s].inst # op[t].inst => op'[s] = op[s]
    BY DEF Becomes
  <2>4. [op[s] EXCEPT !.lost = TRUE] \in Op
    BY <2>1 DEF Op
  <2> QED
    BY <2>1, <2>2, <2>3, <2>4 DEF Op
<1>2. op' = [s \in Thread |-> op'[s]] /\ op'[t] = n
  BY DEF Becomes
<1>3. op' \in [Thread -> Op]
  <2>1. \A s \in Thread : op'[s] \in Op
    BY <1>1, <1>2
  <2> QED
    BY <1>2, <2>1
<1> QED
  BY <1>1, <1>2, <1>3

(* Those of other instances stay sound, and so do those that have lost track. *)
LEMMA OthersSound ==
    ASSUME IInv, NEW t \in Thread, op[t].pc # "idle", NEW n \in Op, Becomes(t, n),
           \A j \in Id : j # op[t].inst => dir'[j] = dir[j] /\ worlds'[j] = worlds[j],
           worlds'[op[t].inst] \subseteq worlds[op[t].inst],
           NEW s \in Thread \ {t}, op[s].pc # "idle"
    PROVE  Sound(op[s], dir[op[s].inst], worlds[op[s].inst])'
<1>1. Sound(op[s], dir[op[s].inst], worlds[op[s].inst])
  BY DEF IInv, AllSound
<1>2. op[s].inst \in Id
  BY <1>1 DEF Sound, Shape
<1>3. CASE op[s].inst # op[t].inst
  BY <1>1, <1>2, <1>3, OthersKeep
<1>4. CASE op[s].inst = op[t].inst
  <2>1. s \in At(op[t].inst) /\ t \in At(op[t].inst)
    BY <1>4 DEF At
  <2>3. op[s].base = Unknown
    BY <2>1, <1>4 DEF IInv, Alone
  <2>4. Shape(op[s])'
    BY <1>1, OthersKeep DEF Sound, Shape
  <2>5. Covered(op[s], worlds[op[s].inst])'
    BY <1>1, <1>4, OthersKeep DEF Sound, Covered
  <2> QED
    BY <2>3, <2>4, <2>5, OthersKeep DEF Sound
<1> QED
  BY <1>3, <1>4

(* A request that goes on, changing its directory to d. *)
LEMMA MoveKeeps ==
    ASSUME IInv, NEW t \in Thread, op[t].pc # "idle",
           NEW n \in Op, n.pc # "idle", n.inst = op[t].inst, n.base = op[t].base,
           NEW d \in Directory, dir' = [dir EXCEPT ![op[t].inst] = d],
           NEW w \in SUBSET worlds[op[t].inst], worlds' = [worlds EXCEPT ![op[t].inst] = w],
           Becomes(t, n), told' = told,
           Sound(n, d, w),
           \A f \in w : d.data[f] = "own"
    PROVE  IInv'
<1> DEFINE i == op[t].inst
<1>1. i \in Id
  BY DEF IInv, AllSound, Sound, Shape
<1>2. /\ dir'[i] = d /\ worlds'[i] = w
      /\ \A j \in Id : j # i => dir'[j] = dir[j] /\ worlds'[j] = worlds[j]
  BY <1>1 DEF IInv, TypeOK
<1>3. op'[t] = n
  BY OthersKeep
<1>4. TypeOK'
  BY <1>1, OthersKeep DEF IInv, TypeOK
<1>5. \A s \in Thread : /\ op'[s].inst = op[s].inst
                        /\ op'[s].base = op[s].base
                        /\ (op'[s].pc # "idle") = (op[s].pc # "idle")
  BY <1>3, OthersKeep
<1>6. \A j : At(j)' = At(j)
  BY <1>5 DEF At
<1>7. Told'
  <2> SUFFICES ASSUME NEW j \in Id, told[j] # Unknown
               PROVE  At(j) = {} /\ dir'[j] = told[j]
    BY <1>6 DEF Told
  <2>1. At(j) = {} /\ dir[j] = told[j]
    BY DEF IInv, Told
  <2>2. t \in At(i)
    BY DEF At
  <2> QED
    BY <2>1, <2>2, <1>2
<1>8. Alone'
  BY <1>5, <1>6 DEF IInv, Alone
<1>9. AllSound'
  <2> SUFFICES ASSUME NEW s \in Thread, op[s].pc # "idle", s # t
               PROVE  Sound(op[s], dir[op[s].inst], worlds[op[s].inst])'
    BY <1>1, <1>2, <1>3, <1>5 DEF AllSound
  <2> QED
    BY <1>2, OthersSound
<1>10. WorldsStay'
  BY <1>2 DEF IInv, WorldsStay
<1> QED
  BY <1>4, <1>7, <1>8, <1>9, <1>10 DEF IInv

(* A request that is answered, and leaves directory d. *)
LEMMA ReplyKeeps ==
    ASSUME IInv, NEW t \in Thread, op[t].pc # "idle",
           NEW d \in Directory, dir' = [dir EXCEPT ![op[t].inst] = d], worlds' = worlds,
           NEW known, Reply(t, known),
           op[t].base # Unknown => known \in {d, Unknown},
           \A f \in worlds[op[t].inst] : d.data[f] = "own"
    PROVE  IInv'
<1> DEFINE i == op[t].inst
<1>1. i \in Id
  BY DEF IInv, AllSound, Sound, Shape
<1>2. dir'[i] = d /\ \A j \in Id : j # i => dir'[j] = dir[j]
  BY <1>1 DEF IInv, TypeOK
<1>3. Becomes(t, Idle) /\ told' = IF op[t].base = Unknown THEN told ELSE [told EXCEPT ![i] = known]
  BY DEF Reply
<1>4. op' \in [Thread -> Op] /\ op'[t] = Idle
  BY <1>3, IdleType, OthersKeep
<1>5. TypeOK'
  BY <1>1, <1>3, <1>4 DEF IInv, TypeOK
<1>6. \A s \in Thread \ {t} : /\ op'[s].inst = op[s].inst
                              /\ op'[s].base = op[s].base
                              /\ op'[s].pc = op[s].pc
  BY <1>3, IdleType, OthersKeep
<1>7. op'[t].pc = "idle" /\ t \in At(i)
  BY <1>4 DEF Idle, At
<1>8. \A j : At(j)' = At(j) \ {t}
  BY <1>6, <1>7 DEF At
<1>9. Told'
  <2> SUFFICES ASSUME NEW j \in Id, told'[j] # Unknown
               PROVE  At(j)' = {} /\ dir'[j] = told'[j]
    BY DEF Told
  <2>1. CASE j # i
    <3>1. told'[j] = told[j]
      BY <2>1, <1>1, <1>3 DEF IInv, TypeOK
    <3> QED
      BY <3>1, <2>1, <1>2, <1>8 DEF IInv, Told
  <2>2. CASE j = i
    <3>1. op[t].base # Unknown /\ told'[i] = known
      BY <2>2, <1>1, <1>3, <1>7 DEF IInv, TypeOK, Told
    <3>2. At(i) = {t}
      BY <3>1 DEF IInv, Alone
    <3> QED
      BY <3>1, <3>2, <2>2, <1>2, <1>8
  <2> QED
    BY <2>1, <2>2
<1>10. Alone'
  <2> SUFFICES ASSUME NEW s \in Thread, op'[s].pc # "idle", op'[s].base # Unknown
               PROVE  At(op[s].inst)' = {s}
    BY DEF Alone
  <2>1. s # t /\ op[s].pc # "idle" /\ op[s].base # Unknown /\ op'[s].inst = op[s].inst
    BY <1>6, <1>7
  <2>2. At(op[s].inst) = {s}
    BY <2>1 DEF IInv, Alone
  <2> QED
    BY <2>1, <2>2, <1>8
<1>11. AllSound'
  <2> SUFFICES ASSUME NEW s \in Thread \ {t}, op[s].pc # "idle"
               PROVE  Sound(op[s], dir[op[s].inst], worlds[op[s].inst])'
    BY <1>6, <1>7 DEF AllSound
  <2> QED
    BY <1>2, <1>3, IdleType, OthersSound
<1>12. WorldsStay'
  BY <1>2 DEF IInv, WorldsStay
<1> QED
  BY <1>5, <1>9, <1>10, <1>11, <1>12 DEF IInv

(* What somebody else does to an instance that has a descriptor. *)
LEMMA JoinedKeeps ==
    ASSUME IInv, NEW i \in Id,
           NEW d \in Directory, dir' = [dir EXCEPT ![i] = d],
           NEW w \in SUBSET File, worlds' = [worlds EXCEPT ![i] = w],
           op' = [t \in Thread |-> IF t \in At(i) THEN Joined(op[t]) ELSE op[t]],
           told' = IF told[i] = Unknown THEN told ELSE [told EXCEPT ![i] = dir'[i]],
           At(i) # {} => w = worlds[i],
           \A f \in w : d.data[f] = "own"
    PROVE  IInv'
<1>1. /\ dir'[i] = d /\ worlds'[i] = w
      /\ \A j \in Id : j # i => dir'[j] = dir[j] /\ worlds'[j] = worlds[j]
  BY DEF IInv, TypeOK
<1>2. ASSUME NEW s \in Thread
      PROVE  /\ op'[s] \in Op
             /\ op'[s].pc = op[s].pc /\ op'[s].inst = op[s].inst
             /\ op'[s].kind = op[s].kind /\ op'[s].saves = op[s].saves
             /\ s \in At(i) => op'[s].base = Unknown
             /\ s \notin At(i) => op'[s] = op[s]
  <2>1. op[s] \in Op
    BY DEF IInv, TypeOK
  <2> QED
    BY <2>1 DEF Op, Joined
<1>3. TypeOK'
  <2>1. op' \in [Thread -> Op]
    BY <1>2
  <2> QED
    BY <2>1 DEF IInv, TypeOK
<1>4. \A j : At(j)' = At(j)
  BY <1>2 DEF At
<1>5. Told'
  BY <1>1, <1>4, Facts DEF IInv, TypeOK, Told
<1>6. Alone'
  <2> SUFFICES ASSUME NEW s \in Thread, op'[s].pc # "idle", op'[s].base # Unknown
               PROVE  At(op[s].inst)' = {s}
    BY DEF Alone
  <2> QED
    BY <1>2, <1>4 DEF IInv, Alone
<1>7. AllSound'
  <2> SUFFICES ASSUME NEW s \in Thread, op[s].pc # "idle"
               PROVE  Sound(op[s], dir[op[s].inst], worlds[op[s].inst])'
    BY <1>2 DEF AllSound
  <2>1. Sound(op[s], dir[op[s].inst], worlds[op[s].inst])
    BY DEF IInv, AllSound
  <2>2. op[s].inst \in Id
    BY <2>1 DEF Sound, Shape
  <2>3. CASE s \notin At(i)
    <3>1. op[s].inst # i
      BY <2>3 DEF At
    <3> QED
      BY <2>1, <2>2, <2>3, <3>1, <1>1, <1>2
  <2>4. CASE s \in At(i)
    <3>1. op[s].inst = i /\ worlds' [i] = worlds[i]
      BY <2>4, <1>1 DEF At
    <3>2. Shape(op[s])'
      BY <2>1, <1>2 DEF Sound, Shape
    <3>3. Covered(op[s], worlds[op[s].inst])'
      BY <2>1, <3>1, <1>2 DEF Sound, Covered
    <3> QED
      BY <2>4, <3>2, <3>3, <1>2 DEF Sound
  <2> QED
    BY <2>3, <2>4
<1>8. WorldsStay'
  BY <1>1 DEF IInv, WorldsStay
<1> QED
  BY <1>3, <1>5, <1>6, <1>7, <1>8 DEF IInv

------------------------------------------------------------------------------
(* The steps of requests *)

(* Where a request is. *)
LEMMA Here ==
    ASSUME IInv, NEW t \in Thread, op[t].pc # "idle"
    PROVE  /\ op[t] \in Op
           /\ op[t].inst \in Id
           /\ Sound(op[t], Dir(t), worlds[op[t].inst])
           /\ Dir(t) \in Directory
           /\ \A f \in worlds[op[t].inst] : f \in File /\ Dir(t).data[f] = "own"
           /\ dir = [dir EXCEPT ![op[t].inst] = Dir(t)]
           /\ worlds = [worlds EXCEPT ![op[t].inst] = worlds[op[t].inst]]
<1>1. op[t] \in Op /\ Sound(op[t], Dir(t), worlds[op[t].inst])
  BY DEF IInv, TypeOK, AllSound, Dir
<1>2. op[t].inst \in Id
  BY <1>1 DEF Sound, Shape
<1> QED
  BY <1>1, <1>2 DEF IInv, TypeOK, WorldsStay, Dir

(* A request that goes on and changes its directory. *)
LEMMA ChangeKeeps ==
    ASSUME IInv, NEW t \in Thread, op[t].pc # "idle",
           NEW n \in Op, n.pc # "idle", n.inst = op[t].inst, n.base = op[t].base,
           NEW d \in Directory, Changes(t, d), Becomes(t, n), UNCHANGED <<told, worlds>>,
           Sound(n, d, worlds[op[t].inst]),
           \A f \in worlds[op[t].inst] : d.data[f] = "own"
    PROVE  IInv'
<1>1. worlds' = [worlds EXCEPT ![op[t].inst] = worlds[op[t].inst]]
  BY Here
<1>2. dir' = [dir EXCEPT ![op[t].inst] = d]
  BY DEF Changes
<1> QED
  BY <1>1, <1>2, MoveKeeps

(* A request that goes on and changes nothing. *)
LEMMA WaitKeeps ==
    ASSUME IInv, NEW t \in Thread, op[t].pc # "idle",
           NEW n \in Op, n.pc # "idle", n.inst = op[t].inst, n.base = op[t].base,
           Becomes(t, n), UNCHANGED <<dir, told, worlds>>,
           Sound(n, Dir(t), worlds[op[t].inst])
    PROVE  IInv'
<1>1. Changes(t, Dir(t))
  BY Here DEF Changes
<1> QED
  BY <1>1, Here, ChangeKeeps

(* A request that ends and changes nothing. *)
LEMMA EndKeeps ==
    ASSUME IInv, NEW t \in Thread, op[t].pc # "idle", UNCHANGED <<dir, worlds>>,
           NEW known, Reply(t, known),
           op[t].base # Unknown => known \in {Dir(t), Unknown}
    PROVE  IInv'
BY Here, ReplyKeeps

(* A refusal leaves the directory as the request found it. *)
LEMMA RefusedKeeps ==
    ASSUME IInv, NEW t \in Thread, op[t].pc \in {"exists", "get", "await"},
           UNCHANGED <<dir, worlds>>, Refused(t)
    PROVE  IInv'
<1>1. op[t].base \in Directory \cup {Unknown}
  BY Here DEF Op
<1>2. ASSUME op[t].base # Unknown PROVE Dir(t) = op[t].base
  <2>1. Phase(op[t], Dir(t))
    BY <1>2, Here DEF Sound
  <2>2. /\ Dir(t).desc = op[t].base.desc
        /\ Dir(t).managed = op[t].base.managed
        /\ Dir(t).data = op[t].base.data
    BY <2>1 DEF Phase, DescIs, ManagedIs, DataIs
  <2> QED
    BY <1>1, <1>2, <2>2, Here, DirEq
<1> QED
  BY <1>1, <1>2, EndKeeps DEF Refused

\* What another request's beginning leaves of a request.
LEMMA JoinedType ==
    ASSUME NEW o \in Op
    PROVE  /\ Joined(o) \in Op
           /\ Joined(o).pc = o.pc /\ Joined(o).inst = o.inst
           /\ Joined(o).kind = o.kind /\ Joined(o).saves = o.saves
           /\ Joined(o).base = Unknown
<1>1. /\ Joined(o).pc = o.pc /\ Joined(o).inst = o.inst /\ Joined(o).given = o.given
      /\ Joined(o).kind = o.kind /\ Joined(o).saves = o.saves /\ Joined(o).value = o.value
      /\ Joined(o).next = o.next /\ Joined(o).lost = o.lost /\ Joined(o).left = o.left
      /\ Joined(o).base = Unknown
      /\ Joined(o) = [k \in DOMAIN o |-> Joined(o)[k]]
  BY DEF Op, Joined
<1>2. Joined(o) \in Op
  BY <1>1 DEF Op, Joined
<1> QED
  BY <1>1, <1>2

LEMMA BeginKeeps ==
    ASSUME IInv, NEW t \in Thread, Begin(t)
    PROVE  IInv'
<1>1. PICK i \in Id, kind \in Kind \ {"none"}, given \in SUBSET {"memory", "arguments", "drop"},
           value \in Setting :
        /\ kind # "configure" => given = {}
        /\ kind # "import" /\ given \cap {"memory", "arguments"} = {} => value = Default
        /\ "memory" \in given => value # Default
        /\ op' = [s \in Thread |->
             IF s = t THEN Begun(i, kind, given, value)
             ELSE IF s \in At(i) THEN Joined(op[s]) ELSE op[s]]
        /\ told' = [told EXCEPT ![i] = Unknown]
        /\ worlds' = IF kind = "delete" THEN [worlds EXCEPT ![i] = {}] ELSE worlds
  BY Zenon DEF Begin
<1> DEFINE n == op'[t]
<1>2. /\ n \in Op
      /\ n.pc = Entry(kind)
      /\ n.kind = kind /\ n.inst = i /\ n.next = Fresh
      /\ n.base = IF At(i) = {} THEN dir[i] ELSE Unknown
  <2>1. dir[i] \in Directory
    BY DEF IInv, TypeOK
  <2> DEFINE base == IF At(i) = {} THEN dir[i] ELSE Unknown
  <2>2. Entry(kind) \in Pc /\ base \in Directory \cup {Unknown}
    BY <2>1 DEF Pc, Kind, Entry
  <2>3. n = [Idle EXCEPT !.pc = Entry(kind), !.kind = kind, !.inst = i, !.given = given,
                         !.value = value, !.base = base]
    BY <1>1 DEF Begun
  <2> HIDE DEF base, n
  <2>4. /\ n \in Op /\ n.pc = Entry(kind) /\ n.kind = kind /\ n.inst = i
        /\ n.base = base /\ n.next = Idle.next
    BY <2>2, <2>3, IdleType DEF Op
  <2> QED
    BY <2>4 DEF base, Idle
<1>3. n.pc # "idle" /\ op[t].pc = "idle" /\ dir' = dir
  BY <1>2 DEF Kind, Begin, Entry
<1>4. ASSUME NEW s \in Thread \ {t}
      PROVE  /\ op'[s] \in Op
             /\ op'[s].pc = op[s].pc /\ op'[s].inst = op[s].inst
             /\ op'[s].kind = op[s].kind /\ op'[s].saves = op[s].saves
             /\ s \in At(i) => op'[s].base = Unknown
             /\ s \notin At(i) => op'[s] = op[s]
  <2>1. op[s] \in Op
    BY DEF IInv, TypeOK
  <2>2. op'[s] = IF s \in At(i) THEN Joined(op[s]) ELSE op[s]
    BY <1>1
  <2> QED
    BY <2>1, <2>2, JoinedType
<1> HIDE DEF n
<1>5. op'[t] = n /\ op' = [s \in Thread |-> op'[s]]
  <2>1. op' = [s \in Thread |-> op'[s]]
    BY <1>1, Zenon
  <2> QED
    BY <2>1 DEF n
<1>6. /\ \A j \in Id : j # i => worlds'[j] = worlds[j] /\ told'[j] = told[j]
      /\ worlds'[i] \subseteq worlds[i] /\ told'[i] = Unknown
      /\ kind = "delete" => worlds'[i] = {}
  BY <1>1 DEF IInv, TypeOK
<1>7. TypeOK'
  <2>1. op' \in [Thread -> Op]
    BY <1>2, <1>4, <1>5
  <2>2. worlds' \in [Id -> SUBSET File] /\ told' \in [Id -> Directory \cup {Unknown}]
    BY <1>1 DEF IInv, TypeOK
  <2> QED
    BY <2>1, <2>2, <1>3 DEF IInv, TypeOK
<1>8. \A j : At(j)' = IF j = i THEN At(j) \cup {t} ELSE At(j)
  <2>1. ASSUME NEW j, NEW s \in Thread
        PROVE  s \in At(j)' <=> (s = t /\ j = i) \/ s \in At(j)
    BY <1>2, <1>3, <1>4, <1>5 DEF At
  <2>2. \A j : At(j) \subseteq Thread /\ At(j)' \subseteq Thread
    BY DEF At
  <2> QED
    BY <2>1, <2>2
<1>9. Told'
  BY <1>3, <1>6, <1>8 DEF IInv, Told
<1>10. Alone'
  <2> SUFFICES ASSUME NEW s \in Thread, op'[s].pc # "idle", op'[s].base # Unknown
               PROVE  At(op[s].inst)' = {s}
    BY DEF Alone
  <2>1. CASE s = t
    BY <2>1, <1>2, <1>5, <1>8
  <2>2. CASE s # t
    <3>1. s \notin At(i) /\ op'[s] = op[s]
      BY <2>2, <1>4
    <3>2. op[s].inst # i /\ At(op[s].inst) = {s}
      BY <3>1 DEF IInv, Alone, At
    <3> QED
      BY <3>1, <3>2, <1>8
  <2> QED
    BY <2>1, <2>2
<1>11. AllSound'
  <2>1. Sound(op[t], dir[op[t].inst], worlds[op[t].inst])'
    <3>1. Shape(n) /\ Covered(n, worlds'[i])
      BY <1>2, <1>6 DEF Shape, Covered, Kind, Entry
    <3>2. ASSUME n.base # Unknown PROVE Phase(n, dir[i])
      <4>1. dir[i] = n.base
        BY <3>2, <1>2
      <4>2. n.pc \in {"exists", "get"} \/ (n.pc = "find" /\ n.kind # "import")
        BY <1>2 DEF Kind, Entry
      <4> QED
        BY <1>2, <4>1, <4>2 DEF Phase, DescIs, ManagedIs, DataIs
    <3> QED
      BY <3>1, <3>2, <1>2, <1>3, <1>5 DEF Sound
  <2>2. ASSUME NEW s \in Thread \ {t}, op[s].pc # "idle"
        PROVE  Sound(op[s], dir[op[s].inst], worlds[op[s].inst])'
    <3>1. Sound(op[s], dir[op[s].inst], worlds[op[s].inst])
      BY <2>2 DEF IInv, AllSound
    <3>2. op[s].inst \in Id
      BY <3>1 DEF Sound, Shape
    <3>3. CASE s \notin At(i)
      <4>1. op[s].inst # i /\ op'[s] = op[s]
        BY <3>3, <2>2, <1>4 DEF At
      <4> QED
        BY <3>1, <3>2, <4>1, <1>3, <1>6
    <3>4. CASE s \in At(i)
      <4>1. op[s].inst = i
        BY <3>4 DEF At
      <4>2. Shape(op[s])'
        BY <3>1, <1>4 DEF Sound, Shape
      <4>3. Covered(op[s], worlds[op[s].inst])'
        BY <3>1, <4>1, <1>4, <1>6 DEF Sound, Covered
      <4> QED
        BY <3>4, <4>2, <4>3, <1>4 DEF Sound
    <3> QED
      BY <3>3, <3>4
  <2> QED
    BY <2>1, <2>2, <1>4, <1>5 DEF AllSound
<1>12. WorldsStay'
  BY <1>3, <1>6 DEF IInv, WorldsStay
<1> QED
  BY <1>7, <1>9, <1>10, <1>11, <1>12 DEF IInv

(* What is saved is a descriptor. *)
LEMMA Saved ==
    ASSUME NEW d \in Descriptor, NEW value \in Setting, NEW given
    PROVE  /\ Configured(d, given, value) \in Descriptor
           /\ Played(d) \in Descriptor
           /\ Imported(value) \in Descriptor
BY InstancesAssumption DEF Configured, Played, Imported, Fresh, Descriptor

LEMMA ExistsKeeps ==
    ASSUME IInv, NEW t \in Thread, Exists(t)
    PROVE  IInv'
<1>1. op[t].pc = "exists" /\ dir' = dir
  BY DEF Exists
<1>2. CASE Dir(t).desc # Absent
  BY <1>1, <1>2, RefusedKeeps DEF Exists
<1>3. CASE Dir(t).desc = Absent
  <2> DEFINE saves == IF op[t].kind = "import" THEN 2 ELSE 1
             n == [op[t] EXCEPT !.pc = "truncate", !.saves = saves]
             w == IF op[t].kind = "import" THEN worlds[op[t].inst] \ Foreign ELSE worlds[op[t].inst]
  <2>1. Becomes(t, n) /\ told' = told
    BY <1>3 DEF Exists
  <2>2. worlds' = [worlds EXCEPT ![op[t].inst] = w]
    BY <1>1, <1>3, Here DEF Exists
  <2>3. op[t] \in Op /\ saves \in 0..2 /\ "truncate" \in Pc
    BY <1>1, Here DEF Pc
  <2> HIDE DEF saves
  <2>4. /\ n \in Op /\ n.pc = "truncate" /\ n.saves = saves /\ n.inst = op[t].inst
        /\ n.kind = op[t].kind /\ n.base = op[t].base
        /\ n.next = op[t].next
    BY <2>3 DEF Op
  <2> HIDE DEF n
  <2>5. Sound(op[t], Dir(t), worlds[op[t].inst])
    BY <1>1, Here
  <2>6. Shape(n) /\ Covered(n, w)
    BY <1>1, <2>4, <2>5 DEF Sound, Shape, Covered, saves
  <2>7. ASSUME n.base # Unknown PROVE Phase(n, Dir(t))
    <3>1. Phase(op[t], Dir(t))
      BY <2>4, <2>5, <2>7 DEF Sound
    <3>2. NextIs(n)
      BY <1>1, <2>4, <2>5, <3>1 DEF Phase, NextIs, Sound, Shape, saves
    <3> QED
      BY <1>1, <2>4, <3>1, <3>2 DEF Phase, DescIs, ManagedIs, DataIs, saves
  <2>8. Sound(n, Dir(t), w)
    BY <2>6, <2>7 DEF Sound
  <2>9. dir' = [dir EXCEPT ![op[t].inst] = Dir(t)] /\ Dir(t) \in Directory
    BY <1>1, Here
  <2>10. w \in SUBSET worlds[op[t].inst] /\ \A f \in w : Dir(t).data[f] = "own"
    BY <1>1, Here
  <2> HIDE DEF w
  <2> QED
    BY <1>1, <2>1, <2>2, <2>4, <2>8, <2>9, <2>10, MoveKeeps
<1> QED
  BY <1>2, <1>3

LEMMA GetKeeps ==
    ASSUME IInv, NEW t \in Thread, Get(t)
    PROVE  IInv'
<1>1. op[t].pc = "get" /\ UNCHANGED <<dir, worlds>>
  BY DEF Get
<1>2. CASE \/ Dir(t).desc \in {Absent, Torn, Garbage}
           \/ op[t].kind = "launch" /\ "lock" \notin Dir(t).managed
  BY <1>1, <1>2, RefusedKeeps DEF Get
<1>3. CASE ~ \/ Dir(t).desc \in {Absent, Torn, Garbage}
             \/ op[t].kind = "launch" /\ "lock" \notin Dir(t).managed
  <2> DEFINE pc == IF op[t].kind = "launch" THEN "await" ELSE "truncate"
             next == IF op[t].kind = "launch" THEN Played(Dir(t).desc)
                     ELSE Configured(Dir(t).desc, op[t].given, op[t].value)
             n == [op[t] EXCEPT !.saves = 1, !.pc = pc, !.next = next]
  <2>1. Becomes(t, n) /\ told' = told
    BY <1>3 DEF Get
  <2>2. op[t] \in Op /\ Dir(t) \in Directory /\ Sound(op[t], Dir(t), worlds[op[t].inst])
    BY <1>1, Here
  <2>3. Dir(t).desc \in Descriptor
    BY <1>3, <2>2 DEF Directory
  <2>4. pc \in Pc /\ next \in Descriptor /\ 1 \in 0..2
    BY <2>2, <2>3, Saved DEF Pc, Op
  <2> HIDE DEF pc, next
  <2>5. /\ n \in Op /\ n.pc = pc /\ n.saves = 1 /\ n.next = next /\ n.inst = op[t].inst
        /\ n.kind = op[t].kind /\ n.base = op[t].base
        /\ n.given = op[t].given /\ n.value = op[t].value
    BY <2>2, <2>4 DEF Op
  <2> HIDE DEF n
  <2>6. Shape(n) /\ Covered(n, worlds[op[t].inst])
    BY <1>1, <2>2, <2>5 DEF Sound, Shape, Covered, pc
  <2>7. ASSUME n.base # Unknown PROVE Phase(n, Dir(t))
    <3>1. Phase(op[t], Dir(t)) /\ op[t].kind \in {"configure", "launch"}
      BY <1>1, <2>2, <2>5, <2>7 DEF Sound, Shape
    <3>2. Dir(t).desc = op[t].base.desc
      BY <1>1, <3>1 DEF Phase, DescIs
    <3>3. NextIs(n)
      BY <2>3, <2>5, <3>1, <3>2 DEF NextIs, next
    <3> QED
      BY <1>1, <2>5, <3>1, <3>2, <3>3 DEF Phase, DescIs, ManagedIs, DataIs, pc
  <2>8. Sound(n, Dir(t), worlds[op[t].inst]) /\ n.pc # "idle"
    BY <2>5, <2>6, <2>7 DEF Sound, pc
  <2> QED
    BY <1>1, <2>1, <2>5, <2>8, WaitKeeps
<1> QED
  BY <1>2, <1>3

LEMMA AwaitKeeps ==
    ASSUME IInv, NEW t \in Thread, Await(t)
    PROVE  IInv'
<1>1. op[t].pc = "await" /\ UNCHANGED <<dir, worlds>>
  BY DEF Await
<1>2. CASE Refused(t)
  BY <1>1, <1>2, RefusedKeeps
<1>3. CASE Goto(t, "truncate") /\ UNCHANGED told
  <2> DEFINE n == [op[t] EXCEPT !.pc = "truncate"]
  <2>1. Becomes(t, n) /\ told' = told
    BY <1>3 DEF Goto
  <2>2. op[t] \in Op /\ Sound(op[t], Dir(t), worlds[op[t].inst]) /\ "truncate" \in Pc
    BY <1>1, Here DEF Pc
  <2>3. /\ n \in Op /\ n.pc = "truncate" /\ n.saves = op[t].saves /\ n.next = op[t].next
        /\ n.inst = op[t].inst /\ n.kind = op[t].kind
        /\ n.base = op[t].base /\ n.given = op[t].given /\ n.value = op[t].value
    BY <2>2 DEF Op
  <2> HIDE DEF n
  <2>4. Shape(n) /\ Covered(n, worlds[op[t].inst])
    BY <1>1, <2>2, <2>3 DEF Sound, Shape, Covered
  <2>5. ASSUME n.base # Unknown PROVE Phase(n, Dir(t))
    <3>1. Phase(op[t], Dir(t)) /\ op[t].kind = "launch"
      BY <1>1, <2>2, <2>3, <2>5 DEF Sound, Shape
    <3> QED
      BY <1>1, <2>3, <3>1 DEF Phase, NextIs, DescIs, ManagedIs, DataIs
  <2>6. Sound(n, Dir(t), worlds[op[t].inst])
    BY <2>4, <2>5 DEF Sound
  <2> QED
    BY <1>1, <2>1, <2>3, <2>6, WaitKeeps
<1> QED
  BY <1>2, <1>3 DEF Await

LEMMA TruncateKeeps ==
    ASSUME IInv, NEW t \in Thread, Truncate(t)
    PROVE  IInv'
<1> DEFINE n == [op[t] EXCEPT !.pc = "write", !.lost = FALSE]
           d == [Dir(t) EXCEPT !.desc = Torn]
<1>1. /\ op[t].pc = "truncate" /\ UNCHANGED <<told, worlds>>
      /\ Becomes(t, n) /\ Changes(t, d)
  BY DEF Truncate
<1>2. /\ op[t] \in Op /\ Dir(t) \in Directory
      /\ Sound(op[t], Dir(t), worlds[op[t].inst]) /\ "write" \in Pc
      /\ \A f \in worlds[op[t].inst] : Dir(t).data[f] = "own"
  BY <1>1, Here DEF Pc
<1>3. /\ n \in Op /\ n.pc = "write" /\ n.saves = op[t].saves /\ n.next = op[t].next
      /\ n.inst = op[t].inst /\ n.kind = op[t].kind
      /\ n.base = op[t].base /\ n.given = op[t].given /\ n.value = op[t].value
      /\ ~n.lost
  BY <1>2 DEF Op
<1>4. /\ d \in Directory /\ d.desc = Torn
      /\ d.managed = Dir(t).managed /\ d.data = Dir(t).data
  BY <1>2 DEF Directory
<1> HIDE DEF n, d
<1>5. Shape(n) /\ Covered(n, worlds[op[t].inst])
  BY <1>1, <1>2, <1>3 DEF Sound, Shape, Covered
<1>6. ASSUME n.base # Unknown PROVE Phase(n, d)
  <2>1. Phase(op[t], Dir(t))
    BY <1>2, <1>3, <1>6 DEF Sound
  <2> QED
    BY <1>1, <1>3, <1>4, <2>1 DEF Phase, NextIs, DescIs, ManagedIs, DataIs
<1>7. Sound(n, d, worlds[op[t].inst])
  BY <1>5, <1>6 DEF Sound
<1> QED
  BY <1>1, <1>2, <1>3, <1>4, <1>7, ChangeKeeps

(* A request that is answered for has done what it promised. *)
LEMMA DoneKeeps ==
    ASSUME IInv, NEW t \in Thread, op[t].pc # "idle",
           NEW d \in Directory, dir' = [dir EXCEPT ![op[t].inst] = d], worlds' = worlds,
           Done(t),
           op[t].base # Unknown => d = Promised(op[t]),
           \A f \in worlds[op[t].inst] : d.data[f] = "own"
    PROVE  IInv'
<1>1. Reply(t, Promised(op[t]))
  BY DEF Done
<1>2. op[t].base # Unknown => Promised(op[t]) \in {d, Unknown}
  OBVIOUS
<1> QED
  BY <1>1, <1>2, ReplyKeeps

(* A descriptor that is saved by a request that has the directory to itself. *)
LEMMA WrittenAlone ==
    ASSUME IInv, NEW t \in Thread, op[t].pc = "write", op[t].base # Unknown,
           NEW file \in IF op[t].lost THEN {Dir(t).desc} ELSE Written(Dir(t).desc, op[t].next)
    PROVE  file = op[t].next
<1>1. Phase(op[t], Dir(t))
  BY Here DEF Sound
<1>2. Dir(t).desc = Torn /\ ~op[t].lost
  BY <1>1 DEF Phase, DescIs
<1> QED
  BY <1>2 DEF Written

LEMMA WriteKeeps ==
    ASSUME IInv, NEW t \in Thread, Write(t)
    PROVE  IInv'
<1>1. op[t].pc = "write" /\ worlds' = worlds
  BY DEF Write
<1>2. PICK file \in IF op[t].lost THEN {Dir(t).desc} ELSE Written(Dir(t).desc, op[t].next) :
        Changes(t, [Dir(t) EXCEPT !.desc = file])
  BY DEF Write
<1> DEFINE d == [Dir(t) EXCEPT !.desc = file]
<1>3. /\ op[t] \in Op /\ Dir(t) \in Directory
      /\ Sound(op[t], Dir(t), worlds[op[t].inst])
      /\ \A f \in worlds[op[t].inst] : Dir(t).data[f] = "own"
  BY <1>1, Here
<1>4. op[t].base # Unknown => file = op[t].next /\ Phase(op[t], Dir(t))
  BY <1>1, <1>3, WrittenAlone DEF Sound
<1>5. file \in Descriptor \cup {Absent, Torn, Garbage}
  <2>1. op[t].next \in Descriptor /\ Dir(t).desc \in Descriptor \cup {Absent, Torn, Garbage}
    BY <1>3 DEF Op, Directory
  <2> QED
    BY <2>1 DEF Written
<1>6. /\ d \in Directory /\ d.desc = file
      /\ d.managed = Dir(t).managed /\ d.data = Dir(t).data
  BY <1>3, <1>5 DEF Directory
<1>7. Changes(t, d)
  BY <1>2
<1> HIDE DEF d
<1>8. CASE op[t].saves = 2
  <2> DEFINE n == [op[t] EXCEPT !.pc = "truncate", !.saves = 1, !.next = Imported(op[t].value)]
  <2>1. Becomes(t, n) /\ told' = told
    BY <1>8 DEF Write
  <2>2. Imported(op[t].value) \in Descriptor /\ "truncate" \in Pc /\ 1 \in 0..2
    BY <1>3, Saved DEF Op, Pc
  <2>3. /\ n \in Op /\ n.pc = "truncate" /\ n.saves = 1 /\ n.next = Imported(op[t].value)
        /\ n.inst = op[t].inst /\ n.kind = op[t].kind
        /\ n.base = op[t].base /\ n.value = op[t].value
    BY <1>3, <2>2 DEF Op
  <2> HIDE DEF n
  <2>4. op[t].kind = "import"
    BY <1>1, <1>3, <1>8 DEF Sound, Shape
  <2>5. Shape(n) /\ Covered(n, worlds[op[t].inst])
    BY <1>1, <1>3, <2>3, <2>4 DEF Sound, Shape, Covered
  <2>6. ASSUME n.base # Unknown PROVE Phase(n, d)
    <3>1. file = Fresh /\ Phase(op[t], Dir(t))
      BY <1>1, <1>4, <1>8, <2>3, <2>4, <2>6 DEF Phase, NextIs
    <3> QED
      BY <1>1, <1>6, <2>3, <2>4, <3>1 DEF Phase, NextIs, DescIs, ManagedIs, DataIs
  <2>7. Sound(n, d, worlds[op[t].inst])
    BY <2>5, <2>6 DEF Sound
  <2> QED
    BY <1>1, <1>3, <1>6, <1>7, <2>1, <2>3, <2>7, ChangeKeeps
<1>9. CASE op[t].saves = 1 /\ op[t].kind = "import"
  <2> DEFINE n == [op[t] EXCEPT !.pc = "carry", !.saves = 0, !.next = Fresh, !.left = Foreign]
  <2>1. Becomes(t, n) /\ told' = told
    BY <1>9 DEF Write
  <2>2. Fresh \in Descriptor /\ "carry" \in Pc /\ 0 \in 0..2
    BY Facts DEF Pc
  <2>3. /\ n \in Op /\ n.pc = "carry" /\ n.left = Foreign
        /\ n.inst = op[t].inst /\ n.kind = "import"
        /\ n.base = op[t].base /\ n.value = op[t].value
    BY <1>3, <1>9, <2>2 DEF Op
  <2> HIDE DEF n
  <2>4. Shape(n) /\ Covered(n, worlds[op[t].inst])
    BY <1>1, <1>3, <1>9, <2>3 DEF Sound, Shape, Covered
  <2>5. ASSUME n.base # Unknown PROVE Phase(n, d)
    <3>1. file = Imported(op[t].value) /\ Phase(op[t], Dir(t))
      BY <1>1, <1>4, <1>9, <2>3, <2>5 DEF Phase, NextIs
    <3> QED
      BY <1>1, <1>6, <2>3, <3>1 DEF Phase, NextIs, DescIs, ManagedIs, DataIs
  <2>6. Sound(n, d, worlds[op[t].inst])
    BY <2>4, <2>5 DEF Sound
  <2> QED
    BY <1>1, <1>3, <1>6, <1>7, <2>1, <2>3, <2>6, ChangeKeeps
<1>10. CASE ~(op[t].saves = 2) /\ ~(op[t].saves = 1 /\ op[t].kind = "import")
  <2>1. Done(t)
    BY <1>10 DEF Write
  <2>2. op[t].kind \in {"create", "configure", "launch"}
    BY <1>1, <1>3, <1>10 DEF Sound, Shape
  <2>3. ASSUME op[t].base # Unknown PROVE d = Promised(op[t])
    <3> DEFINE b == op[t].base
    <3>1. b \in Directory /\ op[t].next \in Descriptor
      BY <1>3, <2>3 DEF Op
    <3>2. Promised(op[t]) = [b EXCEPT !.desc = op[t].next]
      BY <1>1, <1>4, <2>2, <2>3 DEF Promised, Phase, NextIs
    <3>3. /\ Promised(op[t]) \in Directory /\ Promised(op[t]).desc = op[t].next
          /\ Promised(op[t]).managed = b.managed /\ Promised(op[t]).data = b.data
      BY <3>1, <3>2 DEF Directory
    <3>4. Dir(t).managed = b.managed /\ Dir(t).data = b.data
      BY <1>1, <1>4, <2>3 DEF Phase, ManagedIs, DataIs
    <3> QED
      BY <1>4, <1>6, <2>3, <3>3, <3>4, DirEq
  <2> QED
    BY <1>1, <1>3, <1>6, <1>7, <2>1, <2>3, DoneKeeps DEF Changes
<1> QED
  BY <1>8, <1>9, <1>10

LEMMA CarryKeeps ==
    ASSUME IInv, NEW t \in Thread, Carry(t)
    PROVE  IInv'
<1>1. op[t].pc = "carry" /\ UNCHANGED <<told, worlds>>
  BY DEF Carry
<1>2. PICK f \in op[t].left, file \in {"cut", "copied"} :
        /\ Changes(t, [Dir(t) EXCEPT !.data[f] = file])
        /\ Becomes(t, [op[t] EXCEPT !.left = IF file = "cut" THEN op[t].left ELSE op[t].left \ {f}])
  BY DEF Carry
<1> DEFINE left == IF file = "cut" THEN op[t].left ELSE op[t].left \ {f}
           n == [op[t] EXCEPT !.left = left]
           d == [Dir(t) EXCEPT !.data[f] = file]
<1>3. Becomes(t, n) /\ Changes(t, d)
  BY <1>2
<1>4. /\ op[t] \in Op /\ Dir(t) \in Directory
      /\ Sound(op[t], Dir(t), worlds[op[t].inst])
  BY <1>1, Here
<1>5. left \in SUBSET Foreign /\ left \subseteq op[t].left /\ (file = "cut" => f \in left)
  BY <1>4 DEF Op
<1>6. f \in Foreign /\ \A g \in op[t].left \ left : g = f
  BY <1>4 DEF Op
<1> HIDE DEF left
<1>7. /\ n \in Op /\ n.pc = "carry" /\ n.left = left
      /\ n.inst = op[t].inst /\ n.kind = op[t].kind
      /\ n.base = op[t].base /\ n.value = op[t].value
  BY <1>1, <1>4, <1>5 DEF Op
<1> HIDE DEF n
<1>8. /\ d \in Directory /\ d.desc = Dir(t).desc /\ d.managed = Dir(t).managed
      /\ \A g \in File : d.data[g] = IF g = f THEN file ELSE Dir(t).data[g]
  <2>1. Dir(t).data \in [File -> {Absent, "own", "copied", "cut"}]
    BY <1>4 DEF Directory
  <2>2. d = [Dir(t) EXCEPT !.data = [Dir(t).data EXCEPT ![f] = file]]
    BY <1>4 DEF Directory
  <2>3. [Dir(t).data EXCEPT ![f] = file] \in [File -> {Absent, "own", "copied", "cut"}]
    BY <2>1
  <2> HIDE DEF d
  <2>4. /\ d \in Directory /\ d.desc = Dir(t).desc /\ d.managed = Dir(t).managed
        /\ d.data = [Dir(t).data EXCEPT ![f] = file]
    BY <1>4, <2>2, <2>3 DEF Directory
  <2> QED
    BY <2>1, <2>4
<1> HIDE DEF d
<1>9. op[t].kind = "import" /\ worlds[op[t].inst] \cap Foreign = {}
  BY <1>1, <1>4 DEF Sound, Shape, Covered
<1>10. Shape(n) /\ Covered(n, worlds[op[t].inst])
  BY <1>1, <1>4, <1>7, <1>9 DEF Sound, Shape, Covered
<1>11. ASSUME n.base # Unknown PROVE Phase(n, d)
  <2>1. Phase(op[t], Dir(t))
    BY <1>4, <1>7, <1>11 DEF Sound
  <2>2. DataIs(n, d.data)
    <3>1. DataIs(op[t], Dir(t).data)
      BY <2>1 DEF Phase
    <3>2. \A g \in File : /\ g \notin Foreign => Dir(t).data[g] = op[t].base.data[g]
                          /\ g \in Foreign => Dir(t).data[g] \in {op[t].base.data[g], "cut", "copied"}
                          /\ g \in Foreign \ op[t].left => Dir(t).data[g] = "copied"
      BY <1>1, <3>1 DEF DataIs
    <3>3. ASSUME NEW g \in File
          PROVE  /\ g \notin Foreign => d.data[g] = n.base.data[g]
                 /\ g \in Foreign => d.data[g] \in {n.base.data[g], "cut", "copied"}
                 /\ g \in Foreign \ n.left => d.data[g] = "copied"
      <4>1. CASE g = f
        BY <1>2, <1>5, <1>6, <1>7, <1>8, <4>1
      <4>2. CASE g # f
        <5>1. d.data[g] = Dir(t).data[g] /\ n.base = op[t].base /\ n.left = left
          BY <1>7, <1>8, <4>2
        <5>2. g \in Foreign \ left => g \in Foreign \ op[t].left
          BY <1>6, <4>2
        <5> QED
          BY <3>2, <5>1, <5>2
      <4> QED
        BY <4>1, <4>2
    <3> QED
      BY <1>7, <3>3 DEF DataIs
  <2> QED
    BY <1>1, <1>7, <1>8, <2>1, <2>2 DEF Phase, DescIs, ManagedIs
<1>12. Sound(n, d, worlds[op[t].inst])
  BY <1>10, <1>11 DEF Sound
<1>13. \A g \in worlds[op[t].inst] : d.data[g] = "own"
  BY <1>1, <1>6, <1>8, <1>9, Here
<1> QED
  BY <1>1, <1>3, <1>7, <1>8, <1>12, <1>13, ChangeKeeps

LEMMA CarryEndKeeps ==
    ASSUME IInv, NEW t \in Thread, CarryEnd(t)
    PROVE  IInv'
<1>1. op[t].pc = "carry" /\ op[t].left = {} /\ UNCHANGED <<dir, worlds>> /\ Done(t)
  BY DEF CarryEnd
<1>2. /\ op[t] \in Op /\ Dir(t) \in Directory
      /\ Sound(op[t], Dir(t), worlds[op[t].inst])
      /\ dir = [dir EXCEPT ![op[t].inst] = Dir(t)]
      /\ \A f \in worlds[op[t].inst] : Dir(t).data[f] = "own"
  BY <1>1, Here
<1>3. op[t].kind = "import"
  BY <1>1, <1>2 DEF Sound, Shape
<1>4. ASSUME op[t].base # Unknown PROVE Dir(t) = Promised(op[t])
  <2> DEFINE b == op[t].base
             desc == Imported(op[t].value)
             data == [f \in File |-> IF f \in Foreign THEN "copied" ELSE b.data[f]]
  <2>1. b \in Directory /\ desc \in Descriptor
    BY <1>2, <1>4, Saved DEF Op
  <2>2. Promised(op[t]) = [b EXCEPT !.desc = desc, !.data = data]
    BY <1>3 DEF Promised
  <2>3. data \in [File -> {Absent, "own", "copied", "cut"}]
    BY <2>1 DEF Directory
  <2> HIDE DEF desc
  <2>4. /\ Promised(op[t]) \in Directory /\ Promised(op[t]).desc = desc
        /\ Promised(op[t]).managed = b.managed /\ Promised(op[t]).data = data
    <3> HIDE DEF data
    <3> QED
      BY <2>1, <2>2, <2>3 DEF Directory
  <2>5. Phase(op[t], Dir(t))
    BY <1>2, <1>4 DEF Sound
  <2>6. Dir(t).desc = desc /\ Dir(t).managed = b.managed
    BY <1>1, <2>5 DEF Phase, DescIs, ManagedIs, desc
  <2>7. Dir(t).data = data
    <3>1. \A f \in File : /\ f \notin Foreign => Dir(t).data[f] = b.data[f]
                          /\ f \in Foreign => Dir(t).data[f] = "copied"
      BY <1>1, <2>5 DEF Phase, DataIs
    <3>2. Dir(t).data \in [File -> {Absent, "own", "copied", "cut"}]
      BY <1>2 DEF Directory
    <3> QED
      BY <3>1, <3>2
  <2> HIDE DEF data
  <2> QED
    BY <1>2, <2>4, <2>6, <2>7, DirEq
<1> QED
  BY <1>1, <1>2, <1>4, DoneKeeps

LEMMA CarryFailsKeeps ==
    ASSUME IInv, NEW t \in Thread, CarryFails(t)
    PROVE  IInv'
<1> DEFINE n == [op[t] EXCEPT !.pc = "find", !.left = {}]
<1>1. /\ op[t].pc = "carry" /\ UNCHANGED <<dir, told>>
      /\ worlds' = [worlds EXCEPT ![op[t].inst] = {}]
      /\ Becomes(t, n)
  BY DEF CarryFails
<1>2. /\ op[t] \in Op /\ Sound(op[t], Dir(t), worlds[op[t].inst])
      /\ "find" \in Pc /\ {} \in SUBSET Foreign
  BY <1>1, Here DEF Pc
<1>3. /\ n \in Op /\ n.pc = "find" /\ n.inst = op[t].inst /\ n.kind = op[t].kind
      /\ n.base = op[t].base /\ n.value = op[t].value
  BY <1>2 DEF Op
<1> HIDE DEF n
<1>4. n.kind = "import"
  BY <1>1, <1>2, <1>3 DEF Sound, Shape
<1>5. Shape(n) /\ Covered(n, {})
  BY <1>1, <1>2, <1>3, <1>4 DEF Sound, Shape, Covered
<1>6. n.base # Unknown => Phase(n, Dir(t))
  BY <1>1, <1>2, <1>3, <1>4 DEF Sound, Phase, DescIs, ManagedIs, DataIs
<1>7. Sound(n, Dir(t), {})
  BY <1>5, <1>6 DEF Sound
<1>8. dir' = [dir EXCEPT ![op[t].inst] = Dir(t)] /\ Dir(t) \in Directory
  BY <1>1, Here
<1>9. n.pc # "idle" /\ {} \in SUBSET worlds[op[t].inst]
  BY <1>3
<1> QED
  BY <1>1, <1>3, <1>7, <1>8, <1>9, MoveKeeps

LEMMA FindKeeps ==
    ASSUME IInv, NEW t \in Thread, Find(t)
    PROVE  IInv'
<1>1. op[t].pc = "find" /\ UNCHANGED <<dir, worlds>>
  BY DEF Find
<1>2. op[t] \in Op /\ Dir(t) \in Directory /\ Sound(op[t], Dir(t), worlds[op[t].inst])
  BY <1>1, Here
<1>3. CASE Dir(t).desc = Absent
  <2> DEFINE known == IF op[t].kind = "import" THEN Unknown ELSE op[t].base
  <2>1. Reply(t, known)
    BY <1>3 DEF Find
  <2>2. known \in Directory \cup {Unknown}
    BY <1>2 DEF Op
  <2>3. ASSUME op[t].base # Unknown, known # Unknown PROVE Dir(t) = known
    <3>1. op[t].kind # "import" /\ Phase(op[t], Dir(t)) /\ known = op[t].base
      BY <1>2, <2>3 DEF Sound
    <3>2. /\ Dir(t).desc = known.desc /\ Dir(t).managed = known.managed
          /\ Dir(t).data = known.data
      BY <1>1, <3>1 DEF Phase, DescIs, ManagedIs, DataIs
    <3> QED
      BY <1>2, <2>2, <2>3, <3>2, DirEq
  <2> HIDE DEF known
  <2> QED
    BY <1>1, <2>1, <2>2, <2>3, EndKeeps
<1>4. CASE Dir(t).desc # Absent
  <2> DEFINE pc == IF op[t].kind = "keep" THEN "keepFiles" ELSE "remove"
             n == [op[t] EXCEPT !.pc = pc]
  <2>1. Becomes(t, n) /\ told' = told
    BY <1>4 DEF Find, Goto
  <2>2. pc \in Pc
    BY DEF Pc
  <2> HIDE DEF pc
  <2>3. /\ n \in Op /\ n.pc = pc /\ n.inst = op[t].inst /\ n.kind = op[t].kind
        /\ n.base = op[t].base /\ n.value = op[t].value
    BY <1>2, <2>2 DEF Op
  <2> HIDE DEF n
  <2>4. Shape(n) /\ Covered(n, worlds[op[t].inst])
    BY <1>1, <1>2, <2>3 DEF Sound, Shape, Covered, pc
  <2>5. n.base # Unknown => Phase(n, Dir(t))
    BY <1>1, <1>2, <2>3 DEF Sound, Shape, Phase, DescIs, ManagedIs, DataIs, pc
  <2>6. Sound(n, Dir(t), worlds[op[t].inst]) /\ n.pc # "idle"
    BY <2>3, <2>4, <2>5 DEF Sound, pc
  <2> QED
    BY <1>1, <2>1, <2>3, <2>6, WaitKeeps
<1> QED
  BY <1>3, <1>4

(* What delete removes of what Acelus manages. *)
LEMMA Unmanaged ==
    ASSUME IInv, NEW t \in Thread, NEW gone, NEW pc \in {"keepLock", "keepDesc"},
           op[t].pc = IF pc = "keepLock" THEN "keepFiles" ELSE "keepLock",
           gone = IF pc = "keepLock" THEN "files" ELSE "lock",
           Changes(t, [Dir(t) EXCEPT !.managed = Dir(t).managed \ {gone}]),
           Goto(t, pc), UNCHANGED <<told, worlds>>
    PROVE  IInv'
<1> DEFINE n == [op[t] EXCEPT !.pc = pc]
           managed == Dir(t).managed \ {gone}
           d == [Dir(t) EXCEPT !.managed = managed]
<1>1. op[t].pc # "idle" /\ Becomes(t, n) /\ Changes(t, d)
  BY DEF Goto
<1>2. /\ op[t] \in Op /\ Dir(t) \in Directory
      /\ Sound(op[t], Dir(t), worlds[op[t].inst]) /\ pc \in Pc
      /\ \A f \in worlds[op[t].inst] : Dir(t).data[f] = "own"
  BY <1>1, Here DEF Pc
<1>3. /\ n \in Op /\ n.pc = pc /\ n.inst = op[t].inst /\ n.kind = op[t].kind
      /\ n.base = op[t].base
  BY <1>2 DEF Op
<1> HIDE DEF n
<1>4. Dir(t).managed \in SUBSET Managed
  BY <1>2 DEF Directory
<1>5. /\ d \in Directory /\ d.desc = Dir(t).desc
      /\ d.managed = managed /\ d.data = Dir(t).data
  BY <1>2, <1>4 DEF Directory
<1> HIDE DEF d
<1>6. Shape(n) /\ Covered(n, worlds[op[t].inst])
  BY <1>2, <1>3 DEF Sound, Shape, Covered
<1>7. ASSUME n.base # Unknown PROVE Phase(n, d)
  <2>1. Phase(op[t], Dir(t)) /\ op[t].kind = "keep" /\ n.base \in Directory
    BY <1>2, <1>3, <1>7 DEF Sound, Shape, Op
  <2>2. ManagedIs(n, managed)
    <3>1. ManagedIs(op[t], Dir(t).managed)
      BY <2>1 DEF Phase
    <3>2. CASE pc = "keepLock"
      BY <1>3, <3>1, <3>2 DEF ManagedIs
    <3>3. CASE pc = "keepDesc"
      <4>1. n.base.managed \subseteq {"files", "lock"}
        BY <2>1, InstancesAssumption DEF Directory
      <4>2. Dir(t).managed = n.base.managed \ {"files"}
        BY <1>3, <3>1, <3>3 DEF ManagedIs
      <4>3. managed = {}
        BY <3>3, <4>1, <4>2
      <4> QED
        BY <1>3, <3>3, <4>3 DEF ManagedIs
    <3> QED
      BY <3>2, <3>3
  <2> QED
    BY <1>3, <1>5, <2>1, <2>2 DEF Phase, DescIs, DataIs
<1>8. Sound(n, d, worlds[op[t].inst])
  BY <1>6, <1>7 DEF Sound
<1> QED
  BY <1>1, <1>2, <1>3, <1>5, <1>8, ChangeKeeps

LEMMA KeepDescKeeps ==
    ASSUME IInv, NEW t \in Thread, KeepDesc(t)
    PROVE  IInv'
<1> DEFINE d == [Dir(t) EXCEPT !.desc = Absent]
<1>1. op[t].pc = "keepDesc" /\ Changes(t, d) /\ Done(t) /\ worlds' = worlds
  BY DEF KeepDesc
<1>2. /\ op[t] \in Op /\ Dir(t) \in Directory
      /\ Sound(op[t], Dir(t), worlds[op[t].inst])
      /\ \A f \in worlds[op[t].inst] : Dir(t).data[f] = "own"
  BY <1>1, Here
<1>3. /\ d \in Directory /\ d.desc = Absent
      /\ d.managed = Dir(t).managed /\ d.data = Dir(t).data
  BY <1>2 DEF Directory
<1> HIDE DEF d
<1>4. ASSUME op[t].base # Unknown PROVE d = Promised(op[t])
  <2> DEFINE b == op[t].base
  <2>1. b \in Directory /\ Phase(op[t], Dir(t)) /\ op[t].kind = "keep"
    BY <1>1, <1>2, <1>4 DEF Sound, Shape, Op
  <2>2. /\ Promised(op[t]) \in Directory /\ Promised(op[t]).desc = Absent
        /\ Promised(op[t]).managed = {} /\ Promised(op[t]).data = b.data
    BY <2>1 DEF Promised, Directory
  <2>3. d.managed = {} /\ d.data = b.data
    BY <1>1, <1>3, <2>1 DEF Phase, ManagedIs, DataIs
  <2> QED
    BY <1>3, <2>2, <2>3, DirEq
<1> QED
  BY <1>1, <1>2, <1>3, <1>4, DoneKeeps DEF Changes

LEMMA RemoveKeeps ==
    ASSUME IInv, NEW t \in Thread, Remove(t)
    PROVE  IInv'
<1> DEFINE n == [op[t] EXCEPT !.pc = "remove"]
<1>1. /\ op[t].pc = "remove" /\ UNCHANGED <<told, worlds>>
      /\ Becomes(t, n)
  BY DEF Remove, Goto
<1>2. /\ op[t] \in Op /\ Dir(t) \in Directory
      /\ Sound(op[t], Dir(t), worlds[op[t].inst])
  BY <1>1, Here
<1>3. /\ n \in Op /\ n.pc = "remove" /\ n.inst = op[t].inst /\ n.kind = op[t].kind
      /\ n.base = op[t].base /\ n.value = op[t].value
  BY <1>1, <1>2 DEF Op
<1> HIDE DEF n
<1>4. worlds[op[t].inst] = {}
  BY <1>1, <1>2 DEF Sound, Shape, Covered
<1> DEFINE Less(d) == /\ d.desc \in {Absent, Dir(t).desc}
                      /\ d.managed \subseteq Dir(t).managed
                      /\ \A f \in File : d.data[f] \in {Absent, Dir(t).data[f]}
<1>5. PICK d \in Directory : Changes(t, d) /\ Less(d)
  <2>1. CASE Changes(t, [Dir(t) EXCEPT !.desc = Absent])
    <3> DEFINE d == [Dir(t) EXCEPT !.desc = Absent]
    <3>1. d \in Directory /\ Less(d)
      BY <1>2 DEF Directory
    <3> QED
      BY <2>1, <3>1
  <2>2. CASE \E m \in Dir(t).managed :
               Changes(t, [Dir(t) EXCEPT !.managed = Dir(t).managed \ {m}])
    <3>1. PICK m \in Dir(t).managed :
               Changes(t, [Dir(t) EXCEPT !.managed = Dir(t).managed \ {m}])
      BY <2>2
    <3> DEFINE d == [Dir(t) EXCEPT !.managed = Dir(t).managed \ {m}]
    <3>2. d \in Directory /\ Less(d)
      BY <1>2 DEF Directory
    <3> QED
      BY <3>1, <3>2
  <2>3. CASE \E f \in File : /\ Dir(t).data[f] # Absent
                             /\ Changes(t, [Dir(t) EXCEPT !.data[f] = Absent])
    <3>1. PICK f \in File : Changes(t, [Dir(t) EXCEPT !.data[f] = Absent])
      BY <2>3
    <3> DEFINE data == [Dir(t).data EXCEPT ![f] = Absent]
               d == [Dir(t) EXCEPT !.data = data]
    <3>2. Changes(t, d)
      BY <1>2, <3>1 DEF Directory
    <3>3. /\ data \in [File -> {Absent, "own", "copied", "cut"}]
          /\ \A g \in File : data[g] \in {Absent, Dir(t).data[g]}
      BY <1>2 DEF Directory
    <3> HIDE DEF data
    <3>4. d \in Directory /\ d.data = data /\ Less(d)
      BY <1>2, <3>3 DEF Directory
    <3> QED
      BY <3>2, <3>4
  <2> QED
    BY <2>1, <2>2, <2>3 DEF Remove
<1>6. Shape(n) /\ Covered(n, worlds[op[t].inst])
  BY <1>1, <1>2, <1>3, <1>4 DEF Sound, Shape, Covered
<1>7. ASSUME n.base # Unknown PROVE Phase(n, d)
  <2>1. Phase(op[t], Dir(t))
    BY <1>2, <1>3, <1>7 DEF Sound
  <2>2. DescIs(n, d.desc)
    BY <1>1, <1>3, <1>5, <2>1 DEF Phase, DescIs
  <2>3. ManagedIs(n, d.managed)
    BY <1>1, <1>3, <1>5, <2>1 DEF Phase, ManagedIs
  <2>4. DataIs(n, d.data)
    BY <1>1, <1>3, <1>5, <2>1 DEF Phase, DataIs
  <2> QED
    BY <1>3, <2>2, <2>3, <2>4 DEF Phase
<1>8. Sound(n, d, worlds[op[t].inst])
  BY <1>6, <1>7 DEF Sound
<1> QED
  BY <1>1, <1>3, <1>4, <1>5, <1>8, ChangeKeeps

LEMMA RemoveEndKeeps ==
    ASSUME IInv, NEW t \in Thread, RemoveEnd(t)
    PROVE  IInv'
BY Facts, EndKeeps DEF RemoveEnd

LEMMA FailKeeps ==
    ASSUME IInv, NEW t \in Thread, Fail(t)
    PROVE  IInv'
BY EndKeeps DEF Fail

------------------------------------------------------------------------------
(* The steps of others *)

LEMMA PlayKeeps ==
    ASSUME IInv, NEW i \in Id, Play(i)
    PROVE  IInv'
<1>1. PICK f \in File :
        /\ dir' = [dir EXCEPT ![i].data[f] = "own"]
        /\ worlds' = IF At(i) = {} THEN [worlds EXCEPT ![i] = worlds[i] \cup {f}] ELSE worlds
  BY DEF Play
<1> DEFINE data == [dir[i].data EXCEPT ![f] = "own"]
           d == [dir[i] EXCEPT !.data = data]
           w == IF At(i) = {} THEN worlds[i] \cup {f} ELSE worlds[i]
<1>2. dir[i] \in Directory /\ worlds[i] \in SUBSET File
  BY DEF IInv, TypeOK
<1>3. /\ data \in [File -> {Absent, "own", "copied", "cut"}]
      /\ \A g \in File : data[g] = IF g = f THEN "own" ELSE dir[i].data[g]
  BY <1>2 DEF Directory
<1>4. dir' = [dir EXCEPT ![i] = d]
  BY <1>1, <1>2 DEF IInv, TypeOK, Directory
<1> HIDE DEF data
<1>5. d \in Directory /\ d.data = data
  BY <1>2, <1>3 DEF Directory
<1> HIDE DEF d
<1>6. worlds' = [worlds EXCEPT ![i] = w] /\ w \in SUBSET File
  BY <1>1, <1>2 DEF IInv, TypeOK
<1>7. \A g \in w : d.data[g] = "own"
  BY <1>2, <1>3, <1>5 DEF IInv, WorldsStay
<1>8. At(i) # {} => w = worlds[i]
  OBVIOUS
<1> HIDE DEF w
<1>9. /\ op' = [t \in Thread |-> IF t \in At(i) THEN Joined(op[t]) ELSE op[t]]
      /\ told' = IF told[i] = Unknown THEN told ELSE [told EXCEPT ![i] = dir'[i]]
  BY DEF Play
<1> QED
  BY <1>4, <1>5, <1>6, <1>7, <1>8, <1>9, JoinedKeeps

LEMMA InstallRunKeeps ==
    ASSUME IInv, NEW i \in Id, InstallRun(i)
    PROVE  IInv'
<1> DEFINE d == [dir[i] EXCEPT !.managed = Managed]
<1>1. dir[i] \in Directory
  BY DEF IInv, TypeOK
<1>2. d \in Directory /\ d.data = dir[i].data
  BY <1>1 DEF Directory
<1>3. dir' = [dir EXCEPT ![i] = d]
  BY DEF InstallRun
<1> HIDE DEF d
<1>4. /\ worlds' = [worlds EXCEPT ![i] = worlds[i]] /\ worlds[i] \in SUBSET File
      /\ \A f \in worlds[i] : d.data[f] = "own"
  BY <1>2 DEF IInv, TypeOK, WorldsStay, InstallRun
<1>5. /\ op' = [t \in Thread |-> IF t \in At(i) THEN Joined(op[t]) ELSE op[t]]
      /\ told' = IF told[i] = Unknown THEN told ELSE [told EXCEPT ![i] = dir'[i]]
  BY DEF InstallRun
<1> QED
  BY <1>2, <1>3, <1>4, <1>5, JoinedKeeps

LEMMA CrashKeeps ==
    ASSUME IInv, Crash
    PROVE  IInv'
<1>1. op' = [t \in Thread |-> Idle] /\ UNCHANGED <<dir, told, worlds>>
  BY DEF Crash
<1>2. \A t \in Thread : op'[t].pc = "idle"
  BY <1>1 DEF Idle
<1>3. TypeOK'
  BY <1>1, IdleType DEF IInv, TypeOK
<1>4. Told'
  BY <1>1, <1>2 DEF IInv, Told, At
<1> QED
  BY <1>1, <1>2, <1>3, <1>4 DEF IInv, Alone, AllSound, WorldsStay

------------------------------------------------------------------------------
(* The theorems *)

LEMMA InitIInv == Init => IInv
<1> SUFFICES ASSUME Init PROVE IInv
  OBVIOUS
<1>1. \A t \in Thread : op[t].pc = "idle"
  BY DEF Init, Idle
<1>2. TypeOK
  BY Facts, IdleType DEF Init, TypeOK
<1>3. Told
  BY <1>1 DEF Init, Told, At
<1> QED
  BY <1>1, <1>2, <1>3 DEF Init, IInv, Alone, AllSound, WorldsStay

LEMMA StepIInv == IInv /\ [Next]_vars => IInv'
<1> SUFFICES ASSUME IInv, [Next]_vars PROVE IInv'
  OBVIOUS
<1>1. CASE UNCHANGED vars
  BY <1>1 DEF vars, IInv, TypeOK, Told, Alone, AllSound, WorldsStay, At
<1>2. ASSUME NEW t \in Thread,
             \/ Begin(t) \/ Exists(t) \/ Get(t) \/ Await(t) \/ Truncate(t) \/ Write(t)
             \/ Carry(t) \/ CarryEnd(t) \/ CarryFails(t)
             \/ Find(t) \/ KeepFiles(t) \/ KeepLock(t) \/ KeepDesc(t) \/ Remove(t) \/ RemoveEnd(t)
             \/ Fail(t)
      PROVE  IInv'
  <2>1. CASE KeepFiles(t)
    BY <2>1, Unmanaged DEF KeepFiles
  <2>2. CASE KeepLock(t)
    BY <2>2, Unmanaged DEF KeepLock
  <2> QED
    BY <1>2, <2>1, <2>2, BeginKeeps, ExistsKeeps, GetKeeps, AwaitKeeps, TruncateKeeps,
       WriteKeeps, CarryKeeps, CarryEndKeeps, CarryFailsKeeps, FindKeeps, KeepDescKeeps,
       RemoveKeeps, RemoveEndKeeps, FailKeeps
<1>3. ASSUME NEW i \in Id, Play(i) \/ InstallRun(i) PROVE IInv'
  BY <1>3, PlayKeeps, InstallRunKeeps
<1>4. CASE Crash
  BY <1>4, CrashKeeps
<1> QED
  BY <1>1, <1>2, <1>3, <1>4 DEF Next

LEMMA Invariance == Spec => []IInv
BY InitIInv, StepIInv, PTL DEF Spec

(* Requests and directories have their types; what is saved is a descriptor, also by *)
(* those that have read theirs long ago (instance.configure, launch.start).          *)
THEOREM InstancesTypes == Spec => []TypeOK
<1>1. IInv => TypeOK
  BY DEF IInv
<1> QED
  BY <1>1, Invariance, PTL

(* What a request is answered to have done to the directory it found it has done, and *)
(* nothing else, whatever went on before and at other instances, if it had the        *)
(* instance to itself (instance.create, import.run, instance.configure,               *)
(* instance.delete, launch.start).                                                    *)
THEOREM ToldSafe == Spec => []ToldIsSo
<1>1. IInv => ToldIsSo
  BY DEF IInv, Told, ToldIsSo
<1> QED
  BY <1>1, Invariance, PTL

(* A request in the middle of its work has made of the directory no more than may stay *)
(* if it is cut short there: Phase says more of every place it may be at.              *)
LEMMA PhaseHalfway ==
    ASSUME NEW o \in Op, NEW d \in Directory, o.pc # "idle", o.base # Unknown,
           Shape(o), Phase(o, d)
    PROVE  Halfway(o, d)
<1> DEFINE b == o.base
<1>1. b \in Directory /\ DescIs(o, d.desc) /\ ManagedIs(o, d.managed) /\ DataIs(o, d.data)
  BY DEF Op, Phase
<1>2. o.pc \in Pc /\ o.kind \in Kind \ {"none"}
  BY DEF Op, Shape
<1>3. CASE o.kind \in {"create", "configure", "launch"}
  <2>1. o.pc \in {"exists", "get", "await", "truncate", "write"}
    BY <1>2, <1>3 DEF Pc, Shape
  <2>2. d.desc \in {b.desc, Torn} /\ d.managed = b.managed /\ d.data = b.data
    BY <1>1, <1>3, <2>1 DEF DescIs, ManagedIs, DataIs
  <2> DEFINE torn == [b EXCEPT !.desc = Torn]
  <2>3. /\ torn \in Directory /\ torn.desc = Torn
        /\ torn.managed = b.managed /\ torn.data = b.data
    BY <1>1 DEF Directory
  <2> HIDE DEF torn
  <2>4. d \in {b, torn}
    BY <1>1, <2>2, <2>3, DirEq
  <2> QED
    BY <1>3, <2>4 DEF Halfway, torn
<1>4. CASE o.kind = "keep"
  <2>1. o.pc \in {"find", "keepFiles", "keepLock", "keepDesc"}
    BY <1>2, <1>4 DEF Pc, Shape
  <2>2. d.desc = b.desc /\ d.managed \subseteq b.managed /\ d.data = b.data
    BY <1>1, <1>4, <2>1 DEF DescIs, ManagedIs, DataIs
  <2> QED
    BY <1>4, <2>2 DEF Halfway
<1>5. CASE o.kind = "delete"
  <2>1. o.pc \in {"find", "remove"}
    BY <1>2, <1>5 DEF Pc, Shape
  <2>2. /\ d.desc \in {b.desc, Absent} /\ d.managed \subseteq b.managed
        /\ \A f \in File : d.data[f] \in {b.data[f], Absent}
    BY <1>1, <1>5, <2>1 DEF DescIs, ManagedIs, DataIs
  <2> QED
    BY <1>5, <2>2 DEF Halfway
<1>6. CASE o.kind = "import" /\ o.pc \notin {"find", "remove"}
  <2>1. o.pc \in {"exists", "truncate", "write", "carry"}
    BY <1>2, <1>6 DEF Pc, Shape
  <2>2. d.desc \in {b.desc, Torn, Fresh, Imported(o.value)} /\ d.managed = b.managed
    BY <1>1, <1>6, <2>1 DEF DescIs, ManagedIs
  <2>3. \A f \in File : /\ f \notin Foreign => d.data[f] = b.data[f]
                        /\ f \in Foreign => d.data[f] \in {b.data[f], "cut", "copied"}
    BY <1>1, <1>6, <2>1 DEF DataIs
  <2> QED
    BY <1>6, <2>2, <2>3, InstancesAssumption DEF Halfway
<1>7. CASE o.kind = "import" /\ o.pc \in {"find", "remove"}
  BY <1>1, <1>7 DEF DescIs, Halfway
<1> QED
  BY <1>2, <1>3, <1>4, <1>5, <1>6, <1>7 DEF Kind

(* Wherever a request that has an instance to itself is cut short, by the disk or by   *)
(* the end of the daemon, what stays is its own change, undone or half done: a delete  *)
(* that keeps the player's data can be asked for again, and no request but a full      *)
(* delete and an import touches that data (Instances::delete, Instances::save,         *)
(* import_run).                                                                        *)
THEOREM CutShortSafe == Spec => []CutShort
<1>1. ASSUME IInv PROVE CutShort
  <2> SUFFICES ASSUME NEW t \in Thread, op[t].pc # "idle", op[t].base # Unknown
               PROVE  Halfway(op[t], Dir(t))
    BY DEF CutShort
  <2>1. /\ op[t] \in Op /\ Dir(t) \in Directory
        /\ Sound(op[t], Dir(t), worlds[op[t].inst])
    BY <1>1, Here
  <2> QED
    BY <2>1, PhaseHalfway DEF Sound
<1> QED
  BY <1>1, Invariance, PTL

(* However requests overlap, fail or die, what the game wrote stays until the instance *)
(* is deleted for good or imported over (Instances::delete, import_run).               *)
THEOREM WorldsSafe == Spec => []WorldsStay
<1>1. IInv => WorldsStay
  BY DEF IInv
<1> QED
  BY <1>1, Invariance, PTL
==============================================================================
