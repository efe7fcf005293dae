---------------------------- MODULE SessionsProofs ----------------------------
(***************************************************************************)
(* Proofs about Sessions: for any number of launches, pids and platforms,  *)
(* a stop signals only what belongs to stopped sessions, and games whose   *)
(* launch was answered end with the daemon where the platform can do it.   *)
(*                                                                         *)
(* Both rest on one invariant: the child a session was made of keeps its   *)
(* pid for as long as the daemon knows the session, so a process group     *)
(* named by that pid holds processes of that session only.                 *)
(***************************************************************************)
EXTENDS Sessions, TLAPS

------------------------------------------------------------------------------
(* Records *)

Known == proc \in [Pid -> Process] /\ session \in [Session -> State] /\ platform \in Platforms

LEMMA FreeType ==
  /\ Free \in Process /\ Free.status = "free" /\ Free.group = None /\ Free.child = FALSE
  /\ Free.term = FALSE /\ Free.owner = None
BY DEF Free, Process

LEMMA FieldTypes ==
  ASSUME NEW n \in Process
  PROVE  /\ n.status \in {"free", "running", "zombie"} /\ n.owner \in Session \cup {Other, None}
         /\ n.group \in Pid \cup {None}
         /\ {n.child, n.deathsig, n.job, n.term} \subseteq BOOLEAN
BY DEF Process

\* Changes of one process and of one session.
LEMMA ProcSet ==
  ASSUME proc \in [Pid -> Process], NEW p \in Pid, NEW n \in Process,
         proc' = [proc EXCEPT ![p] = n]
  PROVE  proc' \in [Pid -> Process] /\ proc'[p] = n /\ \A q \in Pid \ {p} : proc'[q] = proc[q]
OBVIOUS

LEMMA SessionSet ==
  ASSUME session \in [Session -> State], NEW s \in Session, NEW n \in State,
         session' = [session EXCEPT ![s] = n]
  PROVE  /\ session' \in [Session -> State] /\ session'[s] = n
         /\ \A t \in Session \ {s} : session'[t] = session[t]
OBVIOUS

LEMMA GotoType ==
  ASSUME session \in [Session -> State], NEW s \in Session, NEW pc \in Pc, Goto(s, pc)
  PROVE  /\ session' \in [Session -> State]
         /\ session'[s].pc = pc /\ session'[s].pid = session[s].pid
         /\ session'[s].daemon = session[s].daemon
         /\ \A t \in Session \ {s} : session'[t] = session[t]
<1> DEFINE n == [session[s] EXCEPT !.pc = pc]
<1>1. n \in State /\ n.pc = pc /\ n.pid = session[s].pid /\ n.daemon = session[s].daemon
  BY DEF State
<1>2. session' = [session EXCEPT ![s] = n]
  BY DEF Goto
<1> HIDE DEF n
<1> QED BY <1>1, <1>2, SessionSet

LEMMA StateFields ==
  ASSUME NEW n \in State
  PROVE  n.pc \in Pc /\ n.pid \in Pid \cup {None} /\ n.daemon \in BOOLEAN
BY DEF State

\* What an ended process leaves behind is less than it was.
LEMMA LeftType ==
  ASSUME proc \in [Pid -> Process], NEW p \in Pid
  PROVE  /\ Left(p) \in Process /\ Left(p).status # "running" /\ ~Left(p).term
         /\ Left(p).status = "free" => Left(p) = Free
         /\ Left(p).group # None => Left(p).group = proc[p].group /\ Left(p).owner = proc[p].owner
         /\ Left(p).child => proc[p].child /\ Left(p).owner = proc[p].owner
<1> DEFINE z == [Free EXCEPT !.status = "zombie", !.owner = proc[p].owner, !.child = TRUE,
                             !.group = proc[p].group]
<1>1. proc[p].owner \in Session \cup {Other, None} /\ proc[p].group \in Pid \cup {None}
  BY DEF Process
<1>2. /\ z \in Process /\ z.status = "zombie" /\ ~z.term /\ z.child
      /\ z.group = proc[p].group /\ z.owner = proc[p].owner
  BY <1>1 DEF Free, Process
<1>3. CASE /\ proc[p].child
           /\ \E s \in Session : session[s].pid = p /\ s = proc[p].owner
                                    /\ session[s].daemon /\ session[s].pc # "failed"
  <2>1. Left(p) = z
    BY <1>3 DEF Left
  <2> HIDE DEF z
  <2> QED BY <1>2, <1>3, <2>1
<1>4. CASE ~(/\ proc[p].child
             /\ \E s \in Session : session[s].pid = p /\ s = proc[p].owner
                                      /\ session[s].daemon /\ session[s].pc # "failed")
  <2>1. Left(p) = Free
    BY <1>4 DEF Left
  <2> QED BY <2>1, FreeType
<1> QED BY <1>3, <1>4

\* The child of a session the daemon has keeps its pid and its group.
LEMMA LeftKept ==
  ASSUME proc \in [Pid -> Process], NEW s \in Session, session[s].pid \in Pid,
         session[s].daemon, session[s].pc # "failed",
         proc[session[s].pid].child, proc[session[s].pid].owner = s
  PROVE  LET n == Left(session[s].pid) IN
         n.status = "zombie" /\ n.child /\ n.owner = s /\ n.group = proc[session[s].pid].group
<1> DEFINE p == session[s].pid
           z == [Free EXCEPT !.status = "zombie", !.owner = proc[p].owner, !.child = TRUE,
                             !.group = proc[p].group]
<1>1. Left(p) = z
  BY DEF Left
<1>2. z.status = "zombie" /\ z.child /\ z.owner = s /\ z.group = proc[p].group
  BY DEF Free
<1> QED BY <1>1, <1>2

------------------------------------------------------------------------------
(* The invariant *)

Blank == \A p \in Pid : proc[p].status = "free" => proc[p] = Free

\* Who shares a process group belongs together.
Families ==
    \A p, q \in Pid : proc[p].group = proc[q].group /\ proc[p].group # None
                        => proc[p].owner = proc[q].owner

Child(s) == session[s].pid \in Pid /\ proc[session[s].pid].owner = s /\ proc[session[s].pid].child

\* Between fork and exec the child is all there is of a session.
StartingAt(s) ==
    LET p == session[s].pid IN
    /\ session[s].pc \in {"forked", "grouped"} =>
        Child(s) /\ Running(p) /\ ~proc[p].deathsig /\ ~proc[p].job
    /\ session[s].pc = "forked" => proc[p].group = None /\ \A q \in Pid : proc[q].group # p
    /\ session[s].pc = "grouped" => proc[p].group = p

\* Whatever the game does, the daemon keeps its pid, and its group where there are groups.
GoingAt(s) ==
    At(s, {"spawned", "adopted", "listed"}) =>
        /\ Child(s) /\ proc[session[s].pid].status # "free"
        /\ platform # "windows" => proc[session[s].pid].group = session[s].pid

\* The means of the platform are in place.
BoundAt(s) ==
    LET p == session[s].pid IN
    /\ At(s, {"spawned", "adopted", "listed"}) /\ platform = "linux" /\ Running(p)
        => proc[p].deathsig
    /\ At(s, {"adopted", "listed"}) /\ platform = "windows" /\ Running(p) => proc[p].job

Fine(s) == StartingAt(s) /\ GoingAt(s) /\ BoundAt(s)

\* A session has one child of the daemon.
Children ==
    \A p \in Pid : proc[p].child =>
        LET s == proc[p].owner IN
        s \in Session /\ session[s].pid = p /\ session[s].pc # "none"

Inv ==
    /\ Blank /\ Families /\ Children
    /\ \A s \in Session : Fine(s)
    /\ SignalsItsOwn /\ GuardedEnds

------------------------------------------------------------------------------
(* Steps that only take from processes *)

Less(n, o) ==
    /\ n.status = "free" => n = Free
    /\ n.group # None => n.group = o.group /\ n.owner = o.owner
    /\ n.child => o.child /\ n.owner = o.owner

Shrinks == \A p \in Pid : Less(proc'[p], proc[p])

LEMMA ShrinkFamilies ==
  ASSUME Families, Shrinks
  PROVE  Families'
BY DEF Families, Shrinks, Less

LEMMA ShrinkChildren ==
  ASSUME Children, Shrinks,
         \A s \in Session : session'[s].pid = session[s].pid
                            /\ (session[s].pc # "none" => session'[s].pc # "none")
  PROVE  Children'
BY DEF Children, Shrinks, Less

LEMMA ShrinkGone ==
  ASSUME GuardedEnds, Shrinks, platform' = platform,
         \A s \in Session : session'[s].pc = "listed" /\ ~session'[s].daemon
             => session[s].pc = "listed" /\ ~session[s].daemon
  PROVE  GuardedEnds'
BY DEF GuardedEnds, Shrinks, Less

LEMMA LessLeft ==
  ASSUME proc \in [Pid -> Process], NEW p \in Pid
  PROVE  Less(Left(p), proc[p])
BY LeftType DEF Less

LEMMA LessSelf ==
  ASSUME Blank, NEW p \in Pid
  PROVE  Less(proc[p], proc[p])
BY DEF Blank, Less

LEMMA LessFree ==
  ASSUME NEW o
  PROVE  Less(Free, o)
BY FreeType DEF Less

LEMMA ShrinkBlank ==
  ASSUME Shrinks
  PROVE  Blank'
BY DEF Blank, Shrinks, Less

------------------------------------------------------------------------------
(* Sessions a step does not touch *)

Live(s) == session[s].pc \in {"forked", "grouped"} \/ At(s, {"spawned", "adopted", "listed"})

LEMMA LiveChild ==
  ASSUME NEW s \in Session, Fine(s), Live(s)
  PROVE  Child(s) /\ session[s].pid \in Pid
BY DEF Fine, Live, StartingAt, GoingAt, Child

LEMMA KeepsFine ==
  ASSUME NEW t \in Session, Fine(t), session'[t] = session[t], platform' = platform,
         Live(t) => proc'[session[t].pid] = proc[session[t].pid],
         session[t].pc = "forked" =>
            \A q \in Pid : proc'[q].group # session[t].pid \/ proc'[q].group = proc[q].group
  PROVE  Fine(t)'
<1>1. StartingAt(t)'
  BY DEF Fine, StartingAt, Child, Running, Live
<1>2. GoingAt(t)'
  BY DEF Fine, GoingAt, Child, At, Live
<1>3. BoundAt(t)'
  BY DEF Fine, BoundAt, At, Running, Live
<1> QED BY <1>1, <1>2, <1>3 DEF Fine

\* The sessions beside s, when only the process of s changes, and nobody enters its group.
LEMMA Beside ==
  ASSUME NEW s \in Session, Child(s), NEW t \in Session, s # t, Fine(t), session'[t] = session[t],
         platform' = platform, \A q \in Pid \ {session[s].pid} : proc'[q] = proc[q],
         proc'[session[s].pid].group \in {None, session[s].pid, proc[session[s].pid].group}
  PROVE  Fine(t)'
<1>1. Live(t) => session[t].pid \in Pid /\ session[t].pid # session[s].pid
  BY LiveChild DEF Child
<1>2. Live(t) => proc'[session[t].pid] = proc[session[t].pid]
  BY <1>1
<1>3. session[t].pc = "forked" => session[t].pid \notin {None, session[s].pid}
  BY <1>1, SessionsAssumption DEF Live
<1>4. session[t].pc = "forked" =>
        \A q \in Pid : proc'[q].group # session[t].pid \/ proc'[q].group = proc[q].group
  BY <1>3
<1> QED BY <1>2, <1>4, KeepsFine

------------------------------------------------------------------------------
(* A launch *)

LEMMA SpawnKeeps ==
  ASSUME Known, Inv, NEW s \in Session, Spawn(s)
  PROVE  Known' /\ Inv'
<1>1. PICK p \in Pid :
        /\ Available(p)
        /\ proc' = [proc EXCEPT ![p] = [Free EXCEPT !.status = "running", !.owner = s,
                                                   !.child = TRUE]]
        /\ session' = [session EXCEPT ![s] =
                         [pc |-> IF platform = "windows" THEN "spawned" ELSE "forked",
                          pid |-> p, daemon |-> TRUE]]
  BY Zenon DEF Spawn
<1> DEFINE n == [Free EXCEPT !.status = "running", !.owner = s, !.child = TRUE]
           m == [pc |-> IF platform = "windows" THEN "spawned" ELSE "forked",
                 pid |-> p, daemon |-> TRUE]
<1>2. /\ n \in Process /\ n.status = "running" /\ n.owner = s /\ n.child /\ n.group = None
      /\ ~n.term /\ ~n.deathsig /\ ~n.job
  BY DEF Free, Process
<1>3. /\ m \in State /\ m.pid = p /\ m.daemon
      /\ m.pc = IF platform = "windows" THEN "spawned" ELSE "forked"
  BY DEF State, Pc
<1>a. proc' = [proc EXCEPT ![p] = n] /\ session' = [session EXCEPT ![s] = m]
  BY <1>1
<1> HIDE DEF n, m
<1>4. proc' \in [Pid -> Process] /\ proc'[p] = n /\ \A q \in Pid \ {p} : proc'[q] = proc[q]
  BY <1>a, <1>2, ProcSet DEF Known
<1>5. /\ session' \in [Session -> State] /\ session'[s] = m
      /\ \A t \in Session \ {s} : session'[t] = session[t]
  BY <1>a, <1>3, SessionSet DEF Known
<1>6. platform' = platform /\ stopped' = stopped /\ session[s].pc = "none"
  BY DEF Spawn, At
<1>7. Known'
  BY <1>4, <1>5, <1>6 DEF Known
<1>8. proc[p].status = "free" /\ \A q \in Pid : proc[q].group # p
  BY <1>1 DEF Available
<1>9. ~proc[p].child
  BY <1>8, FreeType DEF Inv, Blank
<1>10. \A q \in Pid : proc'[q].group # p
  BY <1>2, <1>4, <1>8, SessionsAssumption
<1>11. Blank' /\ Families' /\ SignalsItsOwn'
  BY <1>2, <1>4, <1>6 DEF Inv, Blank, Families, SignalsItsOwn
<1>12. \A q \in Pid : proc[q].child => proc[q].owner # s
  BY <1>6 DEF Inv, Children
<1>13. Children'
  BY <1>12, <1>2, <1>3, <1>4, <1>5 DEF Inv, Children
<1>14. ASSUME NEW t \in Session \ {s} PROVE Fine(t)'
  <2>1. Fine(t) /\ session'[t] = session[t]
    BY <1>5 DEF Inv
  <2>2. Live(t) => session[t].pid \in Pid /\ session[t].pid # p
    BY <1>9, <2>1, LiveChild DEF Child
  <2>3. \A q \in Pid : proc'[q].group = proc[q].group \/ proc'[q].group = None
    BY <1>2, <1>4
  <2>4. session[t].pc = "forked" => session[t].pid # None
    BY <2>2, SessionsAssumption DEF Live
  <2>5. session[t].pc = "forked" =>
          \A q \in Pid : proc'[q].group # session[t].pid \/ proc'[q].group = proc[q].group
    BY <2>3, <2>4
  <2>6. Live(t) => proc'[session[t].pid] = proc[session[t].pid]
    BY <1>4, <2>2
  <2> QED BY <1>6, <2>1, <2>5, <2>6, KeepsFine
<1>15. Fine(s)'
  <2>1. session'[s].pid = p /\ proc'[p].owner = s /\ proc'[p].child /\ Child(s)'
    BY <1>2, <1>3, <1>4, <1>5 DEF Child
  <2>2. StartingAt(s)'
    BY <1>2, <1>3, <1>4, <1>5, <1>10, <2>1 DEF StartingAt, Running
  <2>3. GoingAt(s)'
    BY <1>2, <1>3, <1>4, <1>5, <1>6, <2>1 DEF GoingAt, At
  <2>4. BoundAt(s)'
    BY <1>3, <1>5, <1>6 DEF BoundAt, At
  <2> QED BY <2>2, <2>3, <2>4 DEF Fine
<1>16. GuardedEnds'
  <2>1. session'[s].daemon
    BY <1>3, <1>5
  <2>2. ASSUME NEW t \in Session \ {s}, NEW q \in Pid, proc'[q].owner = t, proc'[q].child
        PROVE  proc[q].owner = t /\ proc[q].child /\ session'[t] = session[t]
    BY <1>2, <1>4, <1>5, <2>2
  <2> QED BY <1>6, <2>1, <2>2 DEF Inv, GuardedEnds
<1> QED BY <1>7, <1>11, <1>13, <1>14, <1>15, <1>16 DEF Inv

\* A launch goes a step further, and its child stays the child it was.
LEMMA LaunchKeeps ==
  ASSUME Known, Inv, NEW s \in Session, Child(s), NEW pc \in Pc, pc # "none", Goto(s, pc),
         NEW n \in Process, proc' = [proc EXCEPT ![session[s].pid] = n],
         LET o == proc[session[s].pid] IN
            /\ n.status = o.status /\ n.status # "free"
            /\ n.owner = o.owner /\ n.child = o.child /\ n.term = o.term
            /\ n.group # o.group => /\ n.group = session[s].pid
                                    /\ \A q \in Pid : proc[q].group # session[s].pid,
         platform' = platform, stopped' = stopped, pc = "listed" => session[s].daemon,
         Fine(s)'
  PROVE  Known' /\ Inv'
<1> DEFINE p == session[s].pid
<1>1. p \in Pid /\ proc[p].owner = s /\ proc[p].child
  BY DEF Child
<1>2. proc' \in [Pid -> Process] /\ proc'[p] = n /\ \A q \in Pid \ {p} : proc'[q] = proc[q]
  BY <1>1, ProcSet DEF Known
<1>3. /\ session' \in [Session -> State]
      /\ session'[s].pc = pc /\ session'[s].pid = p /\ session'[s].daemon = session[s].daemon
      /\ \A t \in Session \ {s} : session'[t] = session[t]
  BY GotoType DEF Known
<1>4. Known'
  BY <1>2, <1>3 DEF Known
<1>5. Blank' /\ SignalsItsOwn'
  BY <1>2 DEF Inv, Blank, SignalsItsOwn
<1>6. Families'
  BY <1>2 DEF Inv, Families
<1>7. Children'
  <2> SUFFICES ASSUME NEW q \in Pid, proc'[q].child
               PROVE  /\ proc'[q].owner \in Session
                      /\ session'[proc'[q].owner].pid = q
                      /\ session'[proc'[q].owner].pc # "none"
    BY DEF Children
  <2>1. proc[q].child /\ proc'[q].owner = proc[q].owner
    BY <1>2
  <2>2. /\ proc[q].owner \in Session
        /\ session[proc[q].owner].pid = q /\ session[proc[q].owner].pc # "none"
    BY <2>1 DEF Inv, Children
  <2> QED BY <1>3, <2>1, <2>2
<1>8. ASSUME NEW t \in Session \ {s} PROVE Fine(t)'
  <2>1. Fine(t) /\ session'[t] = session[t]
    BY <1>3 DEF Inv
  <2>2. proc'[p].group \in {None, p, proc[p].group}
    BY <1>2
  <2> QED BY <1>2, <2>1, <2>2, Beside
<1>9. GuardedEnds'
  <2> SUFFICES ASSUME NEW t \in Session, session'[t].pc = "listed", ~session'[t].daemon,
                      platform # "macos", NEW q \in Pid, proc'[q].owner = t
               PROVE  ~proc'[q].child
    BY DEF GuardedEnds
  <2>1. t # s
    BY <1>3
  <2>2. session[t].pc = "listed" /\ ~session[t].daemon
    BY <1>3, <2>1
  <2>3. proc'[q].owner = proc[q].owner /\ proc'[q].child = proc[q].child
    BY <1>2
  <2> QED BY <2>2, <2>3 DEF Inv, GuardedEnds
<1> QED BY <1>4, <1>5, <1>6, <1>7, <1>8, <1>9 DEF Inv

LEMMA SetGroupKeeps ==
  ASSUME Known, Inv, NEW s \in Session, SetGroup(s)
  PROVE  Known' /\ Inv'
<1> DEFINE p == session[s].pid
           n == [proc[p] EXCEPT !.group = p]
<1>1. session[s].pc = "forked" /\ Goto(s, "grouped") /\ proc' = [proc EXCEPT ![p] = n]
      /\ platform' = platform /\ stopped' = stopped
  BY DEF SetGroup
<1>2. /\ Child(s) /\ Running(p) /\ ~proc[p].deathsig /\ ~proc[p].job
      /\ \A q \in Pid : proc[q].group # p
  BY <1>1 DEF Inv, Fine, StartingAt
<1>3. p \in Pid /\ proc[p] \in Process /\ "grouped" \in Pc
  BY <1>2 DEF Child, Known, Pc
<1>4. /\ n \in Process /\ n.group = p /\ n.status = proc[p].status /\ n.owner = proc[p].owner
      /\ n.child = proc[p].child /\ n.term = proc[p].term
      /\ n.deathsig = proc[p].deathsig /\ n.job = proc[p].job
  BY <1>3 DEF Process
<1> HIDE DEF n
<1>5. proc'[p] = n
  BY <1>1, <1>3, <1>4, ProcSet DEF Known
<1>6. session'[s].pc = "grouped" /\ session'[s].pid = p
  BY <1>1, <1>3, GotoType DEF Known
<1>7. Fine(s)'
  <2>1. StartingAt(s)'
    BY <1>2, <1>3, <1>4, <1>5, <1>6 DEF StartingAt, Child, Running
  <2>2. GoingAt(s)' /\ BoundAt(s)'
    BY <1>6 DEF GoingAt, BoundAt, At
  <2> QED BY <2>1, <2>2 DEF Fine
<1> QED BY <1>1, <1>2, <1>3, <1>4, <1>7, LaunchKeeps DEF Running

LEMMA ExecKeeps ==
  ASSUME Known, Inv, NEW s \in Session, Exec(s)
  PROVE  Known' /\ Inv'
<1> DEFINE p == session[s].pid
           n == [proc[p] EXCEPT !.deathsig = (platform = "linux")]
<1>1. session[s].pc = "grouped" /\ Goto(s, "spawned") /\ proc' = [proc EXCEPT ![p] = n]
      /\ platform' = platform /\ stopped' = stopped
  BY DEF Exec
<1>2. Child(s) /\ Running(p) /\ proc[p].group = p
  BY <1>1 DEF Inv, Fine, StartingAt
<1>3. p \in Pid /\ proc[p] \in Process /\ "spawned" \in Pc
  BY <1>2 DEF Child, Known, Pc
<1>4. /\ n \in Process /\ n.group = proc[p].group /\ n.status = proc[p].status
      /\ n.owner = proc[p].owner /\ n.child = proc[p].child /\ n.term = proc[p].term
      /\ n.deathsig = (platform = "linux")
  BY <1>3 DEF Process
<1> HIDE DEF n
<1>5. proc'[p] = n
  BY <1>1, <1>3, <1>4, ProcSet DEF Known
<1>6. session'[s].pc = "spawned" /\ session'[s].pid = p
  BY <1>1, <1>3, GotoType DEF Known
<1>7. Fine(s)'
  <2>1. StartingAt(s)'
    BY <1>6 DEF StartingAt
  <2>2. GoingAt(s)'
    BY <1>2, <1>3, <1>4, <1>5, <1>6 DEF GoingAt, At, Child, Running
  <2>3. BoundAt(s)'
    BY <1>1, <1>4, <1>5, <1>6 DEF BoundAt, At
  <2> QED BY <2>1, <2>2, <2>3 DEF Fine
<1> QED BY <1>1, <1>2, <1>3, <1>4, <1>7, LaunchKeeps DEF Running

LEMMA AdoptKeeps ==
  ASSUME Known, Inv, NEW s \in Session, Adopt(s)
  PROVE  Known' /\ Inv'
<1> DEFINE p == session[s].pid
           n == [proc[p] EXCEPT !.job = (platform = "windows")]
<1>1. At(s, {"spawned"}) /\ Goto(s, "adopted") /\ proc' = [proc EXCEPT ![p] = n]
      /\ platform' = platform /\ stopped' = stopped
  BY DEF Adopt
<1>2. /\ Child(s) /\ proc[p].status # "free"
      /\ platform # "windows" => proc[p].group = p
      /\ platform = "linux" /\ Running(p) => proc[p].deathsig
  BY <1>1 DEF Inv, Fine, GoingAt, BoundAt, At
<1>3. p \in Pid /\ proc[p] \in Process /\ "adopted" \in Pc
  BY <1>2 DEF Child, Known, Pc
<1>4. /\ n \in Process /\ n.group = proc[p].group /\ n.status = proc[p].status
      /\ n.owner = proc[p].owner /\ n.child = proc[p].child /\ n.term = proc[p].term
      /\ n.deathsig = proc[p].deathsig /\ n.job = (platform = "windows")
  BY <1>3 DEF Process
<1> HIDE DEF n
<1>5. proc'[p] = n
  BY <1>1, <1>3, <1>4, ProcSet DEF Known
<1>6. session'[s].pc = "adopted" /\ session'[s].pid = p
  BY <1>1, <1>3, GotoType DEF Known
<1>7. Fine(s)'
  <2>1. StartingAt(s)'
    BY <1>6 DEF StartingAt
  <2>2. GoingAt(s)'
    BY <1>1, <1>2, <1>3, <1>4, <1>5, <1>6 DEF GoingAt, At, Child
  <2>3. BoundAt(s)'
    BY <1>1, <1>2, <1>4, <1>5, <1>6 DEF BoundAt, At, Running
  <2> QED BY <2>1, <2>2, <2>3 DEF Fine
<1> QED BY <1>1, <1>2, <1>3, <1>4, <1>7, LaunchKeeps

LEMMA ListKeeps ==
  ASSUME Known, Inv, NEW s \in Session, List(s)
  PROVE  Known' /\ Inv'
<1> DEFINE p == session[s].pid
<1>1. At(s, {"adopted"}) /\ Goto(s, "listed") /\ UNCHANGED <<platform, proc, stopped>>
  BY DEF List
<1>2. /\ Child(s) /\ proc[p].status # "free"
      /\ platform # "windows" => proc[p].group = p
      /\ platform = "linux" /\ Running(p) => proc[p].deathsig
      /\ platform = "windows" /\ Running(p) => proc[p].job
  BY <1>1 DEF Inv, Fine, GoingAt, BoundAt, At
<1>3. p \in Pid /\ proc[p] \in Process /\ "listed" \in Pc
  BY <1>2 DEF Child, Known, Pc
<1>4. proc' = [proc EXCEPT ![p] = proc[p]]
  BY <1>1, <1>3 DEF Known
<1>5. session'[s].pc = "listed" /\ session'[s].pid = p
  BY <1>1, <1>3, GotoType DEF Known
<1>6. Fine(s)'
  <2>1. StartingAt(s)'
    BY <1>5 DEF StartingAt
  <2>2. GoingAt(s)' /\ BoundAt(s)'
    BY <1>1, <1>2, <1>5 DEF GoingAt, BoundAt, At, Child, Running
  <2> QED BY <2>1, <2>2 DEF Fine
<1>7. session[s].daemon
  BY <1>1 DEF At
<1> QED BY <1>1, <1>2, <1>3, <1>4, <1>6, <1>7, LaunchKeeps

\* A launch that fails takes its process with it, or loses sight of it.
LEMMA FailKeeps ==
  ASSUME Known, Inv, NEW s \in Session, NEW m \in State, session' = [session EXCEPT ![s] = m],
         m.pc = "failed", Child(s), NEW n \in Process, Less(n, proc[session[s].pid]),
         n.term => proc[session[s].pid].term /\ n.owner = s,
         n.child => m.pid = session[s].pid,
         proc' = [proc EXCEPT ![session[s].pid] = n],
         platform' = platform, stopped' = stopped
  PROVE  Known' /\ Inv'
<1> DEFINE p == session[s].pid
<1>1. p \in Pid /\ proc[p].owner = s /\ proc[p].child
  BY DEF Child
<1>2. proc' \in [Pid -> Process] /\ proc'[p] = n /\ \A q \in Pid \ {p} : proc'[q] = proc[q]
  BY <1>1, ProcSet DEF Known
<1>3. /\ session' \in [Session -> State] /\ session'[s] = m
      /\ \A t \in Session \ {s} : session'[t] = session[t]
  BY SessionSet DEF Known
<1>4. Known'
  BY <1>2, <1>3 DEF Known
<1>5. Shrinks
  BY <1>1, <1>2, LessSelf DEF Shrinks, Inv
<1>6. Blank' /\ Families'
  BY <1>5, ShrinkBlank, ShrinkFamilies DEF Inv
<1>7. SignalsItsOwn'
  BY <1>1, <1>2 DEF Inv, SignalsItsOwn
<1>8. Children'
  <2> SUFFICES ASSUME NEW q \in Pid, proc'[q].child
               PROVE  /\ proc'[q].owner \in Session
                      /\ session'[proc'[q].owner].pid = q
                      /\ session'[proc'[q].owner].pc # "none"
    BY DEF Children
  <2>1. proc[q].child /\ proc'[q].owner = proc[q].owner
    BY <1>5 DEF Shrinks, Less
  <2>2. /\ proc[q].owner \in Session
        /\ session[proc[q].owner].pid = q /\ session[proc[q].owner].pc # "none"
    BY <2>1 DEF Inv, Children
  <2>3. CASE proc[q].owner = s
    BY <1>1, <1>2, <1>3, <2>1, <2>2, <2>3
  <2>4. CASE proc[q].owner # s
    BY <1>3, <2>1, <2>2, <2>4
  <2> QED BY <2>3, <2>4
<1>9. ASSUME NEW t \in Session \ {s} PROVE Fine(t)'
  <2>1. Fine(t) /\ session'[t] = session[t]
    BY <1>3 DEF Inv
  <2>2. proc'[p].group \in {None, p, proc[p].group}
    BY <1>2 DEF Less
  <2> QED BY <1>2, <2>1, <2>2, Beside
<1>10. Fine(s)'
  BY <1>3 DEF Fine, StartingAt, GoingAt, BoundAt, At
<1>11. GuardedEnds'
  BY <1>3, <1>5, ShrinkGone DEF Inv
<1> QED BY <1>4, <1>6, <1>7, <1>8, <1>9, <1>10, <1>11 DEF Inv

LEMMA SpawnFailsKeeps ==
  ASSUME Known, Inv, NEW s \in Session, SpawnFails(s)
  PROVE  Known' /\ Inv'
<1> DEFINE m == [session[s] EXCEPT !.pc = "failed", !.pid = None]
<1>1. session[s].pc \in {"forked", "grouped"} /\ session' = [session EXCEPT ![s] = m]
      /\ proc' = [proc EXCEPT ![session[s].pid] = Free] /\ platform' = platform
      /\ stopped' = stopped
  BY DEF SpawnFails, At
<1>2. m \in State /\ m.pc = "failed"
  BY DEF Known, State, Pc
<1> HIDE DEF m
<1>3. Child(s)
  BY <1>1 DEF Inv, Fine, StartingAt
<1> QED BY <1>1, <1>2, <1>3, FreeType, LessFree, FailKeeps

LEMMA AdoptFailsKeeps ==
  ASSUME Known, Inv, NEW s \in Session, AdoptFails(s)
  PROVE  Known' /\ Inv'
<1> DEFINE p == session[s].pid
           m == [session[s] EXCEPT !.pc = "failed"]
           n == IF Running(p) THEN proc[p] ELSE Free
<1>1. At(s, {"spawned"}) /\ session' = [session EXCEPT ![s] = m]
      /\ proc' = [proc EXCEPT ![p] = n] /\ platform' = platform /\ stopped' = stopped
  BY DEF AdoptFails, Goto
<1>2. m \in State /\ m.pc = "failed" /\ m.pid = p
  BY DEF Known, State, Pc
<1>3. Child(s)
  BY <1>1 DEF Inv, Fine, GoingAt, At
<1>4. p \in Pid /\ proc[p] \in Process /\ proc[p].owner = s
  BY <1>3 DEF Child, Known
<1>5. n \in Process /\ Less(n, proc[p]) /\ (n.term => proc[p].term /\ n.owner = s)
  BY <1>4, FreeType, LessFree, LessSelf DEF Inv
<1> HIDE DEF m, n
<1> QED BY <1>1, <1>2, <1>3, <1>5, FailKeeps

------------------------------------------------------------------------------
(* The machine *)

\* A new process that is no child of the daemon, in the group of its parent or in its own.
LEMMA NewKeeps ==
  ASSUME Known, Inv, NEW p \in Pid, Available(p), NEW n \in Process,
         proc' = [proc EXCEPT ![p] = n],
         n.status = "running", ~n.child, ~n.term,
         \/ n.group \in {None, p}
         \/ \E q \in Pid : proc[q].group = n.group /\ proc[q].owner = n.owner,
         UNCHANGED <<platform, session, stopped>>
  PROVE  Known' /\ Inv'
<1>1. proc' \in [Pid -> Process] /\ proc'[p] = n /\ \A q \in Pid \ {p} : proc'[q] = proc[q]
  BY ProcSet DEF Known
<1>2. Known'
  BY <1>1 DEF Known
<1>3. /\ proc[p].status = "free" /\ \A q \in Pid : proc[q].group # p
      /\ ~proc[p].child /\ proc[p].group = None
  BY FreeType DEF Available, Inv, Blank
<1>4. Blank' /\ SignalsItsOwn'
  BY <1>1 DEF Inv, Blank, SignalsItsOwn
<1>5. Families'
  <2> SUFFICES ASSUME NEW r \in Pid \ {p}, proc[r].group = n.group, n.group # None
               PROVE  proc[r].owner = n.owner
    BY <1>1 DEF Inv, Families
  <2>1. PICK q \in Pid : proc[q].group = n.group /\ proc[q].owner = n.owner
    BY <1>3
  <2> QED BY <2>1 DEF Inv, Families
<1>6. Children'
  BY <1>1 DEF Inv, Children
<1>7. ASSUME NEW t \in Session PROVE Fine(t)'
  <2>1. Fine(t) /\ session'[t] = session[t]
    BY DEF Inv
  <2>2. Live(t) => session[t].pid \in Pid /\ session[t].pid # p
    BY <1>3, <2>1, LiveChild DEF Child
  <2>3. Live(t) => proc'[session[t].pid] = proc[session[t].pid]
    BY <1>1, <2>2
  <2>4. session[t].pc = "forked" =>
          /\ session[t].pid \notin {None, p}
          /\ \A q \in Pid : proc[q].group # session[t].pid
    BY <2>1, <2>2, SessionsAssumption DEF Live, Fine, StartingAt
  <2>5. session[t].pc = "forked" => n.group # session[t].pid
    BY <2>4
  <2>6. session[t].pc = "forked" =>
          \A q \in Pid : proc'[q].group # session[t].pid \/ proc'[q].group = proc[q].group
    BY <1>1, <2>5
  <2> QED BY <2>1, <2>3, <2>6, KeepsFine
<1>8. GuardedEnds'
  BY <1>1 DEF Inv, GuardedEnds
<1> QED BY <1>2, <1>4, <1>5, <1>6, <1>7, <1>8 DEF Inv

LEMMA ForkKeeps ==
  ASSUME Known, Inv, NEW p \in Pid, Fork(p)
  PROVE  Known' /\ Inv'
<1>1. PICK q \in Pid :
        /\ Available(q)
        /\ proc' = [proc EXCEPT ![q] = [Free EXCEPT !.status = "running", !.owner = proc[p].owner,
                                                   !.group = proc[p].group, !.job = proc[p].job]]
  BY Zenon DEF Fork
<1> DEFINE n == [Free EXCEPT !.status = "running", !.owner = proc[p].owner,
                             !.group = proc[p].group, !.job = proc[p].job]
<1>2. proc[p] \in Process
  BY DEF Known
<1>3. /\ n \in Process /\ n.status = "running" /\ ~n.child /\ ~n.term
      /\ n.group = proc[p].group /\ n.owner = proc[p].owner
  BY <1>2 DEF Free, Process
<1>4. proc' = [proc EXCEPT ![q] = n] /\ UNCHANGED <<platform, session, stopped>>
  BY <1>1 DEF Fork
<1> HIDE DEF n
<1> QED BY <1>1, <1>3, <1>4, NewKeeps

LEMMA StartKeeps ==
  ASSUME Known, Inv, NEW p \in Pid, Start(p)
  PROVE  Known' /\ Inv'
<1> DEFINE n == [Free EXCEPT !.status = "running", !.owner = Other, !.group = p]
<1>1. n \in Process /\ n.status = "running" /\ ~n.child /\ ~n.term /\ n.group = p
  BY DEF Free, Process
<1>2. Available(p) /\ proc' = [proc EXCEPT ![p] = n] /\ UNCHANGED <<platform, session, stopped>>
  BY DEF Start
<1> HIDE DEF n
<1> QED BY <1>1, <1>2, NewKeeps

\* What is left of a process after a step: of one the daemon knows, the pid and the group,
\* and of one that goes on everything that binds it.
Kept(t) ==
    LET o == proc[session[t].pid]
        n == proc'[session[t].pid]
    IN  /\ n.status # "free" /\ n.owner = o.owner /\ n.child = o.child /\ n.group = o.group
        /\ n.status = "running" \/ session[t].pc \in {"forked", "grouped"} =>
            n.status = o.status /\ n.deathsig = o.deathsig /\ n.job = o.job

\* Processes end or are signalled, and the daemon goes on.
LEMMA TakeKeeps ==
  ASSUME Known, Inv, proc' \in [Pid -> Process], Shrinks, UNCHANGED <<platform, session>>,
         SignalsItsOwn', \A t \in Session : Live(t) => Kept(t)
  PROVE  Known' /\ Inv'
<1>1. Known'
  BY DEF Known
<1>2. Blank' /\ Families' /\ Children' /\ GuardedEnds'
  BY ShrinkBlank, ShrinkFamilies, ShrinkChildren, ShrinkGone DEF Inv
<1>3. ASSUME NEW t \in Session PROVE Fine(t)'
  <2>1. Fine(t) /\ (Live(t) => Kept(t) /\ Child(t) /\ session[t].pid \in Pid)
    BY LiveChild DEF Inv
  <2>2. \A q \in Pid : proc'[q].group # None => proc'[q].group = proc[q].group
    BY DEF Shrinks, Less
  <2>3. StartingAt(t)'
    <3>1. session[t].pc = "forked" => \A q \in Pid : proc'[q].group # session[t].pid
      BY <2>1, <2>2, SessionsAssumption DEF Live, Fine, StartingAt
    <3>2. session[t].pc \in {"forked", "grouped"} =>
            LET r == session[t].pid IN
            Child(t)' /\ proc'[r].status = "running" /\ ~proc'[r].deathsig /\ ~proc'[r].job
            /\ proc'[r].group = proc[r].group
      BY <2>1 DEF Live, Fine, StartingAt, Kept, Child, Running
    <3> QED BY <2>1, <3>1, <3>2 DEF Fine, StartingAt, Running
  <2>4. GoingAt(t)'
    BY <2>1 DEF Live, Fine, GoingAt, Kept, Child, At
  <2>5. BoundAt(t)'
    BY <2>1 DEF Live, Fine, BoundAt, Kept, At, Running
  <2> QED BY <2>3, <2>4, <2>5 DEF Fine
<1> QED BY <1>1, <1>2, <1>3 DEF Inv

\* A process of a session that ended leaves what the daemon needs of it.
LEMMA LiveLeft ==
  ASSUME Known, Inv, NEW t \in Session, At(t, {"spawned", "adopted", "listed"}),
         proc'[session[t].pid] = Left(session[t].pid)
  PROVE  Kept(t)
<1>1. Child(t) /\ session[t].pid \in Pid /\ session[t].daemon
      /\ session[t].pc \notin {"failed", "forked", "grouped"}
  BY DEF Inv, Fine, GoingAt, Child, At
<1>2. LET n == Left(session[t].pid) IN
      n.status = "zombie" /\ n.child /\ n.owner = t /\ n.group = proc[session[t].pid].group
  BY <1>1, LeftKept DEF Known, Child
<1>3. proc[session[t].pid].child /\ proc[session[t].pid].owner = t
      /\ proc[session[t].pid].child \in BOOLEAN /\ Left(session[t].pid).child \in BOOLEAN
  BY <1>1, LeftType, FieldTypes DEF Child, Known
<1> QED BY <1>1, <1>2, <1>3 DEF Kept

LEMMA SameKept ==
  ASSUME Inv, NEW t \in Session, Live(t), proc'[session[t].pid] = proc[session[t].pid]
  PROVE  Kept(t)
BY DEF Inv, Fine, Live, StartingAt, GoingAt, Kept, Running

LEMMA ExitKeeps ==
  ASSUME Known, Inv, NEW p \in Pid, Exit(p)
  PROVE  Known' /\ Inv'
<1>1. /\ Running(p) /\ (proc[p].owner \in Session => Played(proc[p].owner))
      /\ proc' = [proc EXCEPT ![p] = Left(p)] /\ UNCHANGED <<platform, session, stopped>>
  BY DEF Exit
<1>2. /\ Left(p) \in Process /\ ~Left(p).term
      /\ proc' \in [Pid -> Process] /\ proc'[p] = Left(p)
      /\ \A q \in Pid \ {p} : proc'[q] = proc[q]
  BY <1>1, LeftType, ProcSet DEF Known
<1>3. Shrinks
  BY <1>2, LessLeft, LessSelf DEF Shrinks, Inv, Known
<1>4. SignalsItsOwn'
  BY <1>1, <1>2 DEF Inv, SignalsItsOwn
<1>5. ASSUME NEW t \in Session, Live(t) PROVE Kept(t)
  <2>1. Child(t) /\ session[t].pid \in Pid
    BY <1>5, LiveChild DEF Inv
  <2>2. CASE session[t].pid = p
    <3>1. Played(t)
      BY <1>1, <2>1, <2>2 DEF Child
    <3>2. At(t, {"spawned", "adopted", "listed"})
      BY <1>5, <3>1 DEF Live, Played
    <3> QED BY <1>2, <2>2, <3>2, LiveLeft
  <2>3. CASE session[t].pid # p
    BY <1>2, <1>5, <2>1, <2>3, SameKept
  <2> QED BY <2>2, <2>3
<1> QED BY <1>1, <1>2, <1>3, <1>4, <1>5, TakeKeeps

\* launch.stop: the group the pid of a session names holds processes of that session.
LEMMA StopKeeps ==
  ASSUME Known, Inv, NEW s \in Session, Stop(s)
  PROVE  Known' /\ Inv'
<1>1. At(s, {"listed"}) /\ stopped' = stopped \cup {s} /\ UNCHANGED <<platform, session>>
  BY DEF Stop
<1> DEFINE Signalled(p) == [proc[p] EXCEPT !.term = TRUE]
<1>2. \A p \in Pid : proc'[p] = IF ~Reached(s, p) THEN proc[p]
                                ELSE IF platform = "windows" THEN Left(p) ELSE Signalled(p)
  BY DEF Stop
<1>3. ASSUME NEW p \in Pid
      PROVE  /\ Signalled(p) \in Process /\ Signalled(p).status = proc[p].status
             /\ Signalled(p).owner = proc[p].owner /\ Signalled(p).child = proc[p].child
             /\ Signalled(p).group = proc[p].group /\ Signalled(p).deathsig = proc[p].deathsig
             /\ Signalled(p).job = proc[p].job
  BY DEF Known, Process
<1> HIDE DEF Signalled
<1>4. proc' \in [Pid -> Process]
  <2>1. DOMAIN proc' = Pid /\ proc' = [p \in Pid |-> proc'[p]]
    BY DEF Stop
  <2>2. ASSUME NEW p \in Pid PROVE proc'[p] \in Process
    BY <1>2, <1>3, LeftType DEF Known
  <2> QED BY <2>1, <2>2
<1>5. ASSUME NEW p \in Pid PROVE Less(proc'[p], proc[p])
  <2>1. CASE proc'[p] = proc[p]
    BY <2>1, LessSelf DEF Inv
  <2>2. CASE proc'[p] = Left(p)
    BY <2>2, LessLeft DEF Known
  <2>3. CASE Reached(s, p) /\ proc'[p] = Signalled(p)
    BY <1>3, <2>3 DEF Less, Reached, Running
  <2> QED BY <1>2, <2>1, <2>2, <2>3
<1>6. SignalsItsOwn'
  <2> SUFFICES ASSUME NEW p \in Pid, proc'[p].term PROVE proc'[p].owner \in stopped'
    BY DEF SignalsItsOwn
  <2>1. CASE ~Reached(s, p)
    BY <1>1, <1>2, <2>1 DEF Inv, SignalsItsOwn
  <2>2. CASE Reached(s, p) /\ platform = "windows"
    BY <1>2, <2>2, LeftType DEF Known
  <2>3. CASE Reached(s, p) /\ platform # "windows"
    <3>1. proc'[p].owner = proc[p].owner
      BY <1>2, <1>3, <2>3
    <3>2. /\ Child(s) /\ session[s].pid \in Pid /\ proc[session[s].pid].owner = s
          /\ proc[session[s].pid].group = session[s].pid
      BY <1>1, <2>3 DEF Inv, Fine, GoingAt, At, Child
    <3>3. proc[p].group = session[s].pid
      BY <2>3 DEF Reached
    <3>4. proc[p].owner = s
      BY <3>2, <3>3, SessionsAssumption DEF Inv, Families
    <3> QED BY <1>1, <3>1, <3>4
  <2> QED BY <2>1, <2>2, <2>3
<1>7. ASSUME NEW t \in Session, Live(t) PROVE Kept(t)
  <2> DEFINE p == session[t].pid
  <2>1. Child(t) /\ p \in Pid
    BY <1>7, LiveChild DEF Inv
  <2>2. CASE ~Reached(s, p)
    BY <1>2, <1>7, <2>1, <2>2, SameKept
  <2>3. CASE Reached(s, p) /\ platform = "windows"
    <3>1. At(t, {"spawned", "adopted", "listed"})
      BY <1>7, <2>3 DEF Reached, Live, Inv, Fine, StartingAt
    <3> QED BY <1>2, <2>1, <2>3, <3>1, LiveLeft
  <2>4. CASE Reached(s, p) /\ platform # "windows"
    <3>1. proc'[p] = Signalled(p)
      BY <1>2, <2>1, <2>4
    <3> QED BY <1>3, <2>1, <2>4, <3>1 DEF Kept, Reached, Running
  <2> QED BY <2>2, <2>3, <2>4
<1> QED BY <1>1, <1>4, <1>5, <1>6, <1>7, TakeKeeps DEF Shrinks

\* The death of the daemon takes the children that are bound to it.
LEMMA DaemonDiesKeeps ==
  ASSUME Known, Inv, DaemonDies
  PROVE  Known' /\ Inv'
<1>1. /\ UNCHANGED <<platform, stopped>>
      /\ proc' = [p \in Pid |-> IF ~Running(p) \/ proc[p].deathsig \/ proc[p].job
                                THEN Free ELSE proc[p]]
      /\ session' = [t \in Session |-> [session[t] EXCEPT !.daemon = (session[t].pc = "none")]]
  BY DEF DaemonDies
<1>2. \A p \in Pid : proc'[p] = IF ~Running(p) \/ proc[p].deathsig \/ proc[p].job
                                THEN Free ELSE proc[p]
  BY <1>1
<1>3. proc' \in [Pid -> Process]
  BY <1>1, FreeType DEF Known
<1>4. ASSUME NEW t \in Session
      PROVE  /\ session'[t] \in State /\ session'[t].pc = session[t].pc
             /\ session'[t].pid = session[t].pid
             /\ session'[t].daemon = (session[t].pc = "none")
  BY <1>1 DEF Known, State
<1>5. session' \in [Session -> State]
  BY <1>1, <1>4
<1>6. Shrinks
  BY <1>2, LessSelf, LessFree DEF Shrinks, Inv
<1>7. Blank' /\ Families' /\ Children'
  BY <1>4, <1>6, ShrinkBlank, ShrinkFamilies, ShrinkChildren DEF Inv
<1>8. SignalsItsOwn'
  BY <1>1, <1>2, FreeType DEF Inv, SignalsItsOwn
<1>9. ASSUME NEW t \in Session PROVE Fine(t)'
  <2>1. Fine(t) /\ session'[t].pid = session[t].pid /\ session'[t].pc = session[t].pc
    BY <1>4 DEF Inv
  <2>2. ~session'[t].daemon \/ session'[t].pc = "none"
    BY <1>4
  <2>3. GoingAt(t)' /\ BoundAt(t)'
    BY <2>2 DEF GoingAt, BoundAt, At
  <2>4. session[t].pc \in {"forked", "grouped"} =>
          session[t].pid \in Pid /\ proc'[session[t].pid] = proc[session[t].pid]
    BY <1>2, <2>1 DEF Fine, StartingAt, Child
  <2>5. \A q \in Pid : proc'[q].group # None => proc'[q].group = proc[q].group
    BY <1>6 DEF Shrinks, Less
  <2>6. session[t].pc = "forked" => \A q \in Pid : proc'[q].group # session[t].pid
    BY <2>1, <2>4, <2>5, SessionsAssumption DEF Fine, StartingAt
  <2>7. StartingAt(t)'
    BY <2>1, <2>4, <2>6 DEF Fine, StartingAt, Child, Running
  <2> QED BY <2>3, <2>7 DEF Fine
<1>10. GuardedEnds'
  <2> SUFFICES ASSUME NEW t \in Session, session'[t].pc = "listed", platform # "macos",
                      NEW p \in Pid, proc'[p].owner = t, proc'[p].child
               PROVE  FALSE
    BY <1>1 DEF GuardedEnds
  <2>1. /\ proc'[p] = proc[p] /\ Running(p) /\ ~proc[p].deathsig /\ ~proc[p].job
    BY <1>2, FreeType
  <2>2. session[t].pc = "listed" /\ session[t].pid = p
    BY <1>4, <2>1 DEF Inv, Children
  <2>3. CASE session[t].daemon
    <3>1. platform \in {"linux", "windows"}
      BY SessionsAssumption DEF Known
    <3> QED BY <2>1, <2>2, <2>3, <3>1 DEF Inv, Fine, BoundAt, At
  <2>4. CASE ~session[t].daemon
    BY <2>1, <2>2, <2>4 DEF Inv, GuardedEnds
  <2> QED BY <2>3, <2>4
<1> QED BY <1>1, <1>3, <1>5, <1>7, <1>8, <1>9, <1>10 DEF Known, Inv

------------------------------------------------------------------------------
(* The specification *)

LEMMA StartHolds == Init => Known /\ Inv
<1> SUFFICES ASSUME Init PROVE Known /\ Inv
  OBVIOUS
<1>1. \A p \in Pid : proc[p] = Free
  BY DEF Init
<1>2. \A s \in Session : session[s].pc = "none"
  BY DEF Init
<1>3. Known
  BY FreeType DEF Init, Known, State, Pc
<1>4. Blank /\ Families /\ Children /\ SignalsItsOwn
  BY <1>1, FreeType DEF Blank, Families, Children, SignalsItsOwn
<1>5. GuardedEnds /\ \A s \in Session : Fine(s)
  BY <1>2 DEF GuardedEnds, Fine, StartingAt, GoingAt, BoundAt, At
<1> QED BY <1>3, <1>4, <1>5 DEF Inv

LEMMA StepHolds ==
  ASSUME Known, Inv, [Next]_vars
  PROVE  Known' /\ Inv'
<1>1. ASSUME UNCHANGED <<platform, proc, session, stopped>> PROVE Known' /\ Inv'
  BY <1>1 DEF Known, Inv, Blank, Families, Children, SignalsItsOwn, GuardedEnds, Fine,
              StartingAt, GoingAt, BoundAt, Child, At, Running
<1>2. ASSUME NEW s \in Session,
             \/ Spawn(s) \/ SetGroup(s) \/ Exec(s) \/ SpawnFails(s) \/ Adopt(s) \/ AdoptFails(s)
             \/ List(s) \/ Stop(s)
      PROVE  Known' /\ Inv'
  BY <1>2, SpawnKeeps, SetGroupKeeps, ExecKeeps, SpawnFailsKeeps, AdoptKeeps, AdoptFailsKeeps,
     ListKeeps, StopKeeps
<1>3. ASSUME NEW s \in Session, NEW st \in Stream,
             Write(s, st) \/ Capture(s, st) \/ CaptureEnds(s, st)
      PROVE  Known' /\ Inv'
  BY <1>1, <1>3 DEF Write, Capture, CaptureEnds
<1>4. ASSUME NEW p \in Pid, Fork(p) \/ Start(p) \/ Exit(p) PROVE Known' /\ Inv'
  BY <1>4, ForkKeeps, StartKeeps, ExitKeeps
<1>5. CASE DaemonDies
  BY <1>5, DaemonDiesKeeps
<1>6. CASE Restart \/ UNCHANGED vars
  BY <1>1, <1>6 DEF Restart, vars
<1> QED BY <1>2, <1>3, <1>4, <1>5, <1>6 DEF Next

\* Stopping a session never signals a program that has nothing to do with it, nor the
\* game of another session, however often pids are used again: for any number of
\* launches and pids, and wherever games and the daemon end (ps_signal, Session::stop).
THEOREM SignalsOnlyItsOwn == Spec => []SignalsItsOwn
<1>1. Known /\ Inv /\ [Next]_vars => Known' /\ Inv'
  BY StepHolds
<1>2. Inv => SignalsItsOwn
  BY DEF Inv
<1> QED BY <1>1, <1>2, StartHolds, PTL DEF Spec

\* A game whose launch was answered ends with the daemon on Linux and Windows: between
\* the fork and the adoption, and wherever the daemon dies, nothing escapes the means
\* of the platform that had been answered for (prepareChild, procguard_adopt).
THEOREM AnsweredGamesEnd == Spec => []GuardedEnds
<1>1. Known /\ Inv /\ [Next]_vars => Known' /\ Inv'
  BY StepHolds
<1>2. Inv => GuardedEnds
  BY DEF Inv
<1> QED BY <1>1, <1>2, StartHolds, PTL DEF Spec

------------------------------------------------------------------------------
(* Whom a stop reaches *)

\* A running process of session s: between fork and exec it is the child, later it
\* is in the group the child leads, whoever forked it.
GroupedAt(p) ==
    LET s == proc[p].owner IN
    Running(p) /\ s \in Session =>
        \/ session[s].pc \in {"forked", "grouped"} /\ p = session[s].pid
        \/ session[s].pc \in {"spawned", "adopted", "listed"} /\ proc[p].group = session[s].pid

Grouped == platform # "windows" => \A p \in Pid : GroupedAt(p)

\* A process that keeps its owner and its group, or that ends, stays where it was.
LEMMA StaysGrouped ==
  ASSUME platform # "windows", NEW p \in Pid, GroupedAt(p),
         \/ ~Running(p)'
         \/ /\ Running(p) /\ proc'[p].owner = proc[p].owner /\ proc'[p].group = proc[p].group
            /\ proc[p].owner \in Session => session'[proc[p].owner] = session[proc[p].owner]
  PROVE  GroupedAt(p)'
<1>1. CASE ~Running(p)'
  BY <1>1 DEF GroupedAt
<1>2. CASE /\ Running(p) /\ proc'[p].owner = proc[p].owner /\ proc'[p].group = proc[p].group
           /\ proc[p].owner \in Session => session'[proc[p].owner] = session[proc[p].owner]
  BY <1>2 DEF GroupedAt
<1> QED BY <1>1, <1>2

\* While the child is all there is of a session, a step of it concerns the child alone.
LEMMA GroupedLaunch ==
  ASSUME Known, Inv, Grouped, platform # "windows", NEW s \in Session,
         SetGroup(s) \/ Exec(s) \/ SpawnFails(s)
  PROVE  \A p \in Pid : GroupedAt(p)'
<1>0. /\ session[s].pc \in {"forked", "grouped"} /\ Child(s)
      /\ session[s].pid \in Pid /\ Running(session[s].pid)
      /\ session[s].pc = "grouped" => proc[session[s].pid].group = session[s].pid
  BY DEF SetGroup, Exec, SpawnFails, At, Inv, Fine, StartingAt, Child
<1> PICK c \in Pid : c = session[s].pid
  BY <1>0
<1>1. /\ session[s].pc \in {"forked", "grouped"} /\ proc[c].owner = s /\ Running(c)
      /\ c = session[s].pid /\ session[s].pc = "grouped" => proc[c].group = c
  BY <1>0 DEF Child
<1>2. /\ proc \in [Pid -> Process] /\ session \in [Session -> State]
      /\ proc[c] \in Process /\ session[s] \in State
  BY <1>1 DEF Known
<1>3. \A p \in Pid : GroupedAt(p)
  BY DEF Grouped
<1>4. \A p \in Pid \ {c} : Running(p) => proc[p].owner # s
  BY <1>1, <1>3 DEF GroupedAt
<1>5. /\ \A p \in Pid \ {c} : proc'[p] = proc[p]
      /\ \A t \in Session \ {s} : session'[t] = session[t]
  BY <1>2 DEF SetGroup, Exec, SpawnFails, Goto
<1>6. \A p \in Pid \ {c} : GroupedAt(p)'
  BY <1>3, <1>4, <1>5 DEF GroupedAt, Running
<1>7. GroupedAt(c)'
  <2>1. CASE SetGroup(s)
    <3> DEFINE n == [proc[c] EXCEPT !.group = c]
    <3>1. n.owner = s /\ n.group = c
      BY <1>1, <1>2 DEF Process
    <3>2. proc'[c] = n
      BY <1>1, <1>2, <2>1 DEF SetGroup
    <3>3. session'[s].pc = "grouped" /\ session'[s].pid = c
      BY <1>1, <1>2, <2>1, GotoType DEF SetGroup, Pc
    <3> QED BY <3>1, <3>2, <3>3 DEF GroupedAt
  <2>2. CASE Exec(s)
    <3> DEFINE n == [proc[c] EXCEPT !.deathsig = (platform = "linux")]
    <3>1. n.owner = s /\ n.group = c
      BY <1>1, <1>2, <2>2 DEF Process, Exec
    <3>2. proc'[c] = n
      BY <1>1, <1>2, <2>2 DEF Exec
    <3>3. session'[s].pc = "spawned" /\ session'[s].pid = c
      BY <1>1, <1>2, <2>2, GotoType DEF Exec, Pc
    <3> QED BY <3>1, <3>2, <3>3 DEF GroupedAt
  <2>3. CASE SpawnFails(s)
    <3>1. proc'[c] = Free
      BY <1>1, <1>2, <2>3 DEF SpawnFails
    <3> QED BY <3>1, FreeType DEF GroupedAt, Running
  <2> QED BY <2>1, <2>2, <2>3
<1> QED BY <1>6, <1>7

LEMMA GroupedGoto ==
  ASSUME Known, Grouped, platform # "windows", NEW s \in Session, Adopt(s) \/ List(s)
  PROVE  \A p \in Pid : GroupedAt(p)'
<1>1. /\ session[s].pc \in {"spawned", "adopted"}
      /\ session'[s].pc \in {"adopted", "listed"} /\ session'[s].pid = session[s].pid
      /\ \A t \in Session \ {s} : session'[t] = session[t]
  BY GotoType DEF Adopt, List, At, Known, Pc
<1>2. \A p \in Pid : /\ proc'[p].status = proc[p].status /\ proc'[p].owner = proc[p].owner
                     /\ proc'[p].group = proc[p].group
  <2>1. CASE List(s)
    BY <2>1 DEF List
  <2>2. CASE Adopt(s)
    <3> TAKE p \in Pid
    <3> DEFINE n == [proc[p] EXCEPT !.job = (platform = "windows")]
    <3>1. proc[p] \in Process
      BY DEF Known
    <3>2. n.status = proc[p].status /\ n.owner = proc[p].owner /\ n.group = proc[p].group
      BY <3>1 DEF Process
    <3>3. proc'[p] \in {n, proc[p]}
      BY <2>2 DEF Adopt, Known
    <3> HIDE DEF n
    <3> QED BY <3>2, <3>3
  <2> QED BY <2>1, <2>2
<1> QED
  BY <1>1, <1>2 DEF Grouped, GroupedAt, Running

\* Only a stop enters a session among those that were stopped.
LEMMA StopOnly ==
  ASSUME [Next]_vars
  PROVE  platform' = platform /\ (stopped' = stopped \/ \E s \in Session : Stop(s))
<1>1. ASSUME NEW s \in Session,
             \/ Spawn(s) \/ SetGroup(s) \/ Exec(s) \/ SpawnFails(s) \/ Adopt(s) \/ AdoptFails(s)
             \/ List(s) \/ \E st \in Stream : Write(s, st) \/ Capture(s, st) \/ CaptureEnds(s, st)
      PROVE  UNCHANGED <<platform, stopped>>
  BY <1>1 DEF Spawn, SetGroup, Exec, SpawnFails, Adopt, AdoptFails, List, Write, Capture, CaptureEnds
<1>2. ASSUME NEW s \in Session, Stop(s) PROVE platform' = platform
  BY <1>2 DEF Stop
<1>3. ASSUME NEW p \in Pid, Fork(p) \/ Start(p) \/ Exit(p) PROVE UNCHANGED <<platform, stopped>>
  BY <1>3 DEF Fork, Start, Exit
<1>4. CASE DaemonDies \/ Restart \/ UNCHANGED vars
  BY <1>4 DEF DaemonDies, Restart, vars
<1> QED BY <1>1, <1>2, <1>3, <1>4 DEF Next

LEMMA GroupedStep ==
  ASSUME Known, Inv, Grouped, [Next]_vars
  PROVE  Grouped'
<1>1. platform' = platform
  BY StopOnly
<1> SUFFICES ASSUME platform # "windows" PROVE \A p \in Pid : GroupedAt(p)'
  BY <1>1 DEF Grouped
<1>2. /\ \A p \in Pid : GroupedAt(p)
      /\ proc \in [Pid -> Process] /\ session \in [Session -> State]
  BY DEF Grouped, Known
<1>3. ASSUME UNCHANGED <<proc, session>> PROVE \A p \in Pid : GroupedAt(p)'
  BY <1>2, <1>3 DEF GroupedAt, Running
<1>4. ASSUME NEW s \in Session, Spawn(s) PROVE \A p \in Pid : GroupedAt(p)'
  <2>1. PICK q \in Pid :
           /\ proc' = [proc EXCEPT ![q] = [Free EXCEPT !.status = "running", !.owner = s,
                                                      !.child = TRUE]]
           /\ session' = [session EXCEPT ![s] =
                            [pc |-> IF platform = "windows" THEN "spawned" ELSE "forked",
                             pid |-> q, daemon |-> TRUE]]
    BY <1>4, Zenon DEF Spawn
  <2>2. session[s].pc = "none"
    BY <1>4 DEF Spawn, At
  <2>3. \A p \in Pid : Running(p) => proc[p].owner # s
    BY <1>2, <2>2 DEF GroupedAt
  <2>4. session'[s].pc = "forked" /\ session'[s].pid = q
    BY <1>2, <2>1
  <2>5. \A p \in Pid \ {q} : proc'[p] = proc[p]
    BY <1>2, <2>1
  <2>6. \A t \in Session \ {s} : session'[t] = session[t]
    BY <1>2, <2>1
  <2>7. proc'[q].owner = s
    BY <1>2, <2>1 DEF Free
  <2>8. GroupedAt(q)'
    BY <2>4, <2>7 DEF GroupedAt
  <2> QED BY <1>2, <2>3, <2>5, <2>6, <2>8 DEF GroupedAt, Running
<1>5. ASSUME NEW p \in Pid, Fork(p) PROVE \A q \in Pid : GroupedAt(q)'
  <2>1. PICK q \in Pid :
           proc' = [proc EXCEPT ![q] = [Free EXCEPT !.status = "running", !.owner = proc[p].owner,
                                                   !.group = proc[p].group, !.job = proc[p].job]]
    BY <1>5, Zenon DEF Fork
  <2>2. /\ Running(p) /\ proc[p].owner \in Session /\ Played(proc[p].owner)
        /\ session' = session
    BY <1>5 DEF Fork
  <2>3. session[proc[p].owner].pc \in {"spawned", "adopted", "listed"}
        /\ proc[p].group = session[proc[p].owner].pid
    BY <1>2, <2>2 DEF GroupedAt, Played
  <2>4. proc'[q].owner = proc[p].owner /\ proc'[q].group = proc[p].group
    BY <1>2, <2>1 DEF Free
  <2>5. \A r \in Pid \ {q} : proc'[r] = proc[r]
    BY <1>2, <2>1
  <2>6. GroupedAt(q)'
    BY <2>2, <2>3, <2>4 DEF GroupedAt
  <2> QED BY <1>2, <2>2, <2>5, <2>6 DEF GroupedAt, Running
<1>6. ASSUME NEW p \in Pid, Start(p) PROVE \A q \in Pid : GroupedAt(q)'
  <2>1. proc'[p].owner = Other /\ session' = session
    BY <1>2, <1>6 DEF Start, Free
  <2>2. \A r \in Pid \ {p} : proc'[r] = proc[r]
    BY <1>2, <1>6 DEF Start
  <2>3. GroupedAt(p)'
    BY <2>1, SessionsAssumption DEF GroupedAt, SessionsAssumption
  <2> QED BY <1>2, <2>1, <2>2, <2>3 DEF GroupedAt, Running
<1>7. ASSUME NEW p \in Pid, Exit(p) PROVE \A q \in Pid : GroupedAt(q)'
  <2>1. proc'[p].status # "running" /\ session' = session
    BY <1>2, <1>7, LeftType DEF Exit
  <2>2. \A r \in Pid \ {p} : proc'[r] = proc[r]
    BY <1>2, <1>7 DEF Exit
  <2> QED BY <1>2, <2>1, <2>2 DEF GroupedAt, Running
<1>8. ASSUME NEW s \in Session, Stop(s) PROVE \A p \in Pid : GroupedAt(p)'
  <2>1. session' = session
    BY <1>8 DEF Stop
  <2>2. ASSUME NEW p \in Pid
        PROVE  /\ proc'[p].status = proc[p].status /\ proc'[p].owner = proc[p].owner
               /\ proc'[p].group = proc[p].group
    <3> DEFINE n == [proc[p] EXCEPT !.term = TRUE]
    <3>1. proc[p] \in Process
      BY <1>2
    <3>2. n.status = proc[p].status /\ n.owner = proc[p].owner /\ n.group = proc[p].group
      BY <3>1 DEF Process
    <3>3. proc'[p] \in {n, proc[p]}
      BY <1>8 DEF Stop
    <3> HIDE DEF n
    <3> QED BY <3>2, <3>3
  <2> QED BY <1>2, <2>1, <2>2 DEF GroupedAt, Running
<1>9. CASE DaemonDies
  <2>1. \A p \in Pid : proc'[p] \in {Free, proc[p]}
    BY <1>9 DEF DaemonDies
  <2>2. \A t \in Session : session'[t].pc = session[t].pc /\ session'[t].pid = session[t].pid
    <3> TAKE t \in Session
    <3> DEFINE n == [session[t] EXCEPT !.daemon = (session[t].pc = "none")]
    <3>1. session[t] \in State
      BY <1>2
    <3>2. n.pc = session[t].pc /\ n.pid = session[t].pid
      BY <3>1 DEF State
    <3>3. session'[t] = n
      BY <1>9 DEF DaemonDies
    <3> HIDE DEF n
    <3> QED BY <3>2, <3>3
  <2>3. Free.status # "running"
    BY FreeType
  <2> QED BY <1>2, <2>1, <2>2, <2>3 DEF GroupedAt, Running
<1>10. ASSUME NEW s \in Session, AdoptFails(s) PROVE FALSE
  BY <1>10 DEF AdoptFails
<1>11. ASSUME NEW s \in Session, NEW st \in Stream,
              Write(s, st) \/ Capture(s, st) \/ CaptureEnds(s, st)
       PROVE  UNCHANGED <<proc, session>>
  BY <1>11 DEF Write, Capture, CaptureEnds
<1>12. CASE Restart \/ UNCHANGED vars
  BY <1>3, <1>12 DEF Restart, vars
<1> QED
  BY <1>3, <1>4, <1>5, <1>6, <1>7, <1>8, <1>9, <1>10, <1>11, <1>12, GroupedLaunch, GroupedGoto
     DEF Next

\* launch.stop signals every process of the game there is at that moment, those its
\* processes forked included, on the platforms that have process groups.
THEOREM StopsReach == Spec => StopReaches
<1>1. Init => Grouped
  BY FreeType DEF Init, Grouped, GroupedAt, Running
<1>2. Known /\ Inv /\ [Next]_vars => Known' /\ Inv'
  BY StepHolds
<1>3. Known /\ Inv /\ Grouped /\ [Next]_vars => Grouped'
  BY GroupedStep
<1>4. ASSUME Known, Grouped, [Next]_vars, NEW s \in Session, s \in stopped' \ stopped,
             platform # "windows", NEW p \in Pid, Running(p), proc[p].owner = s
      PROVE  proc'[p].term
  <2>1. Stop(s)
    <3>1. PICK t \in Session : Stop(t)
      BY <1>4, StopOnly
    <3>2. stopped' = stopped \cup {t}
      BY <3>1 DEF Stop
    <3> QED BY <1>4, <3>1, <3>2
  <2>2. Reached(s, p)
    BY <1>4, <2>1 DEF Stop, At, Grouped, GroupedAt, Reached
  <2>3. proc'[p] = [proc[p] EXCEPT !.term = TRUE]
    BY <1>4, <2>1, <2>2 DEF Stop
  <2>4. proc[p] \in Process
    BY <1>4 DEF Known
  <2> QED BY <2>3, <2>4 DEF Process
<1>5. Known /\ Grouped /\ [Next]_vars =>
        [\A s \in Session :
           s \in stopped' \ stopped /\ platform # "windows" =>
              \A p \in Pid : Running(p) /\ proc[p].owner = s => proc'[p].term]_vars
  BY <1>4
<1> QED
  BY <1>1, <1>2, <1>3, <1>5, StartHolds, PTL DEF Spec, StopReaches

------------------------------------------------------------------------------
(* Types *)

Ring == [read : [Stream -> Nat], ended : [Stream -> BOOLEAN], lines : Seq(Line)]

Captured ==
    /\ up \in BOOLEAN /\ stopped \subseteq Session
    /\ written \in [Session -> [Stream -> Seq(BOOLEAN)]]
    /\ log \in [Session -> Ring]
    /\ \A s \in Session : Len(log[s].lines) <= Size

LEMMA SizeType == Size \in Nat /\ Size >= 1
BY SessionsAssumption DEF Size

\* A full ring gives up a line before it takes one.
LEMMA PushedType ==
  ASSUME NEW lines \in Seq(Line), NEW line \in Line, Len(lines) <= Size
  PROVE  Pushed(lines, line) \in Seq(Line) /\ Len(Pushed(lines, line)) <= Size
<1>1. CASE Len(lines) = Size
  <2>1. lines # <<>>
    BY <1>1, SizeType
  <2>2. Tail(lines) \in Seq(Line) /\ Len(Tail(lines)) = Len(lines) - 1
    BY <2>1
  <2> QED BY <1>1, <2>2, SizeType DEF Pushed
<1>2. CASE Len(lines) # Size
  <2>1. Len(lines) \in Nat /\ Len(lines) + 1 <= Size
    BY <1>2, SizeType
  <2> QED BY <1>2, <2>1 DEF Pushed
<1> QED BY <1>1, <1>2

LEMMA LogSet ==
  ASSUME Captured, NEW s \in Session, NEW n \in Ring, Len(n.lines) <= Size,
         log' = [log EXCEPT ![s] = n]
  PROVE  log' \in [Session -> Ring] /\ \A t \in Session : Len(log'[t].lines) <= Size
BY DEF Captured

LEMMA CaptureType ==
  ASSUME Captured, NEW s \in Session, NEW st \in Stream, Capture(s, st)
  PROVE  log' \in [Session -> Ring] /\ \A t \in Session : Len(log'[t].lines) <= Size
<1> DEFINE o == log[s]
           n == o.read[st] + 1
           reads == [o.read EXCEPT ![st] = n]
           lines == Pushed(o.lines, <<st, n>>)
           ends == [o.ended EXCEPT ![st] = TRUE]
           kept == [o EXCEPT !.read = reads, !.lines = lines]
           over == [o EXCEPT !.ended = ends]
<1>1. log' = [log EXCEPT ![s] = IF written[s][st][n] THEN kept ELSE over]
  BY DEF Capture
<1>2. o \in Ring /\ Len(o.lines) <= Size
  BY DEF Captured
<1>3. /\ o.read \in [Stream -> Nat] /\ o.ended \in [Stream -> BOOLEAN] /\ o.lines \in Seq(Line)
      /\ n \in Nat
  BY <1>2 DEF Ring
<1>4. reads \in [Stream -> Nat] /\ ends \in [Stream -> BOOLEAN]
  BY <1>3
<1>5. lines \in Seq(Line) /\ Len(lines) <= Size
  BY <1>2, <1>3, PushedType DEF Line
<1> HIDE DEF reads, lines, ends, o
<1>6. kept \in Ring /\ kept.lines = lines /\ over \in Ring /\ over.lines = o.lines
  BY <1>2, <1>4, <1>5 DEF Ring
<1> HIDE DEF kept, over, n
<1> QED BY <1>1, <1>2, <1>5, <1>6, LogSet

LEMMA CaptureEndsType ==
  ASSUME Captured, NEW s \in Session, NEW st \in Stream, CaptureEnds(s, st)
  PROVE  log' \in [Session -> Ring] /\ \A t \in Session : Len(log'[t].lines) <= Size
<1> DEFINE ends == [log[s].ended EXCEPT ![st] = TRUE]
           over == [log[s] EXCEPT !.ended = ends]
<1>1. log' = [log EXCEPT ![s] = over]
  BY DEF CaptureEnds
<1>2. log[s] \in Ring /\ Len(log[s].lines) <= Size
  BY DEF Captured
<1>3. ends \in [Stream -> BOOLEAN]
  BY <1>2 DEF Ring
<1> HIDE DEF ends
<1>4. over \in Ring /\ over.lines = log[s].lines
  BY <1>2, <1>3 DEF Ring
<1> HIDE DEF over
<1> QED BY <1>1, <1>2, <1>4, LogSet

LEMMA WriteType ==
  ASSUME Captured, NEW s \in Session, NEW st \in Stream, Write(s, st)
  PROVE  written' \in [Session -> [Stream -> Seq(BOOLEAN)]]
<1>1. PICK utf8 \in BOOLEAN :
        written' = [written EXCEPT ![s][st] = Append(written[s][st], utf8)]
  BY DEF Write
<1> DEFINE all == [written[s] EXCEPT ![st] = Append(written[s][st], utf8)]
<1>2. written[s] \in [Stream -> Seq(BOOLEAN)]
  BY DEF Captured
<1>3. Append(written[s][st], utf8) \in Seq(BOOLEAN)
  BY <1>2
<1>4. all \in [Stream -> Seq(BOOLEAN)]
  BY <1>2, <1>3
<1>5. written' = [written EXCEPT ![s] = all]
  BY <1>1
<1> HIDE DEF all
<1> QED BY <1>4, <1>5 DEF Captured

LEMMA StepCaptured ==
  ASSUME Captured, [Next]_vars
  PROVE  Captured'
<1>1. ASSUME UNCHANGED <<written, log>>, up' \in BOOLEAN, stopped' \subseteq Session
      PROVE  Captured'
  BY <1>1 DEF Captured
<1>2. ASSUME NEW s \in Session,
             \/ Spawn(s) \/ SetGroup(s) \/ Exec(s) \/ SpawnFails(s) \/ Adopt(s) \/ AdoptFails(s)
             \/ List(s) \/ Stop(s)
      PROVE  Captured'
  BY <1>1, <1>2 DEF Captured, Spawn, SetGroup, Exec, SpawnFails, Adopt, AdoptFails, List, Stop
<1>3. ASSUME NEW s \in Session, NEW st \in Stream,
             Write(s, st) \/ Capture(s, st) \/ CaptureEnds(s, st)
      PROVE  Captured'
  <2>1. CASE Write(s, st)
    BY <2>1, WriteType DEF Captured, Write
  <2>2. CASE Capture(s, st)
    <3>1. UNCHANGED <<up, stopped, written>>
      BY <2>2 DEF Capture
    <3> QED BY <2>2, <3>1, CaptureType DEF Captured
  <2>3. CASE CaptureEnds(s, st)
    <3>1. UNCHANGED <<up, stopped, written>>
      BY <2>3 DEF CaptureEnds
    <3> QED BY <2>3, <3>1, CaptureEndsType DEF Captured
  <2> QED BY <1>3, <2>1, <2>2, <2>3
<1>4. ASSUME NEW p \in Pid, Fork(p) \/ Start(p) \/ Exit(p) PROVE Captured'
  BY <1>1, <1>4 DEF Captured, Fork, Start, Exit
<1>5. CASE DaemonDies \/ Restart \/ UNCHANGED vars
  BY <1>1, <1>5 DEF Captured, DaemonDies, Restart, vars
<1> QED BY <1>2, <1>3, <1>4, <1>5 DEF Next

LEMMA StartCaptured == Init => Captured
<1> SUFFICES ASSUME Init PROVE Captured
  OBVIOUS
<1>1. NoLog \in Ring /\ NoLog.lines = <<>>
  BY DEF NoLog, Ring
<1>2. \A s \in Session : log[s] = NoLog
  BY DEF Init
<1>3. log \in [Session -> Ring] /\ \A s \in Session : Len(log[s].lines) <= Size
  BY <1>1, <1>2, SizeType DEF Init
<1> QED BY <1>3 DEF Init, Captured

\* Whatever a game writes, the ring never holds more lines than it was made for
\* (LogBuffer::push); and processes and sessions stay what they are.
THEOREM SessionsTypes == Spec => []TypeOK
<1>1. Known /\ Inv /\ Captured /\ [Next]_vars => Known' /\ Inv' /\ Captured'
  BY StepHolds, StepCaptured
<1>2. Known /\ Captured => TypeOK
  <2> SUFFICES ASSUME Known, Captured PROVE TypeOK
    OBVIOUS
  <2>1. ASSUME NEW s \in Session
        PROVE  /\ log[s].read \in [Stream -> Nat] /\ log[s].ended \in [Stream -> BOOLEAN]
               /\ log[s].lines \in Seq(Line)
    BY DEF Captured, Ring
  <2> QED BY <2>1 DEF Known, Captured, TypeOK
<1> QED BY <1>1, <1>2, StartHolds, StartCaptured, PTL DEF Spec

------------------------------------------------------------------------------
(* The ring *)

\* What InRing says of the lines there are, whatever room is left.
Ordered(lines, st, n) ==
    \A i \in 1..Len(lines) : lines[i][1] = st =>
       /\ lines[i][2] <= n
       /\ lines[i][2] < n => \E j \in i + 1..Len(lines) : lines[j] = <<st, lines[i][2] + 1>>
       /\ \A j \in i + 1..Len(lines) : lines[j][1] = st => lines[i][2] < lines[j][2]

LEMMA TailOrdered ==
  ASSUME NEW lines \in Seq(Line), lines # <<>>, NEW st \in Stream, NEW n \in Nat,
         Ordered(lines, st, n)
  PROVE  Ordered(Tail(lines), st, n)
<1> DEFINE rest == Tail(lines)
<1>1. /\ Len(lines) \in Nat /\ Len(rest) = Len(lines) - 1
      /\ \A i \in 1..Len(rest) : rest[i] = lines[i + 1]
  OBVIOUS
<1> SUFFICES ASSUME NEW i \in 1..Len(rest), rest[i][1] = st
             PROVE  /\ rest[i][2] <= n
                    /\ rest[i][2] < n
                       => \E j \in i + 1..Len(rest) : rest[j] = <<st, rest[i][2] + 1>>
                    /\ \A j \in i + 1..Len(rest) : rest[j][1] = st => rest[i][2] < rest[j][2]
  BY DEF Ordered
<1>2. i + 1 \in 1..Len(lines) /\ rest[i] = lines[i + 1]
  BY <1>1
<1> HIDE DEF rest
<1>3. /\ rest[i][2] <= n
      /\ rest[i][2] < n
         => \E j \in i + 1 + 1..Len(lines) : lines[j] = <<st, rest[i][2] + 1>>
      /\ \A j \in i + 1 + 1..Len(lines) : lines[j][1] = st => rest[i][2] < lines[j][2]
  BY <1>2 DEF Ordered
<1>4. ASSUME rest[i][2] < n PROVE \E j \in i + 1..Len(rest) : rest[j] = <<st, rest[i][2] + 1>>
  <2>1. PICK j \in i + 1 + 1..Len(lines) : lines[j] = <<st, rest[i][2] + 1>>
    BY <1>3, <1>4
  <2>2. j - 1 \in i + 1..Len(rest) /\ rest[j - 1] = lines[j]
    BY <1>1
  <2> QED BY <2>1, <2>2
<1>5. ASSUME NEW j \in i + 1..Len(rest), rest[j][1] = st PROVE rest[i][2] < rest[j][2]
  <2>1. j + 1 \in i + 1 + 1..Len(lines) /\ rest[j] = lines[j + 1]
    BY <1>1
  <2> QED BY <1>3, <1>5, <2>1
<1> QED BY <1>3, <1>4, <1>5

\* The next line of a stream.
LEMMA AppendOrdered ==
  ASSUME NEW lines \in Seq(Line), NEW st \in Stream, NEW n \in Nat, Ordered(lines, st, n)
  PROVE  Ordered(Append(lines, <<st, n + 1>>), st, n + 1)
<1> DEFINE more == Append(lines, <<st, n + 1>>)
           k == Len(lines)
<1>1. /\ k \in Nat /\ Len(more) = k + 1 /\ more[k + 1] = <<st, n + 1>>
      /\ \A i \in 1..k : more[i] = lines[i] /\ lines[i][2] \in Nat
  BY DEF Line
<1> HIDE DEF more, k
<1>2. ASSUME NEW i \in 1..k + 1, more[i][1] = st
      PROVE  /\ more[i][2] <= n + 1
             /\ more[i][2] < n + 1
                => \E j \in i + 1..k + 1 : more[j] = <<st, more[i][2] + 1>>
             /\ \A j \in i + 1..k + 1 : more[j][1] = st => more[i][2] < more[j][2]
  <2>1. CASE i = k + 1
    BY <1>1, <2>1
  <2>2. CASE i \in 1..k
    <3>1. more[i] = lines[i] /\ more[i][2] \in Nat
      BY <1>1, <2>2
    <3>2. /\ more[i][2] <= n
          /\ more[i][2] < n => \E j \in i + 1..k : lines[j] = <<st, more[i][2] + 1>>
          /\ \A j \in i + 1..k : lines[j][1] = st => more[i][2] < lines[j][2]
      BY <1>2, <2>2, <3>1 DEF Ordered, k
    <3>5. ASSUME NEW j \in i + 1..k + 1, more[j][1] = st PROVE more[i][2] < more[j][2]
      <4>1. CASE j = k + 1
        BY <1>1, <3>1, <3>2, <4>1
      <4>2. CASE j \in i + 1..k
        <5>1. j \in 1..k
          BY <1>1, <2>2, <4>2
        <5> QED BY <1>1, <3>2, <3>5, <4>2, <5>1
      <4> QED BY <1>1, <2>2, <4>1, <4>2
    <3>6. more[i][2] <= n + 1
      BY <3>1, <3>2
    <3>3. CASE more[i][2] = n
      <4>1. k + 1 \in i + 1..k + 1 /\ more[k + 1] = <<st, more[i][2] + 1>>
        BY <1>1, <2>2, <3>3
      <4> QED BY <3>5, <3>6, <4>1
    <3>4. CASE more[i][2] < n
      <4>1. PICK j \in i + 1..k : lines[j] = <<st, more[i][2] + 1>>
        BY <3>2, <3>4
      <4>2. j \in i + 1..k + 1 /\ j \in 1..k
        BY <1>1, <2>2
      <4>3. more[j] = <<st, more[i][2] + 1>>
        BY <1>1, <4>1, <4>2
      <4> QED BY <3>5, <3>6, <4>2, <4>3
    <3> QED BY <3>1, <3>2, <3>3, <3>4
  <2> QED BY <1>1, <2>1, <2>2
<1> QED BY <1>1, <1>2 DEF Ordered, more

\* A line of the other stream.
LEMMA AppendBeside ==
  ASSUME NEW lines \in Seq(Line), NEW st \in Stream, NEW m \in Nat, Ordered(lines, st, m),
         NEW line \in Line, line[1] # st
  PROVE  Ordered(Append(lines, line), st, m)
<1> DEFINE more == Append(lines, line)
           k == Len(lines)
<1>1. /\ k \in Nat /\ Len(more) = k + 1 /\ more[k + 1] = line
      /\ \A i \in 1..k : more[i] = lines[i]
  OBVIOUS
<1> HIDE DEF more, k
<1>2. ASSUME NEW i \in 1..k + 1, more[i][1] = st
      PROVE  /\ more[i][2] <= m
             /\ more[i][2] < m => \E j \in i + 1..k + 1 : more[j] = <<st, more[i][2] + 1>>
             /\ \A j \in i + 1..k + 1 : more[j][1] = st => more[i][2] < more[j][2]
  <2>1. i \in 1..k /\ more[i] = lines[i]
    BY <1>1, <1>2
  <2>2. /\ more[i][2] <= m
        /\ more[i][2] < m => \E j \in i + 1..k : lines[j] = <<st, more[i][2] + 1>>
        /\ \A j \in i + 1..k : lines[j][1] = st => more[i][2] < lines[j][2]
    BY <1>2, <2>1 DEF Ordered, k
  <2>3. ASSUME more[i][2] < m PROVE \E j \in i + 1..k + 1 : more[j] = <<st, more[i][2] + 1>>
    <3>1. PICK j \in i + 1..k : lines[j] = <<st, more[i][2] + 1>>
      BY <2>2, <2>3
    <3>2. j \in i + 1..k + 1 /\ j \in 1..k
      BY <1>1, <2>1
    <3> QED BY <1>1, <3>1, <3>2
  <2>4. ASSUME NEW j \in i + 1..k + 1, more[j][1] = st PROVE more[i][2] < more[j][2]
    <3>1. j \in 1..k /\ j \in i + 1..k
      BY <1>1, <2>1, <2>4
    <3> QED BY <1>1, <2>2, <2>4, <3>1
  <2> QED BY <2>2, <2>3, <2>4
<1> QED BY <1>1, <1>2 DEF Ordered, more

Room(lines, st, n) == Len(lines) < Size /\ n # 0 => \E i \in 1..Len(lines) : lines[i] = <<st, 1>>

LEMMA RingParts ==
  ASSUME NEW lines, NEW st, NEW n
  PROVE  InRing(lines, st, n) <=> Ordered(lines, st, n) /\ Room(lines, st, n)
BY Zenon DEF InRing, Ordered, Room

\* LogBuffer::push keeps both streams, and drops a line only when there is no room.
LEMMA PushedRing ==
  ASSUME NEW lines \in Seq(Line), Len(lines) <= Size, NEW st \in Stream, NEW n \in Nat,
         InRing(lines, st, n), NEW t \in Stream, NEW m \in Nat, InRing(lines, t, m), t # st
  PROVE  LET more == Pushed(lines, <<st, n + 1>>) IN
         InRing(more, st, n + 1) /\ InRing(more, t, m)
<1> DEFINE line == <<st, n + 1>>
           more == Pushed(lines, line)
<1>1. line \in Line /\ line[1] = st /\ line[1] # t
  BY DEF Line
<1>2. /\ Ordered(lines, st, n) /\ Ordered(lines, t, m)
      /\ Room(lines, st, n) /\ Room(lines, t, m)
  BY RingParts
<1>3. CASE Len(lines) = Size
  <2>1. lines # <<>>
    BY <1>3, SizeType
  <2>2. Tail(lines) \in Seq(Line) /\ Len(Tail(lines)) = Size - 1
    BY <1>3, <2>1
  <2>3. Ordered(Tail(lines), st, n) /\ Ordered(Tail(lines), t, m)
    BY <1>2, <2>1, TailOrdered
  <2>4. more = Append(Tail(lines), line)
    BY <1>3 DEF Pushed
  <2>5. Ordered(more, st, n + 1)
    BY <2>2, <2>3, <2>4, AppendOrdered
  <2>6. Ordered(more, t, m)
    BY <1>1, <2>2, <2>3, <2>4, AppendBeside
  <2>7. ~(Len(more) < Size)
    BY <1>1, <2>2, <2>4, SizeType
  <2> HIDE DEF more
  <2>8. Room(more, st, n + 1) /\ Room(more, t, m)
    BY <2>7 DEF Room
  <2> QED BY <2>5, <2>6, <2>8, RingParts DEF more
<1>4. CASE Len(lines) # Size
  <2>1. more = Append(lines, line)
    BY <1>4 DEF Pushed
  <2>2. Ordered(more, st, n + 1)
    BY <1>2, <2>1, AppendOrdered
  <2>3. Ordered(more, t, m)
    BY <1>1, <1>2, <2>1, AppendBeside
  <2>7. Len(lines) < Size
    BY <1>4, SizeType
  <2>4. /\ Len(lines) \in Nat
        /\ Len(more) = Len(lines) + 1 /\ more[Len(lines) + 1] = <<st, n + 1>>
        /\ \A i \in 1..Len(lines) : i \in 1..Len(more) /\ more[i] = lines[i]
    <3> HIDE DEF line
    <3>1. /\ Len(more) = Len(lines) + 1 /\ more[Len(lines) + 1] = line
          /\ \A i \in 1..Len(lines) : more[i] = lines[i]
      BY <1>1, <2>1
    <3>2. Len(lines) \in Nat
      OBVIOUS
    <3> HIDE DEF more
    <3>3. \A i \in 1..Len(lines) : i \in 1..Len(more)
      BY <3>1, <3>2
    <3> QED BY <3>1, <3>2, <3>3 DEF line
  <2> HIDE DEF more
  <2>5. \E i \in 1..Len(more) : more[i] = <<st, 1>>
    <3>1. CASE n = 0
      BY <2>4, <3>1
    <3>2. CASE n # 0
      BY <1>2, <2>4, <2>7, <3>2 DEF Room
    <3> QED BY <3>1, <3>2
  <2>6. m # 0 => \E i \in 1..Len(more) : more[i] = <<t, 1>>
    BY <1>2, <2>4, <2>7 DEF Room
  <2>8. Room(more, st, n + 1) /\ Room(more, t, m)
    BY <2>5, <2>6 DEF Room
  <2> QED BY <2>2, <2>3, <2>8, RingParts DEF more
<1> QED BY <1>3, <1>4

\* A stream that is ended is read to its end, or to a line that is not UTF-8.
Whole(s, st) ==
    log[s].ended[st] => \/ log[s].read[st] = Len(written[s][st])
                        \/ ~written[s][st][log[s].read[st] + 1]

Faithful == \A s \in Session, st \in Stream : InRing(log[s].lines, st, log[s].read[st]) /\ Whole(s, st)

LEMMA FaithfulNext ==
  ASSUME \A s \in Session, st \in Stream :
            InRing(log'[s].lines, st, log'[s].read[st]) /\ Whole(s, st)'
  PROVE  Faithful'
BY Zenon DEF Faithful, InRing

LEMMA CaptureFaithful ==
  ASSUME Captured, Faithful, NEW s \in Session, NEW st \in Stream, Capture(s, st)
  PROVE  Faithful'
<1> DEFINE o == log[s]
           n == o.read[st] + 1
           reads == [o.read EXCEPT ![st] = n]
           lines == Pushed(o.lines, <<st, n>>)
           ends == [o.ended EXCEPT ![st] = TRUE]
           kept == [o EXCEPT !.read = reads, !.lines = lines]
           over == [o EXCEPT !.ended = ends]
<1>1. log' = [log EXCEPT ![s] = IF written[s][st][n] THEN kept ELSE over]
  BY DEF Capture
<1>2. o \in Ring /\ Len(o.lines) <= Size
  BY DEF Captured
<1>3. /\ o.read \in [Stream -> Nat] /\ o.ended \in [Stream -> BOOLEAN] /\ o.lines \in Seq(Line)
      /\ n \in Nat /\ ~o.ended[st] /\ written' = written /\ o.read[st] \in Nat
  BY <1>2 DEF Ring, Capture
<1>4. /\ reads[st] = n /\ \A t \in Stream \ {st} : reads[t] = o.read[t]
      /\ ends[st] = TRUE /\ \A t \in Stream \ {st} : ends[t] = o.ended[t]
  BY <1>3
<1>5. \A t \in Stream : InRing(o.lines, t, o.read[t]) /\ Whole(s, t)
  BY DEF Faithful
<1>6. PICK t \in Stream : t # st /\ Stream = {st, t}
  BY DEF Stream
<1>7. InRing(lines, st, n) /\ InRing(lines, t, o.read[t])
  <2>1. o.read[t] \in Nat
    BY <1>3
  <2> QED BY <1>2, <1>3, <1>5, <1>6, <2>1, PushedRing
<1> HIDE DEF reads, lines, ends, o
<1>8. /\ kept.lines = lines /\ kept.read = reads /\ kept.ended = o.ended
      /\ over.lines = o.lines /\ over.read = o.read /\ over.ended = ends
  BY <1>2 DEF Ring
<1> HIDE DEF kept, over, n
<1>9. \A r \in Session \ {s} : log'[r] = log[r]
  BY <1>1 DEF Captured
<1>10. \A r \in Session \ {s}, u \in Stream :
          InRing(log'[r].lines, u, log'[r].read[u]) /\ Whole(r, u)'
  BY <1>3, <1>9 DEF Faithful, Whole
<1>11. CASE written[s][st][n]
  <2>1. log'[s] = kept
    BY <1>1, <1>11 DEF Captured
  <2>2. InRing(log'[s].lines, st, log'[s].read[st]) /\ InRing(log'[s].lines, t, log'[s].read[t])
    BY <1>4, <1>6, <1>7, <1>8, <2>1
  <2>3. ~log'[s].ended[st]
    BY <1>3, <1>8, <2>1
  <2>4. log'[s].ended[t] = log[s].ended[t] /\ log'[s].read[t] = log[s].read[t]
    BY <1>4, <1>6, <1>8, <2>1 DEF o
  <2>5. Whole(s, st)' /\ Whole(s, t)'
    BY <1>3, <1>5, <2>3, <2>4 DEF Whole
  <2> QED BY <1>6, <1>10, <2>2, <2>5, FaithfulNext
<1>12. CASE ~written[s][st][n]
  <2>1. log'[s] = over
    BY <1>1, <1>12 DEF Captured
  <2>2. log'[s].lines = log[s].lines /\ log'[s].read = log[s].read
    BY <1>8, <2>1 DEF o
  <2>3. log'[s].ended[t] = log[s].ended[t]
    BY <1>4, <1>6, <1>8, <2>1 DEF o
  <2>4. Whole(s, st)' /\ Whole(s, t)'
    BY <1>3, <1>5, <1>12, <2>2, <2>3 DEF Whole, n, o
  <2>5. \A u \in Stream : InRing(log'[s].lines, u, log'[s].read[u])
    BY <1>5, <2>2 DEF o
  <2> QED BY <1>6, <1>10, <2>4, <2>5, FaithfulNext
<1> QED BY <1>11, <1>12

LEMMA CaptureEndsFaithful ==
  ASSUME Captured, Faithful, NEW s \in Session, NEW st \in Stream, CaptureEnds(s, st)
  PROVE  Faithful'
<1> DEFINE ends == [log[s].ended EXCEPT ![st] = TRUE]
           over == [log[s] EXCEPT !.ended = ends]
<1>1. log' = [log EXCEPT ![s] = over]
  BY DEF CaptureEnds
<1>2. log[s] \in Ring
  BY DEF Captured
<1>3. log[s].read[st] = Len(written[s][st]) /\ written' = written
  BY DEF CaptureEnds
<1>4. \A t \in Stream \ {st} : ends[t] = log[s].ended[t]
  BY <1>2 DEF Ring
<1> HIDE DEF ends
<1>5. over.lines = log[s].lines /\ over.read = log[s].read /\ over.ended = ends
  BY <1>2 DEF Ring
<1>6. log'[s] = over /\ \A r \in Session \ {s} : log'[r] = log[r]
  BY <1>1 DEF Captured
<1> HIDE DEF over
<1>7. \A r \in Session : log'[r].lines = log[r].lines /\ log'[r].read = log[r].read
  BY <1>5, <1>6
<1>8. \A r \in Session, u \in Stream : r # s \/ u # st => log'[r].ended[u] = log[r].ended[u]
  BY <1>4, <1>5, <1>6
<1>9. \A r \in Session, u \in Stream : Whole(r, u)'
  <2> TAKE r \in Session, u \in Stream
  <2>1. Whole(r, u)
    BY DEF Faithful
  <2>2. CASE r = s /\ u = st
    BY <1>3, <1>7, <2>2 DEF Whole
  <2>3. CASE r # s \/ u # st
    BY <1>3, <1>7, <1>8, <2>1, <2>3 DEF Whole
  <2> QED BY <2>2, <2>3
<1>10. \A r \in Session, u \in Stream : InRing(log'[r].lines, u, log'[r].read[u])
  BY <1>7 DEF Faithful
<1> QED BY <1>9, <1>10, FaithfulNext

LEMMA WriteFaithful ==
  ASSUME Captured, Faithful, NEW s \in Session, NEW st \in Stream, Write(s, st)
  PROVE  Faithful'
<1>1. PICK utf8 \in BOOLEAN :
        written' = [written EXCEPT ![s][st] = Append(written[s][st], utf8)]
  BY DEF Write
<1>2. log' = log /\ ~log[s].ended[st]
  BY DEF Write
<1>3. \A r \in Session, u \in Stream : r # s \/ u # st => written'[r][u] = written[r][u]
  BY <1>1 DEF Captured
<1>4. \A r \in Session, u \in Stream : Whole(r, u)'
  BY <1>2, <1>3 DEF Faithful, Whole
<1> QED BY <1>2, <1>4, FaithfulNext DEF Faithful

LEMMA StepFaithful ==
  ASSUME Captured, Faithful, [Next]_vars
  PROVE  Faithful'
<1>1. ASSUME UNCHANGED <<written, log>> PROVE Faithful'
  BY <1>1, FaithfulNext DEF Faithful, Whole
<1>2. ASSUME NEW s \in Session,
             \/ Spawn(s) \/ SetGroup(s) \/ Exec(s) \/ SpawnFails(s) \/ Adopt(s) \/ AdoptFails(s)
             \/ List(s) \/ Stop(s)
      PROVE  UNCHANGED <<written, log>>
  BY <1>2 DEF Spawn, SetGroup, Exec, SpawnFails, Adopt, AdoptFails, List, Stop
<1>3. ASSUME NEW p \in Pid, Fork(p) \/ Start(p) \/ Exit(p) PROVE UNCHANGED <<written, log>>
  BY <1>3 DEF Fork, Start, Exit
<1>4. CASE DaemonDies \/ Restart \/ UNCHANGED vars
  BY <1>1, <1>4 DEF DaemonDies, Restart, vars
<1> QED
  BY <1>1, <1>2, <1>3, <1>4, CaptureFaithful, CaptureEndsFaithful, WriteFaithful DEF Next

\* What is shown of a game's output is the last of what it wrote, line by line and of
\* both streams, and nothing of it is lost when the game ends (capture, LogBuffer).
THEOREM LogsFaithful == Spec => []LogFaithful
<1>1. Init => Faithful
  <2> SUFFICES ASSUME Init, NEW s \in Session, NEW st \in Stream
               PROVE  InRing(log[s].lines, st, log[s].read[st]) /\ Whole(s, st)
    BY DEF Faithful
  <2>1. log[s] = NoLog
    BY DEF Init
  <2>2. log[s].lines = <<>> /\ log[s].read[st] = 0 /\ ~log[s].ended[st]
    BY <2>1 DEF NoLog
  <2> QED BY <2>2 DEF InRing, Whole
<1>2. Captured /\ Faithful /\ [Next]_vars => Captured' /\ Faithful'
  BY StepCaptured, StepFaithful
<1>3. Faithful => LogFaithful
  BY DEF Faithful, LogFaithful, Whole
<1> QED BY <1>1, <1>2, <1>3, StartCaptured, PTL DEF Spec

==============================================================================
