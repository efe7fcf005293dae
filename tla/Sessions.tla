------------------------------ MODULE Sessions ------------------------------
(***************************************************************************)
(* Launched games: Session::spawn with the process guard of the platform,  *)
(* the map of sessions the daemon keeps, launch.stop, the capture of       *)
(* output in a ring of lines, games that fork, and a daemon that dies.     *)
(*                                                                         *)
(* Pids are taken from a small set, by games and by programs that have     *)
(* nothing to do with Acelus.  A child the daemon has not waited for keeps *)
(* its pid when it ends (on Windows, because its handle is open), and so   *)
(* does a process group that still has members.                            *)
(***************************************************************************)
EXTENDS Naturals, Sequences

CONSTANTS
    Session,    \* launches, each with an id of its own
    Pid,
    Other,      \* who owns a process that is no game
    None,       \* no pid; the process group of the daemon
    Platforms,  \* where the daemon may run
    Capacity,   \* of LogBuffer, as requested
    MaxLines    \* bound: lines the game of a session writes to each of its streams

ASSUME SessionsAssumption ==
    /\ Platforms \subseteq {"linux", "macos", "windows"} /\ Platforms # {}
    /\ Capacity \in Nat /\ MaxLines \in [Session -> [{"stdout", "stderr"} -> Nat]]
    /\ Other \notin Session /\ None \notin Pid

Stream == {"stdout", "stderr"}

VARIABLES
    platform,  \* builtin.os.tag
    up,        \* the daemon runs
    proc,      \* the processes of the machine
    session,   \* launches and the sessions they made
    stopped,   \* history: sessions for which launch.stop was answered
    written,   \* lines of each stream; FALSE for one that is not UTF-8
    log        \* what is read of each stream, and the ring

vars == <<platform, up, proc, session, stopped, written, log>>

Process ==
    [status   : {"free", "running", "zombie"},
     owner    : Session \cup {Other, None},
     child    : BOOLEAN,             \* spawned by the daemon, not by the game
     group    : Pid \cup {None},     \* process group
     deathsig : BOOLEAN,             \* PR_SET_PDEATHSIG
     job      : BOOLEAN,             \* in the job object of its session
     term     : BOOLEAN]             \* SIGTERM was sent to it

\* Where launch_start is; "failed" also stands for a child nobody waits for.
Pc == {"none", "forked", "grouped", "spawned", "adopted", "listed", "failed"}

State == [pc : Pc, pid : Pid \cup {None}, daemon : BOOLEAN]

Free == [status |-> "free", owner |-> None, child |-> FALSE, group |-> None,
         deathsig |-> FALSE, job |-> FALSE, term |-> FALSE]

NoLog == [read |-> [st \in Stream |-> 0], ended |-> [st \in Stream |-> FALSE], lines |-> <<>>]

\* LogBuffer::new.
Size == IF Capacity = 0 THEN 1 ELSE Capacity

Line == Stream \X Nat

TypeOK ==
    /\ platform \in Platforms
    /\ up \in BOOLEAN
    /\ proc \in [Pid -> Process]
    /\ session \in [Session -> State]
    /\ stopped \subseteq Session
    /\ written \in [Session -> [Stream -> Seq(BOOLEAN)]]
    /\ \A s \in Session :
        /\ log[s].read \in [Stream -> Nat] /\ log[s].ended \in [Stream -> BOOLEAN]
        /\ log[s].lines \in Seq(Line) /\ Len(log[s].lines) <= Size

Init ==
    /\ platform \in Platforms
    /\ up = TRUE
    /\ proc = [p \in Pid |-> Free]
    /\ session = [s \in Session |-> [pc |-> "none", pid |-> None, daemon |-> TRUE]]
    /\ stopped = {}
    /\ written = [s \in Session |-> [st \in Stream |-> <<>>]]
    /\ log = [s \in Session |-> NoLog]

------------------------------------------------------------------------------
(* Helpers *)

Running(p) == proc[p].status = "running"

\* A pid the kernel may give out: nobody has it, as a process or as a group.
Available(p) == proc[p].status = "free" /\ \A q \in Pid : proc[q].group # p

\* The daemon that made session s still runs, and s is past the given steps.
At(s, pcs) == session[s].daemon /\ session[s].pc \in pcs

Goto(s, pc) == session' = [session EXCEPT ![s].pc = pc]

\* The game has been executed.
Played(s) == session[s].pc \in {"spawned", "adopted", "listed"} \/
             (session[s].pc = "failed" /\ platform = "windows")

\* Fault: something waits for the child in the background.
LeftReaped(p) == Free

\* What is left of process p when it ends.  The daemon does not wait for the
\* games it keeps a Child of; tokio waits for one that was dropped.
Left(p) ==
    IF /\ proc[p].child
       /\ \E s \in Session : session[s].pid = p /\ s = proc[p].owner
                                /\ session[s].daemon /\ session[s].pc # "failed"
    THEN [Free EXCEPT !.status = "zombie", !.owner = proc[p].owner, !.child = TRUE,
                      !.group = proc[p].group]
    ELSE Free

------------------------------------------------------------------------------
(* Session::spawn *)

\* Command::spawn: a fork on POSIX, on Windows a process that runs at once.
Spawn(s) ==
    /\ up /\ At(s, {"none"})
    /\ \E p \in Pid :
        /\ Available(p)
        /\ proc' = [proc EXCEPT ![p] = [Free EXCEPT !.status = "running", !.owner = s,
                                                   !.child = TRUE]]
        /\ session' = [session EXCEPT ![s] =
                         [pc |-> IF platform = "windows" THEN "spawned" ELSE "forked",
                          pid |-> p, daemon |-> TRUE]]
    /\ UNCHANGED <<platform, up, stopped, written, log>>

\* Fault: the child stays in the group of the daemon.
SetGroupSkipped(s) ==
    /\ session[s].pc = "forked"
    /\ Goto(s, "grouped")
    /\ UNCHANGED <<platform, up, proc, stopped, written, log>>

\* prepareChild, in the child, which goes on if the daemon dies meanwhile.
SetGroup(s) ==
    /\ session[s].pc = "forked"
    /\ proc' = [proc EXCEPT ![session[s].pid].group = session[s].pid]
    /\ Goto(s, "grouped")
    /\ UNCHANGED <<platform, up, stopped, written, log>>

\* Fault: nothing asks for a signal at the daemon's death.
ExecPlain(s) ==
    /\ session[s].pc = "grouped"
    /\ Goto(s, "spawned")
    /\ UNCHANGED <<platform, up, proc, stopped, written, log>>

\* prctl on Linux, then exec.
Exec(s) ==
    /\ session[s].pc = "grouped"
    /\ proc' = [proc EXCEPT ![session[s].pid].deathsig = (platform = "linux")]
    /\ Goto(s, "spawned")
    /\ UNCHANGED <<platform, up, stopped, written, log>>

\* setpgid, prctl or exec fails: spawn waits for the child and reports it.
SpawnFails(s) ==
    /\ At(s, {"forked", "grouped"})
    /\ proc' = [proc EXCEPT ![session[s].pid] = Free]
    /\ session' = [session EXCEPT ![s].pc = "failed", ![s].pid = None]
    /\ UNCHANGED <<platform, up, stopped, written, log>>

\* procguard_create and procguard_adopt: the pid is the handle on POSIX; on
\* Windows the process enters a job if it has not ended.  Then output is read.
Adopt(s) ==
    /\ At(s, {"spawned"})
    /\ platform = "windows" => Running(session[s].pid)
    /\ proc' = [proc EXCEPT ![session[s].pid].job = (platform = "windows")]
    /\ Goto(s, "adopted")
    /\ UNCHANGED <<platform, up, stopped, written, log>>

\* The error is returned, and the game keeps running: kill_on_drop is off.
AdoptFails(s) ==
    /\ At(s, {"spawned"})
    /\ platform = "windows"
    /\ proc' = [proc EXCEPT ![session[s].pid] = IF Running(session[s].pid) THEN @ ELSE Free]
    /\ Goto(s, "failed")
    /\ UNCHANGED <<platform, up, stopped, written, log>>

\* launch_start enters the session in the map, for good, and answers.
List(s) ==
    /\ At(s, {"adopted"})
    /\ Goto(s, "listed")
    /\ UNCHANGED <<platform, up, proc, stopped, written, log>>

------------------------------------------------------------------------------
(* The machine *)

\* A game forks: the new process is in the same group and the same job; the
\* signal at the daemon's death is not inherited.
Fork(p) ==
    /\ Running(p) /\ proc[p].owner \in Session /\ Played(proc[p].owner)
    /\ \E q \in Pid :
        /\ Available(q)
        /\ proc' = [proc EXCEPT ![q] = [Free EXCEPT !.status = "running", !.owner = proc[p].owner,
                                                   !.group = proc[p].group, !.job = proc[p].job]]
    /\ UNCHANGED <<platform, up, session, stopped, written, log>>

\* A program starts, the leader of a group of its own.
Start(p) ==
    /\ Available(p)
    /\ proc' = [proc EXCEPT ![p] = [Free EXCEPT !.status = "running", !.owner = Other, !.group = p]]
    /\ UNCHANGED <<platform, up, session, stopped, written, log>>

Exit(p) ==
    /\ Running(p)
    /\ proc[p].owner \in Session => Played(proc[p].owner)
    /\ proc' = [proc EXCEPT ![p] = Left(p)]
    /\ UNCHANGED <<platform, up, session, stopped, written, log>>

\* The game is killed (Linux) or its job closed (Windows); init waits for what is
\* left.  The map and the rings are gone.
DaemonDies ==
    /\ up
    /\ up' = FALSE
    /\ proc' = [p \in Pid |-> IF ~Running(p) \/ proc[p].deathsig \/ proc[p].job
                              THEN Free ELSE proc[p]]
    /\ session' = [s \in Session |-> [session[s] EXCEPT !.daemon = (session[s].pc = "none")]]
    /\ UNCHANGED <<platform, stopped, written, log>>

Restart ==
    /\ ~up
    /\ up' = TRUE
    /\ UNCHANGED <<platform, proc, session, stopped, written, log>>

------------------------------------------------------------------------------
(* launch.stop *)

\* Whom kill(-pid) or TerminateJobObject reaches.
Reached(s, p) ==
    /\ Running(p)
    /\ IF platform = "windows" THEN proc[p].job /\ proc[p].owner = s
       ELSE proc[p].group = session[s].pid

\* SIGTERM, which a game may take its time to obey; a group that is gone counts as
\* stopped.  On Windows the processes of the job end.
Stop(s) ==
    /\ At(s, {"listed"})
    /\ proc' = [p \in Pid |-> IF ~Reached(s, p) THEN proc[p]
                              ELSE IF platform = "windows" THEN Left(p)
                              ELSE [proc[p] EXCEPT !.term = TRUE]]
    /\ stopped' = stopped \cup {s}
    /\ UNCHANGED <<platform, up, session, written, log>>

------------------------------------------------------------------------------
(* Output *)

\* A process of the game writes a line, if anybody still reads.
Write(s, st) ==
    /\ \E p \in Pid : Running(p) /\ proc[p].owner = s /\ Played(s)
    /\ session[s].daemon /\ session[s].pc # "failed" /\ ~log[s].ended[st]
    /\ Len(written[s][st]) < MaxLines[s][st]
    /\ \E utf8 \in BOOLEAN :
        written' = [written EXCEPT ![s][st] = Append(written[s][st], utf8)]
    /\ UNCHANGED <<platform, up, proc, session, stopped, log>>

\* Fault: room is made a line too late.
PushedLate(lines, line) ==
    Append(IF Len(lines) > Size THEN Tail(lines) ELSE lines, line)

\* LogBuffer::push.
Pushed(lines, line) ==
    Append(IF Len(lines) = Size THEN Tail(lines) ELSE lines, line)

\* capture: the next line of a stream is kept; one that is not UTF-8 ends it.
Capture(s, st) ==
    /\ At(s, {"adopted", "listed"})
    /\ ~log[s].ended[st] /\ log[s].read[st] < Len(written[s][st])
    /\ LET n == log[s].read[st] + 1 IN
        log' = [log EXCEPT ![s] =
                  IF written[s][st][n]
                  THEN [log[s] EXCEPT !.read[st] = n,
                                      !.lines = Pushed(log[s].lines, <<st, n>>)]
                  ELSE [log[s] EXCEPT !.ended[st] = TRUE]]
    /\ UNCHANGED <<platform, up, proc, session, stopped, written>>

\* Fault: the log is closed with the game, whatever it left in the pipe or running.
CaptureEndsWithChild(s, st) ==
    /\ At(s, {"adopted", "listed"})
    /\ ~log[s].ended[st]
    /\ ~Running(session[s].pid)
    /\ log' = [log EXCEPT ![s].ended[st] = TRUE]
    /\ UNCHANGED <<platform, up, proc, session, stopped, written>>

\* The end of the stream: everything is read and nobody has it open for writing.
CaptureEnds(s, st) ==
    /\ At(s, {"adopted", "listed"})
    /\ ~log[s].ended[st] /\ log[s].read[st] = Len(written[s][st])
    /\ \A p \in Pid : Running(p) => proc[p].owner # s
    /\ log' = [log EXCEPT ![s].ended[st] = TRUE]
    /\ UNCHANGED <<platform, up, proc, session, stopped, written>>

Next ==
    \/ \E s \in Session :
        \/ Spawn(s) \/ SetGroup(s) \/ Exec(s) \/ SpawnFails(s) \/ Adopt(s) \/ AdoptFails(s)
        \/ List(s) \/ Stop(s)
        \/ \E st \in Stream : Write(s, st) \/ Capture(s, st) \/ CaptureEnds(s, st)
    \/ \E p \in Pid : Fork(p) \/ Start(p) \/ Exit(p)
    \/ DaemonDies \/ Restart

Spec == Init /\ [][Next]_vars

------------------------------------------------------------------------------
(* Properties *)

\* A stop signals nobody but the processes of sessions that were to be stopped,
\* however pids are used again: the guard's pid still names the game, because
\* nothing waits for the child while its session is kept.
SignalsItsOwn == \A p \in Pid : proc[p].term => proc[p].owner \in stopped

\* schema/rpc.json:193: launch.stop is to terminate "a running session and every
\* process it spawned".  Where processes have groups it signals each of them.
StopReaches ==
    [][\A s \in Session :
         s \in stopped' \ stopped /\ platform # "windows" =>
            \A p \in Pid : Running(p) /\ proc[p].owner = s => proc'[p].term]_vars

\* Once a launch was answered its game does not outlive the daemon, where the
\* platform has a means for it; the game's own children may, on Linux.
GuardedEnds ==
    \A s \in Session :
        session[s].pc = "listed" /\ ~session[s].daemon /\ platform # "macos" =>
            \A p \in Pid : proc[p].owner = s => ~proc[p].child

\* The lines of stream st in a ring, the last of which that was read is the n-th:
\* they are in order, the one after each is behind it up to the n-th, and while the
\* ring has room the first is still there.
InRing(lines, st, n) ==
    /\ \A i \in 1..Len(lines) : lines[i][1] = st =>
          /\ lines[i][2] <= n
          /\ lines[i][2] < n => \E j \in i + 1..Len(lines) : lines[j] = <<st, lines[i][2] + 1>>
          /\ \A j \in i + 1..Len(lines) : lines[j][1] = st => lines[i][2] < lines[j][2]
    /\ Len(lines) < Size /\ n # 0 => \E i \in 1..Len(lines) : lines[i] = <<st, 1>>

\* Of each stream the ring holds the lines read last, without a gap and in order; and
\* what was captured to its end is whole, unless it held a line that is not UTF-8:
\* nothing is lost with the end of the game.
LogFaithful ==
    \A s \in Session, st \in Stream :
        /\ InRing(log[s].lines, st, log[s].read[st])
        /\ log[s].ended[st] /\ session[s].daemon =>
              \/ log[s].read[st] = Len(written[s][st])
              \/ ~written[s][st][log[s].read[st] + 1]
==============================================================================
