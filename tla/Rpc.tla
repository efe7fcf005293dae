--------------------------------- MODULE Rpc ---------------------------------
(***************************************************************************)
(* One connection to the daemon.  serve_connection reads a line, lets the  *)
(* handler work, queues the reply and reads the next; a task of its own    *)
(* writes what is queued, replies and notifications alike, so that a       *)
(* sign-in that goes on in the background can still be heard of.           *)
(*                                                                         *)
(* The client is one of three: the desktop window, whose calls overlap and *)
(* wait in a map for their replies; the command line, which makes a call,  *)
(* then waits for the notification that ends it; or any program that       *)
(* writes lines to the socket.  Either end may go away at any time.        *)
(***************************************************************************)
EXTENDS Login, Sequences, FiniteSets

CONSTANTS
    Call,      \* calls of the client, by their ids
    SignIn,    \* the one that is account.beginLogin
    Null,      \* the id of a reply to a line that could not be read
    NoLine,    \* the server is between two lines
    Clients,   \* kinds of clients
    MaxOdd     \* bound: lines any program sends

ASSUME RpcAssumption ==
    /\ Clients \subseteq {"desktop", "cli", "any"} /\ Clients # {}
    /\ Job # {}
    /\ SignIn \in Call /\ Null \notin Call
    /\ {NoLine, "notification", "malformed", "blank", "unreadable", "stopped"} \cap Call = {}
    /\ NoLine \notin {"notification", "malformed", "blank", "unreadable", "stopped"}
    /\ MaxOdd \in Nat

VARIABLES
    client,    \* which it is
    call,      \* what has become of each call
    pending,   \* Client::pending: calls that wait for a reply
    writer,    \* Client::writer is Some
    reader,    \* of the desktop: the task that reads
    await,     \* of the command line: Client.Await
    open,      \* both ends are there
    daemon,    \* the daemon runs
    lines,     \* sent to the daemon and not read
    serving,   \* the line the handler works on; "stopped" once no more are read
    progress,  \* it has sent a notification
    queue,     \* the outbound channel
    pump,      \* the task that writes it goes on
    frames,    \* sent to the client and not read
    read,      \* history: lines the server took that ask for a reply
    got,       \* history: frames the client took
    odd        \* lines any program has sent

cvars == <<client, call, pending, writer, reader, await, odd>>
svars == <<serving, progress, queue, pump>>
vars == <<lvars, cvars, svars, open, daemon, lines, frames, read, got>>

TheJob == CHOOSE j \in Job : TRUE

\* Requests with an id, and lines of other programs: Request::is_notification,
\* what decode refuses, blanks, and what is not UTF-8.
Odd == {"notification", "malformed", "blank", "unreadable"}
Line == Call \cup Odd

\* Response::success and failure carry an id, a Notification has none.
Reply(id) == <<"reply", id>>
Event(name) == <<"event", name>>
Frame == {Reply(id) : id \in Call \cup {Null}} \cup {Event(name) : name \in {"progress", "loginComplete"}}

TypeOK ==
    /\ LoginTypeOK
    /\ client \in Clients \cup {"gone"}
    /\ call \in [Call -> {"idle", "insert", "write", "waiting", "answered", "disconnected"}]
    /\ pending \subseteq Call
    /\ reader \in {"reading", "clear", "drain", "gone"}
    /\ await \in {"no", "waiting", "told", "ended"}
    /\ {writer, open, daemon, progress, pump} \subseteq BOOLEAN
    /\ odd \in 0..MaxOdd
    /\ lines \in Seq(Line) /\ serving \in Line \cup {NoLine, "stopped"}
    /\ {queue, frames, got} \subseteq Seq(Frame)
    /\ read \in Seq(Call \cup {Null})

Init ==
    /\ LoginInit
    /\ client \in Clients
    /\ call = [k \in Call |-> "idle"]
    /\ pending = {}
    /\ writer = TRUE /\ reader = "reading" /\ await = "no" /\ odd = 0
    /\ open = TRUE /\ daemon = TRUE
    /\ lines = <<>> /\ serving = NoLine /\ progress = FALSE
    /\ queue = <<>> /\ pump = TRUE /\ frames = <<>>
    /\ read = <<>> /\ got = <<>>

------------------------------------------------------------------------------
(* The server *)

\* UnboundedSender::send: nothing arrives once the receiver is dropped.
Queued(frame) == IF pump THEN Append(queue, frame) ELSE queue

\* A line that cannot be decoded is answered, one that is not UTF-8 ends the reading
\* (next_line is an error).
ReadLine ==
    /\ daemon /\ serving = NoLine /\ lines # <<>>
    /\ lines' = Tail(lines)
    /\ serving' = CASE Head(lines) \in Call \cup {"notification"} -> Head(lines)
                    [] Head(lines) = "unreadable" -> "stopped"
                    [] OTHER -> NoLine
    /\ queue' = IF Head(lines) = "malformed" THEN Queued(Reply(Null)) ELSE queue
    /\ read' = CASE Head(lines) \in Call -> Append(read, Head(lines))
                 [] Head(lines) = "malformed" -> Append(read, Null)
                 [] OTHER -> read
    /\ UNCHANGED <<lvars, cvars, open, daemon, progress, pump, frames, got>>

\* A handler is at work.
Serving == daemon /\ serving \in Call \cup {"notification"}

\* Notifier::notify, from a handler that takes long.
Notify ==
    /\ Serving /\ ~progress
    /\ queue' = Queued(Event("progress"))
    /\ progress' = TRUE
    /\ UNCHANGED <<lvars, cvars, open, daemon, lines, serving, pump, frames, read, got>>

\* Fault: a line without an id is answered too.
HandledAnyway ==
    /\ Serving
    /\ \/ serving = SignIn /\ BeginDeviceCode(TheJob)
       \/ UNCHANGED lvars
    /\ queue' = Queued(Reply(IF serving \in Call THEN serving ELSE Null))
    /\ serving' = NoLine /\ progress' = FALSE
    /\ UNCHANGED <<cvars, open, daemon, lines, pump, frames, read, got>>

\* The handler returns and the reply is queued, an error like a result; a line
\* without an id gets none.  A reply that cannot be queued any more ends the reading.
\* account_begin_login starts its task, which waits a second before it does anything.
Handled ==
    /\ Serving
    /\ \/ serving = SignIn /\ BeginDeviceCode(TheJob)
       \/ UNCHANGED lvars
    /\ queue' = IF serving \in Call THEN Queued(Reply(serving)) ELSE queue
    /\ serving' = IF serving \in Call /\ ~pump THEN "stopped" ELSE NoLine
    /\ progress' = FALSE
    /\ UNCHANGED <<cvars, open, daemon, lines, pump, frames, read, got>>

\* Fault: only a sign-in that worked is told.
SignInTellsSuccess ==
    /\ daemon
    /\ LoginStep(TheJob)
    /\ queue' = IF saved' # saved THEN Queued(Event("loginComplete")) ELSE queue
    /\ UNCHANGED <<cvars, open, daemon, lines, serving, progress, pump, frames, read, got>>

\* The background task goes on, whether anybody listens or not; when it is over
\* it says so, once, to the connection that began it.
SignInGoesOn ==
    /\ daemon
    /\ LoginStep(TheJob)
    /\ queue' = IF job'[TheJob].pc = "done" THEN Queued(Event("loginComplete")) ELSE queue
    /\ UNCHANGED <<cvars, open, daemon, lines, serving, progress, pump, frames, read, got>>

\* Launches, of this client or of others, renew a session or take the one that is
\* stored; whoever asked is told in the reply.
Launches(j) ==
    /\ daemon
    /\ \/ j # TheJob /\ (BeginRenewal(j) \/ LoginStep(j))
       \/ UseStored(j)
    /\ UNCHANGED <<cvars, svars, open, daemon, lines, frames, read, got>>

\* The pump writes a frame, or finds that nobody is there any more and ends.
Pump ==
    /\ daemon /\ pump /\ queue # <<>>
    /\ IF open THEN frames' = Append(frames, Head(queue)) /\ queue' = Tail(queue) /\ UNCHANGED pump
       ELSE pump' = FALSE /\ queue' = <<>> /\ UNCHANGED frames
    /\ UNCHANGED <<lvars, cvars, open, daemon, lines, serving, progress, read, got>>

\* Once nothing is read any more, what is queued is still written, until nobody is left
\* who could queue more: a sign-in that waits keeps its Notifier.  Then the stream goes.
ConnectionEnds ==
    /\ daemon /\ open /\ serving = "stopped"
    /\ queue = <<>> /\ job[TheJob].pc \in {"none", "done"}
    /\ open' = FALSE /\ pump' = FALSE
    /\ lines' = <<>>
    /\ UNCHANGED <<lvars, cvars, daemon, serving, progress, queue, frames, read, got>>

\* The daemon ends: what it has written may still be read by the client, or not.
DaemonDies ==
    /\ daemon
    /\ daemon' = FALSE /\ open' = FALSE
    /\ frames' \in {frames, <<>>}
    /\ lines' = <<>>
    /\ UNCHANGED <<lvars, cvars, svars, read, got>>

------------------------------------------------------------------------------
(* The desktop: Client::call, and the task that connect spawns *)

Become(k, pc) == call' = [call EXCEPT ![k] = pc]

\* Calls of the window, at any time.
Ask(k) ==
    /\ client = "desktop" /\ call[k] = "idle"
    /\ Become(k, "insert")
    /\ UNCHANGED <<lvars, svars, client, pending, writer, reader, await, odd, open, daemon,
                   lines, frames, read, got>>

Insert(k) ==
    /\ client = "desktop" /\ call[k] = "insert"
    /\ pending' = pending \cup {k}
    /\ Become(k, "write")
    /\ UNCHANGED <<lvars, svars, client, writer, reader, await, odd, open, daemon, lines,
                   frames, read, got>>

\* Without a writer the call ends, and its entry in the map stays.  Writing to a
\* socket whose other end is gone fails, or is not noticed.
WriteCall(k) ==
    /\ client = "desktop" /\ call[k] = "write"
    /\ \/ ~writer /\ Become(k, "disconnected") /\ UNCHANGED <<pending, lines>>
       \/ /\ writer /\ ~open
          /\ Become(k, "disconnected") /\ pending' = pending \ {k} /\ UNCHANGED lines
       \/ /\ writer
          /\ Become(k, "waiting") /\ lines' = IF open THEN Append(lines, k) ELSE lines
          /\ UNCHANGED pending
    /\ UNCHANGED <<lvars, svars, client, writer, reader, await, odd, open, daemon, frames,
                   read, got>>

\* A frame: a reply goes to the call in the map, a notification to the window.
TakeFrame ==
    /\ client = "desktop" /\ reader = "reading" /\ frames # <<>>
    /\ LET answered == {k \in pending : Head(frames) = Reply(k)} IN
        /\ pending' = pending \ answered
        /\ call' = [k \in Call |-> IF k \in answered THEN "answered" ELSE call[k]]
    /\ frames' = Tail(frames)
    /\ got' = Append(got, Head(frames))
    /\ UNCHANGED <<lvars, svars, client, writer, reader, await, odd, open, daemon, lines, read>>

\* The stream ends: first the writer goes, then whoever waits is told.
ReaderEnds ==
    /\ client = "desktop" /\ reader = "reading" /\ frames = <<>> /\ ~open
    /\ reader' = "clear"
    /\ UNCHANGED <<lvars, svars, client, call, pending, writer, await, odd, open, daemon,
                   lines, frames, read, got>>

\* Fault: the writer is kept.
ClearWriterSkipped ==
    /\ client = "desktop" /\ reader = "clear"
    /\ reader' = "drain"
    /\ UNCHANGED <<lvars, svars, client, call, pending, writer, await, odd, open, daemon,
                   lines, frames, read, got>>

ClearWriter ==
    /\ client = "desktop" /\ reader = "clear"
    /\ writer' = FALSE
    /\ reader' = "drain"
    /\ UNCHANGED <<lvars, svars, client, call, pending, await, odd, open, daemon, lines,
                   frames, read, got>>

\* A call that is in the map and has not written yet finds the writer gone.
Drain ==
    /\ client = "desktop" /\ reader = "drain"
    /\ call' = [k \in Call |-> IF k \in pending /\ call[k] = "waiting" THEN "disconnected"
                               ELSE call[k]]
    /\ pending' = {}
    /\ reader' = "gone"
    /\ UNCHANGED <<lvars, svars, client, writer, await, odd, open, daemon, lines, frames,
                   read, got>>

------------------------------------------------------------------------------
(* The command line: Call and Await, for acelus login *)

CliCall ==
    /\ client = "cli" /\ call[SignIn] = "idle"
    /\ \/ Become(SignIn, "waiting") /\ lines' = IF open THEN Append(lines, SignIn) ELSE lines
       \/ ~open /\ Become(SignIn, "disconnected") /\ UNCHANGED lines
    /\ UNCHANGED <<lvars, svars, client, pending, writer, reader, await, odd, open, daemon,
                   frames, read, got>>

\* Until the reply comes notifications are dropped.  A reply that is an error ends
\* the command (it is one if no sign-in has begun).
CliReply ==
    /\ client = "cli" /\ call[SignIn] = "waiting" /\ frames # <<>>
    /\ IF Head(frames) = Reply(SignIn)
       THEN /\ Become(SignIn, "answered")
            /\ await' = IF job[TheJob].pc = "none" THEN "ended" ELSE "waiting"
       ELSE UNCHANGED <<call, await>>
    /\ frames' = Tail(frames)
    /\ got' = Append(got, Head(frames))
    /\ UNCHANGED <<lvars, svars, client, pending, writer, reader, odd, open, daemon, lines, read>>

CliAwait ==
    /\ client = "cli" /\ await = "waiting" /\ frames # <<>>
    /\ await' = IF Head(frames) = Event("loginComplete") THEN "told" ELSE await
    /\ frames' = Tail(frames)
    /\ got' = Append(got, Head(frames))
    /\ UNCHANGED <<lvars, svars, client, call, pending, writer, reader, odd, open, daemon,
                   lines, read>>

CliEnds ==
    /\ client = "cli" /\ frames = <<>> /\ ~open
    /\ \/ call[SignIn] = "waiting" /\ Become(SignIn, "disconnected") /\ UNCHANGED await
       \/ await = "waiting" /\ await' = "ended" /\ UNCHANGED call
    /\ UNCHANGED <<lvars, svars, client, pending, writer, reader, odd, open, daemon, lines,
                   frames, read, got>>

------------------------------------------------------------------------------
(* Other programs, and clients that leave *)

AnyLine ==
    /\ client = "any" /\ open /\ odd < MaxOdd
    /\ odd' = odd + 1
    /\ \E line \in Line \ {SignIn} : lines' = Append(lines, line)
    /\ UNCHANGED <<lvars, svars, client, call, pending, writer, reader, await, open, daemon,
                   frames, read, got>>

AnyFrame ==
    /\ client = "any" /\ frames # <<>>
    /\ frames' = Tail(frames)
    /\ got' = Append(got, Head(frames))
    /\ UNCHANGED <<lvars, svars, cvars, open, daemon, lines, read>>

\* The window is closed, the command interrupted: lines on the way arrive or not.
Quit ==
    /\ client # "gone"
    /\ client' = "gone" /\ open' = FALSE
    /\ call' = [k \in Call |-> "idle"] /\ pending' = {} /\ await' = "no" /\ frames' = <<>>
    /\ lines' \in {lines, <<>>}
    /\ UNCHANGED <<lvars, svars, writer, reader, odd, daemon, read, got>>

Server == ReadLine \/ Handled \/ Pump \/ ConnectionEnds
DesktopTask == TakeFrame \/ ReaderEnds \/ ClearWriter \/ Drain
Cli == CliReply \/ CliAwait \/ CliEnds

Next ==
    \/ Server \/ Notify \/ DaemonDies \/ DesktopTask \/ CliCall \/ Cli \/ AnyLine \/ AnyFrame \/ Quit
    \/ SignInGoesOn
    \/ \E j \in Job : Launches(j)
    \/ \E k \in Call : Ask(k) \/ Insert(k) \/ WriteCall(k)

Spec == Init /\ [][Next]_vars

\* Tasks are scheduled, handlers return, and the services the sign-in asks answer
\* or time out.  Nothing makes a client ask, a program write or read, or an end go.
Fairness ==
    /\ WF_vars(ReadLine) /\ WF_vars(Handled) /\ WF_vars(Pump) /\ WF_vars(ConnectionEnds)
    /\ WF_vars(DesktopTask) /\ WF_vars(Cli)
    /\ WF_vars(SignInGoesOn)

FairSpec == Spec /\ Fairness

------------------------------------------------------------------------------
(* Properties *)

IsReply(frame) == frame[1] = "reply"

\* What the connection has been sent, read by the client or not, in its order.
Sent == got \o frames \o queue

\* How many of the first n frames are replies; how many lines are answered.
RepliesAmong(n) == Cardinality({i \in 1..n : IsReply(Sent[i])})
Answered == Len(read) - (IF serving \in Call THEN 1 ELSE 0)

\* A connection answers in the order it was asked: whatever notifications come
\* between, each line that asks for a reply has exactly one, and none that does
\* not.  An end that goes cuts the replies off, it never skips one.
RepliesInOrder ==
    open /\ daemon =>
        /\ RepliesAmong(Len(Sent)) = Answered
        /\ \A n \in 1..Len(Sent) : IsReply(Sent[n]) => Sent[n] = Reply(read[RepliesAmong(n)])

\* schema/rpc.json:229: the end of a sign-in is told exactly once, whichever way it
\* came to it, and not before, as long as the connection that began it is there.
EndIsTold ==
    open /\ daemon =>
        Cardinality({n \in 1..Len(Sent) : Sent[n] = Event("loginComplete")})
            = (IF job[TheJob].pc = "done" THEN 1 ELSE 0)

\* Nobody waits for ever: a call is answered or told that the connection ended,
\* however its steps meet those of the task that reads; and the command line hears
\* how the sign-in ended, because a code that nobody approves expires.
WaitsEnd ==
    /\ \A k \in Call : call[k] = "waiting" ~> call[k] # "waiting"
    /\ await = "waiting" ~> await # "waiting"
==============================================================================
