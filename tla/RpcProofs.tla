------------------------------ MODULE RpcProofs ------------------------------
(***************************************************************************)
(* What holds of a connection and of the sign-in it began, for any calls,  *)
(* lines and clients, however long the connection lasts, and of the chain  *)
(* of services behind it, entered with a code or with a refresh token.     *)
(***************************************************************************)
EXTENDS Rpc, SequenceTheorems, FiniteSetTheorems, TLAPS

------------------------------------------------------------------------------
(* The sign-in and the renewal *)

\* Every error has a code of its own.
LEMMA CodesTyped ==
    /\ \A problem \in PollProblem \cup CheckProblem \cup {"404"} : HttpCode(problem) \in Code
    /\ XboxCodes \subseteq Code
    /\ \A fact : Verify(fact) \in Code
    /\ \A j : \A code \in Code : Reported(j, code) \in Code
<1>1. \A problem : HttpCode(problem) \in Code
  BY DEF HttpCode, Code
<1>2. \A xerr : XboxCode(xerr) \in Code
  BY DEF XboxCode, Code
<1>3. \A fact : Verify(fact) \in Code
  BY DEF Verify, Code
<1>4. \A j : \A code \in Code : Reported(j, code) \in Code
  BY DEF Reported, Code
<1> QED
  BY <1>1, <1>2, <1>3, <1>4 DEF XboxCodes

\* What a sign-in becomes by one of its steps.
LEMMA JobChanges ==
    ASSUME LoginAssumption, NEW r \in State
    PROVE  /\ \A pc \in Pc :
                [r EXCEPT !.pc = pc] \in State /\ [r EXCEPT !.pc = pc].pc = pc
           /\ [r EXCEPT !.pc = "refresh", !.entry = "refresh"] \in State
           /\ \A code \in Code :
                /\ [r EXCEPT !.pc = "done", !.code = code] \in State
                /\ [r EXCEPT !.pc = "done", !.code = code].pc = "done"
           /\ r.interval < MaxInterval =>
                /\ [r EXCEPT !.pc = "sleep", !.interval = r.interval + 1] \in State
                /\ [r EXCEPT !.pc = "sleep", !.interval = r.interval + 1].pc = "sleep"
           /\ r.waited < ExpiresIn =>
                /\ [r EXCEPT !.pc = "poll", !.waited = r.waited + r.interval] \in State
                /\ [r EXCEPT !.pc = "poll", !.waited = r.waited + r.interval].pc = "poll"
<1>1. /\ ExpiresIn \in Nat /\ MaxInterval \in Nat
      /\ r.waited \in Nat /\ r.interval \in 1..MaxInterval
  BY DEF LoginAssumption, State
<1>2. \A pc \in Pc : [r EXCEPT !.pc = pc] \in State /\ [r EXCEPT !.pc = pc].pc = pc
  BY DEF State
<1>6. [r EXCEPT !.pc = "refresh", !.entry = "refresh"] \in State
  BY DEF State, Pc
<1>3. ASSUME NEW code \in Code
      PROVE  /\ [r EXCEPT !.pc = "done", !.code = code] \in State
             /\ [r EXCEPT !.pc = "done", !.code = code].pc = "done"
  BY DEF State, Pc
<1>4. ASSUME r.interval < MaxInterval
      PROVE  /\ [r EXCEPT !.pc = "sleep", !.interval = r.interval + 1] \in State
             /\ [r EXCEPT !.pc = "sleep", !.interval = r.interval + 1].pc = "sleep"
  <2> DEFINE n == r.interval + 1
  <2>1. n \in 1..MaxInterval
    BY <1>1, <1>4
  <2> HIDE DEF n
  <2> QED BY <2>1 DEF State, Pc, n
<1>5. ASSUME r.waited < ExpiresIn
      PROVE  /\ [r EXCEPT !.pc = "poll", !.waited = r.waited + r.interval] \in State
             /\ [r EXCEPT !.pc = "poll", !.waited = r.waited + r.interval].pc = "poll"
  <2> DEFINE n == r.waited + r.interval
  <2>1. n \in 0..ExpiresIn + MaxInterval
    BY <1>1, <1>5
  <2> HIDE DEF n
  <2> QED BY <2>1 DEF State, Pc, n
<1> QED
  BY <1>2, <1>3, <1>4, <1>5, <1>6

\* A step of sign-in j, as the connection sees it.
Moved(j) ==
    /\ job[j].pc \notin {"none", "done"}
    /\ \E r \in State : r.pc # "none" /\ job' = [job EXCEPT ![j] = r]

LEMMA GotoMoves ==
    ASSUME LoginAssumption, LoginTypeOK, NEW j \in Job, job[j].pc \notin {"none", "done"},
           NEW pc \in Pc \ {"none"}, Goto(j, pc)
    PROVE  Moved(j) /\ job'[j].pc = pc
<1>1. job \in [Job -> State] /\ job[j] \in State
  BY DEF LoginTypeOK
<1> DEFINE r == [job[j] EXCEPT !.pc = pc]
<1>2. r \in State /\ r.pc = pc
  BY <1>1, JobChanges
<1>3. job' = [job EXCEPT ![j] = r]
  BY <1>1 DEF Goto
<1> HIDE DEF r
<1> QED
  BY <1>1, <1>2, <1>3 DEF Moved

LEMMA EndMoves ==
    ASSUME LoginAssumption, LoginTypeOK, NEW j \in Job, job[j].pc \notin {"none", "done"},
           NEW code \in Code, End(j, code)
    PROVE  Moved(j) /\ job'[j].pc = "done"
<1>1. job \in [Job -> State] /\ job[j] \in State
  BY DEF LoginTypeOK
<1> DEFINE r == [job[j] EXCEPT !.pc = "done", !.code = Reported(j, code)]
<1>2. r \in State /\ r.pc = "done"
  <2>1. Reported(j, code) \in Code
    BY CodesTyped
  <2> QED BY <1>1, <2>1, JobChanges
<1>3. job' = [job EXCEPT ![j] = r]
  BY <1>1 DEF End
<1> HIDE DEF r
<1> QED
  BY <1>1, <1>2, <1>3 DEF Moved

\* Every step of a sign-in changes that sign-in alone, and what it has learned.
LEMMA StepMoves ==
    ASSUME LoginAssumption, LoginTypeOK, NEW j \in Job, LoginStep(j)
    PROVE  Moved(j) /\ {saved', used'} \subseteq SUBSET Job /\ facts' \in [Job -> Fact]
<1> USE CodesTyped
<1>1. job \in [Job -> State] /\ job[j] \in State /\ {saved, used} \subseteq SUBSET Job /\ facts \in [Job -> Fact]
  BY DEF LoginTypeOK
<1>2. CASE Sleep(j)
  <2>1. CASE job[j].waited >= ExpiresIn
    BY <1>1, <1>2, <2>1, EndMoves DEF Sleep, Code
  <2>2. CASE ~(job[j].waited >= ExpiresIn)
    <3> DEFINE r == [job[j] EXCEPT !.pc = "poll", !.waited = job[j].waited + job[j].interval]
    <3>1. job[j].waited < ExpiresIn
      BY <1>1, <2>2 DEF State, LoginAssumption
    <3>2. r \in State /\ r.pc = "poll"
      BY <1>1, <3>1, JobChanges
    <3>3. job' = [job EXCEPT ![j] = r] /\ UNCHANGED <<saved, used, facts>>
      BY <1>1, <1>2, <2>2 DEF Sleep
    <3> HIDE DEF r
    <3> QED BY <1>1, <1>2, <3>2, <3>3 DEF Moved, Sleep
  <2> QED BY <2>1, <2>2
<1>3. CASE Poll(j)
  <2>1. job[j].pc = "poll" /\ UNCHANGED <<saved, used, facts>>
    BY <1>3 DEF Poll
  <2>2. CASE Asked(j, "authenticate", {HttpCode(problem) : problem \in PollProblem})
    BY <1>1, <2>1, <2>2, GotoMoves, EndMoves DEF Asked, Pc
  <2>3. CASE Goto(j, "sleep")
    BY <1>1, <2>1, <2>3, GotoMoves DEF Pc
  <2>4. CASE /\ job[j].interval < MaxInterval
             /\ job' = [job EXCEPT ![j].pc = "sleep", ![j].interval = job[j].interval + 1]
    <3> DEFINE r == [job[j] EXCEPT !.pc = "sleep", !.interval = job[j].interval + 1]
    <3>1. r \in State /\ r.pc = "sleep"
      BY <1>1, <2>4, JobChanges
    <3>2. job' = [job EXCEPT ![j] = r]
      BY <1>1, <2>4
    <3> HIDE DEF r
    <3> QED BY <1>1, <2>1, <3>1, <3>2 DEF Moved
  <2> QED BY <1>3, <2>2, <2>3, <2>4 DEF Poll
<1>4. CASE Xbox(j)
  <2>1. UNCHANGED <<saved, used, facts>>
    BY <1>4 DEF Xbox
  <2>2. CASE job[j].pc = "authenticate" /\ Asked(j, "authorize", XboxCodes)
    BY <1>1, <2>1, <2>2, GotoMoves, EndMoves DEF Asked, Pc
  <2>3. CASE job[j].pc = "authorize" /\ Asked(j, "login", XboxCodes)
    BY <1>1, <2>1, <2>3, GotoMoves, EndMoves DEF Asked, Pc
  <2> QED BY <1>4, <2>2, <2>3 DEF Xbox
<1>5. CASE LoginWithXbox(j)
  BY <1>1, <1>5, GotoMoves, EndMoves DEF LoginWithXbox, Asked, Pc
<1>6. CASE Entitlements(j)
  <2>1. job[j].pc = "entitlements" /\ UNCHANGED <<saved, used>>
    BY <1>6 DEF Entitlements
  <2>2. CASE \E problem \in CheckProblem : End(j, HttpCode(problem)) /\ UNCHANGED facts
    BY <1>1, <2>1, <2>2, EndMoves
  <2>3. ASSUME NEW fact \in Fact, facts' = [facts EXCEPT ![j] = fact],
               IF Verify(fact) = "NONE" THEN Goto(j, "profile") ELSE End(j, Verify(fact))
        PROVE  Moved(j) /\ facts' \in [Job -> Fact]
    BY <1>1, <2>1, <2>3, GotoMoves, EndMoves DEF Pc
  <2>4. \A token \in Token, claims, items \in BOOLEAN :
          [token |-> token, claims |-> claims, items |-> items, profile |-> FALSE] \in Fact
    BY DEF Fact
  <2> QED BY <1>1, <1>6, <2>1, <2>2, <2>3, <2>4 DEF Entitlements
<1>7. CASE Profile(j)
  <2>1. job[j].pc = "profile" /\ UNCHANGED <<saved, used>>
    BY <1>7 DEF Profile
  <2>2. CASE \E problem \in CheckProblem \cup {"404"} :
                End(j, HttpCode(problem)) /\ UNCHANGED facts
    BY <1>1, <2>1, <2>2, EndMoves
  <2>3. CASE Goto(j, "remember") /\ facts' = [facts EXCEPT ![j].profile = TRUE]
    <3> DEFINE fact == [facts[j] EXCEPT !.profile = TRUE]
    <3>1. fact \in Fact /\ facts' = [facts EXCEPT ![j] = fact]
      BY <1>1, <2>3 DEF Fact
    <3> HIDE DEF fact
    <3>2. facts' \in [Job -> Fact]
      BY <1>1, <3>1
    <3> QED BY <1>1, <2>1, <2>3, <3>2, GotoMoves DEF Pc
  <2> QED BY <1>7, <2>2, <2>3 DEF Profile
<1>8. CASE Remember(j)
  <2>1. /\ job[j].pc = "remember" /\ {saved', used'} \subseteq SUBSET Job /\ facts' = facts
        /\ \E code \in {"NONE", "CREDENTIAL_STORE_UNAVAILABLE"} : End(j, code)
    BY <1>1, <1>8 DEF Remember
  <2> QED BY <1>1, <2>1, EndMoves DEF Code
<1>9. CASE Refresh(j)
  BY <1>1, <1>9, GotoMoves, EndMoves DEF Refresh, Asked, Pc, Code
<1> QED
  BY <1>2, <1>3, <1>4, <1>5, <1>6, <1>7, <1>8, <1>9 DEF LoginStep

\* So the types of the sign-ins hold on, and the others are not touched.
LEMMA StepTyped ==
    ASSUME LoginAssumption, LoginTypeOK, NEW j \in Job, LoginStep(j)
    PROVE  /\ LoginTypeOK'
           /\ job[j].pc \notin {"none", "done"} /\ job'[j].pc # "none"
           /\ \A i \in Job \ {j} : job'[i] = job[i]
BY StepMoves DEF Moved, LoginTypeOK

\* What is known of a sign-in that has come so far.
Verified(j) == facts[j].token = "valid" /\ facts[j].items

Checked(j) ==
    /\ job[j].pc \in {"profile", "remember"} => Verified(j)
    /\ job[j].pc = "remember" => facts[j].profile
    /\ j \in saved \cup used => job[j].pc = "done" /\ Verified(j) /\ facts[j].profile

AllChecked == \A j \in Job : Checked(j)

\* No step takes a sign-in past a service that has not agreed.
LEMMA StepChecked ==
    ASSUME LoginAssumption, LoginTypeOK, AllChecked, NEW j \in Job, LoginStep(j)
    PROVE  AllChecked'
<1> USE CodesTyped
<1>1. job \in [Job -> State] /\ job[j] \in State /\ facts \in [Job -> Fact] /\ facts[j] \in Fact
  BY DEF LoginTypeOK
<1>2. \A i \in Job \ {j} : job'[i] = job[i]
  BY StepTyped
<1>3. ASSUME \A i \in Job \ {j} : facts'[i] = facts[i] /\ (i \in saved' \cup used' => i \in saved \cup used),
             Checked(j)'
      PROVE  AllChecked'
  BY <1>2, <1>3 DEF AllChecked, Checked, Verified
<1>4. job[j].pc \notin {"none", "done"} /\ j \notin saved \cup used
  BY StepTyped DEF AllChecked, Checked
<1>5. ASSUME NEW pc \in Pc \ {"none", "profile", "remember"}, Goto(j, pc),
             UNCHANGED <<saved, used, facts>>
      PROVE  AllChecked'
  BY <1>3, <1>4, <1>5, GotoMoves DEF Checked
<1>6. ASSUME NEW code \in Code, End(j, code), UNCHANGED <<saved, used, facts>>
      PROVE  AllChecked'
  BY <1>3, <1>4, <1>6, EndMoves DEF Checked
<1>7. CASE Sleep(j)
  <2>1. CASE job[j].waited >= ExpiresIn
    BY <1>6, <1>7, <2>1 DEF Sleep, Code
  <2>2. CASE ~(job[j].waited >= ExpiresIn)
    <3>1. job'[j].pc = "poll" /\ UNCHANGED <<saved, used, facts>>
      BY <1>1, <1>7, <2>2 DEF Sleep, State
    <3> QED BY <1>3, <1>4, <3>1 DEF Checked
  <2> QED BY <2>1, <2>2
<1>8. CASE Poll(j)
  <2>1. job[j].pc = "poll" /\ UNCHANGED <<saved, used, facts>>
    BY <1>8 DEF Poll
  <2>2. CASE Asked(j, "authenticate", {HttpCode(problem) : problem \in PollProblem})
    BY <2>1, <2>2, <1>5, <1>6 DEF Asked, Pc
  <2>3. CASE Goto(j, "sleep")
    BY <2>1, <2>3, <1>5 DEF Pc
  <2>4. CASE job' = [job EXCEPT ![j].pc = "sleep", ![j].interval = job[j].interval + 1]
    <3>1. job'[j].pc = "sleep"
      BY <1>1, <2>4 DEF State
    <3> QED BY <1>3, <1>4, <2>1, <3>1 DEF Checked
  <2> QED BY <1>8, <2>2, <2>3, <2>4 DEF Poll
<1>9. CASE Xbox(j)
  <2>1. UNCHANGED <<saved, used, facts>>
    BY <1>9 DEF Xbox
  <2>2. \/ Asked(j, "authorize", XboxCodes) \/ Asked(j, "login", XboxCodes)
    BY <1>9 DEF Xbox
  <2> QED BY <2>1, <2>2, <1>5, <1>6 DEF Asked, Pc
<1>10. CASE LoginWithXbox(j)
  BY <1>10, <1>5, <1>6 DEF LoginWithXbox, Asked, Pc
<1>11. CASE Entitlements(j)
  <2>1. job[j].pc = "entitlements" /\ UNCHANGED <<saved, used>>
    BY <1>11 DEF Entitlements
  <2>2. CASE \E problem \in CheckProblem : End(j, HttpCode(problem)) /\ UNCHANGED facts
    BY <2>1, <2>2, <1>6
  <2>3. ASSUME NEW fact, facts' = [facts EXCEPT ![j] = fact],
               IF Verify(fact) = "NONE" THEN Goto(j, "profile") ELSE End(j, Verify(fact))
        PROVE  AllChecked'
    <3>1. facts'[j] = fact /\ \A i \in Job \ {j} : facts'[i] = facts[i]
      BY <1>1, <2>3
    <3>2. CASE Verify(fact) # "NONE"
      <4>1. job'[j].pc = "done"
        BY <1>4, <2>3, <3>2, EndMoves
      <4> QED BY <1>3, <1>4, <2>1, <3>1, <4>1 DEF Checked
    <3>3. CASE Verify(fact) = "NONE"
      <4>1. fact.token = "valid" /\ fact.items
        BY <3>3 DEF Verify
      <4>2. job'[j].pc = "profile"
        BY <1>4, <2>3, <3>3, GotoMoves DEF Pc
      <4> QED BY <1>3, <1>4, <2>1, <3>1, <4>1, <4>2 DEF Checked, Verified
    <3> QED BY <3>2, <3>3
  <2> QED BY <1>11, <2>1, <2>2, <2>3 DEF Entitlements
<1>12. CASE Profile(j)
  <2>1. job[j].pc = "profile" /\ UNCHANGED <<saved, used>>
    BY <1>12 DEF Profile
  <2>2. CASE \E problem \in CheckProblem \cup {"404"} :
                End(j, HttpCode(problem)) /\ UNCHANGED facts
    BY <2>1, <2>2, <1>6
  <2>3. CASE Goto(j, "remember") /\ facts' = [facts EXCEPT ![j].profile = TRUE]
    <3>1. job'[j].pc = "remember"
      BY <1>4, <2>3, GotoMoves DEF Pc
    <3>2. /\ facts'[j].token = facts[j].token /\ facts'[j].items = facts[j].items
          /\ facts'[j].profile /\ \A i \in Job \ {j} : facts'[i] = facts[i]
      BY <1>1, <2>3 DEF Fact
    <3> QED BY <1>3, <1>4, <2>1, <3>1, <3>2 DEF AllChecked, Checked, Verified
  <2> QED BY <1>12, <2>2, <2>3 DEF Profile
<1>13. CASE Remember(j)
  <2>1. /\ job[j].pc = "remember" /\ facts' = facts
        /\ \E code \in {"NONE", "CREDENTIAL_STORE_UNAVAILABLE"} : End(j, code)
        /\ saved' \in {saved, saved \cup {j}} /\ used' \in {used, used \cup {j}}
    BY <1>13 DEF Remember
  <2>2. job'[j].pc = "done"
    BY <1>4, <2>1, EndMoves DEF Code
  <2>3. Checked(j)'
    BY <2>1, <2>2 DEF AllChecked, Checked, Verified
  <2> QED BY <1>3, <2>1, <2>3
<1>14. CASE Refresh(j)
  BY <1>14, <1>5, <1>6 DEF Refresh, Asked, Pc, Code
<1> QED
  BY <1>7, <1>8, <1>9, <1>10, <1>11, <1>12, <1>13, <1>14 DEF LoginStep

------------------------------------------------------------------------------
(* Frames *)

\* Taking the first of a queue and appending it behind what precedes the queue
\* changes nothing of the whole.
LEMMA HeadMoves ==
    ASSUME NEW S, NEW a \in Seq(S), NEW b \in Seq(S), b # <<>>
    PROVE  /\ Append(a, Head(b)) \in Seq(S) /\ Tail(b) \in Seq(S) /\ Head(b) \in S
           /\ Append(a, Head(b)) \o Tail(b) = a \o b
<1>1. Head(b) \in S /\ Tail(b) \in Seq(S) /\ Len(b) \in Nat \ {0}
  BY HeadTailProperties, EmptySeq
<1>2. b = <<Head(b)>> \o Tail(b)
  <2>1. Head(b) = b[1] /\ Tail(b) = SubSeq(b, 2, Len(b)) /\ SubSeq(b, 1, Len(b)) = b
    BY TailIsSubSeq, SubSeqFull
  <2>2. SubSeq(b, 1, Len(b)) = <<b[1]>> \o SubSeq(b, 2, Len(b))
    BY <1>1, SubSeqRecursiveFirst
  <2> QED BY <2>1, <2>2
<1>3. <<Head(b)>> \in Seq(S)
  BY <1>1
<1>4. Append(a, Head(b)) = a \o <<Head(b)>> /\ Append(a, Head(b)) \in Seq(S)
  BY <1>1, AppendIsConcat, AppendProperties
<1>5. (a \o <<Head(b)>>) \o Tail(b) = a \o (<<Head(b)>> \o Tail(b))
  BY <1>1, <1>3, ConcatAssociative
<1> QED
  BY <1>1, <1>2, <1>4, <1>5

\* Appending to the last of two parts appends to the whole.
LEMMA AppendToWhole ==
    ASSUME NEW S, NEW a \in Seq(S), NEW b \in Seq(S), NEW x \in S
    PROVE  a \o Append(b, x) = Append(a \o b, x)
<1>1. <<x>> \in Seq(S) /\ a \o b \in Seq(S)
  BY ConcatProperties
<1>2. (a \o b) \o <<x>> = a \o (b \o <<x>>)
  BY <1>1, ConcatAssociative
<1> QED
  BY <1>1, <1>2, AppendIsConcat

------------------------------------------------------------------------------
(* Types *)

LEMMA FramesTyped ==
    /\ \A id \in Call \cup {Null} : Reply(id) \in Frame
    /\ Event("progress") \in Frame /\ Event("loginComplete") \in Frame
BY DEF Frame

LEMMA QueuedTyped ==
    ASSUME TypeOK, NEW frame \in Frame
    PROVE  Queued(frame) \in Seq(Frame)
<1>1. queue \in Seq(Frame)
  BY DEF TypeOK
<1> QED
  BY <1>1, AppendProperties DEF Queued

\* The parts of the type invariant, so that a step names those it changes.
LoginPart == LoginTypeOK
ClientPart ==
    /\ client \in Clients \cup {"gone"}
    /\ call \in [Call -> {"idle", "insert", "write", "waiting", "answered", "disconnected"}]
    /\ pending \subseteq Call
    /\ reader \in {"reading", "clear", "drain", "gone"}
    /\ await \in {"no", "waiting", "told", "ended"}
    /\ writer \in BOOLEAN
    /\ odd \in 0..MaxOdd
ServerPart ==
    /\ serving \in Line \cup {NoLine, "stopped"}
    /\ {progress, pump} \subseteq BOOLEAN
    /\ queue \in Seq(Frame)
WirePart ==
    /\ {open, daemon} \subseteq BOOLEAN
    /\ lines \in Seq(Line)
    /\ frames \in Seq(Frame)
    /\ read \in Seq(Call \cup {Null})
    /\ got \in Seq(Frame)

LEMMA TypeParts == TypeOK <=> LoginPart /\ ClientPart /\ ServerPart /\ WirePart
<1>1. {writer, open, daemon, progress, pump} \subseteq BOOLEAN
        <=> /\ writer \in BOOLEAN /\ {progress, pump} \subseteq BOOLEAN
            /\ {open, daemon} \subseteq BOOLEAN
  OBVIOUS
<1>2. {queue, frames, got} \subseteq Seq(Frame)
        <=> queue \in Seq(Frame) /\ frames \in Seq(Frame) /\ got \in Seq(Frame)
  OBVIOUS
<1> QED
  BY <1>1, <1>2, Zenon DEF TypeOK, LoginPart, ClientPart, ServerPart, WirePart

LEMMA TypePartsNext == LoginPart' /\ ClientPart' /\ ServerPart' /\ WirePart' => TypeOK'
<1>1. writer' \in BOOLEAN /\ {progress', pump'} \subseteq BOOLEAN /\ {open', daemon'} \subseteq BOOLEAN
        => {writer', open', daemon', progress', pump'} \subseteq BOOLEAN
  OBVIOUS
<1>2. queue' \in Seq(Frame) /\ frames' \in Seq(Frame) /\ got' \in Seq(Frame)
        => {queue', frames', got'} \subseteq Seq(Frame)
  OBVIOUS
<1> QED
  BY <1>1, <1>2, Zenon DEF TypeOK, LoginPart, ClientPart, ServerPart, WirePart

\* A step that leaves the variables of a part leaves the part.
LEMMA PartsKept ==
    /\ LoginPart /\ UNCHANGED lvars => LoginPart'
    /\ ClientPart /\ UNCHANGED cvars => ClientPart'
    /\ ServerPart /\ UNCHANGED svars => ServerPart'
    /\ WirePart /\ UNCHANGED <<open, daemon, lines, frames, read, got>> => WirePart'
BY DEF LoginPart, LoginTypeOK, ClientPart, ServerPart, WirePart, lvars, cvars, svars

LEMMA JobExists == ASSUME RpcAssumption PROVE TheJob \in Job
BY DEF RpcAssumption, TheJob

\* beginLogin starts the one sign-in of the connection.
LEMMA BeginTyped ==
    ASSUME LoginAssumption, RpcAssumption, LoginTypeOK, BeginDeviceCode(TheJob)
    PROVE  /\ LoginTypeOK'
           /\ job[TheJob].pc = "none" /\ job'[TheJob].pc = "sleep"
           /\ \A i \in Job \ {TheJob} : job'[i] = job[i]
           /\ UNCHANGED <<saved, used, facts>>
<1>1. TheJob \in Job
  BY JobExists
<1>2. job \in [Job -> State] /\ job[TheJob] \in State
  BY <1>1 DEF LoginTypeOK
<1> DEFINE r == [job[TheJob] EXCEPT !.pc = "sleep"]
<1>3. r \in State /\ r.pc = "sleep"
  BY <1>2, JobChanges DEF Pc
<1>4. job' = [job EXCEPT ![TheJob] = r] /\ UNCHANGED <<saved, used, facts>>
  BY <1>2 DEF BeginDeviceCode, Goto
<1>5. job[TheJob].pc = "none"
  BY DEF BeginDeviceCode
<1> HIDE DEF r
<1> QED
  BY <1>1, <1>2, <1>3, <1>4, <1>5 DEF LoginTypeOK

\* A launch leaves the sign-in of the connection alone.
LEMMA LaunchTyped ==
    ASSUME LoginAssumption, LoginTypeOK, NEW j \in Job, Launches(j)
    PROVE  LoginTypeOK' /\ (TheJob \in Job => job'[TheJob] = job[TheJob])
<1>1. job \in [Job -> State] /\ job[j] \in State
  BY DEF LoginTypeOK
<1>2. CASE j # TheJob /\ BeginRenewal(j)
  <2> DEFINE r == [job[j] EXCEPT !.pc = "refresh", !.entry = "refresh"]
  <2>1. r \in State
    BY <1>1, JobChanges
  <2>2. job' = [job EXCEPT ![j] = r] /\ UNCHANGED <<saved, used, facts>>
    BY <1>1, <1>2 DEF BeginRenewal
  <2> HIDE DEF r
  <2> QED BY <1>1, <1>2, <2>1, <2>2 DEF LoginTypeOK
<1>3. CASE j # TheJob /\ LoginStep(j)
  BY <1>3, StepTyped
<1>4. CASE UseStored(j)
  BY <1>4 DEF UseStored, LoginTypeOK
<1> QED
  BY <1>2, <1>3, <1>4 DEF Launches

LEMMA ServerTyped ==
    ASSUME LoginAssumption, RpcAssumption, TypeOK,
           \/ ReadLine \/ Notify \/ Handled \/ Pump \/ ConnectionEnds \/ DaemonDies
           \/ SignInGoesOn \/ \E j \in Job : Launches(j)
    PROVE  TypeOK'
<1>0. LoginPart /\ ClientPart /\ ServerPart /\ WirePart
  BY TypeParts
<1>1. lines \in Seq(Line) /\ queue \in Seq(Frame) /\ frames \in Seq(Frame) /\ read \in Seq(Call \cup {Null})
  BY <1>0 DEF ServerPart, WirePart
<1>2. CASE ReadLine
  <2>1. LoginPart' /\ ClientPart'
    BY <1>0, <1>2, PartsKept DEF ReadLine
  <2>2. Head(lines) \in Line /\ Tail(lines) \in Seq(Line)
    BY <1>1, <1>2, HeadTailProperties DEF ReadLine
  <2>3. serving' \in Line \cup {NoLine, "stopped"}
    BY <1>0, <1>2, <2>2 DEF ReadLine, ServerPart
  <2>4. queue' \in Seq(Frame)
    <3>1. Queued(Reply(Null)) \in Seq(Frame)
      BY QueuedTyped, FramesTyped
    <3> QED BY <1>1, <1>2, <3>1 DEF ReadLine
  <2>5. read' \in Seq(Call \cup {Null})
    <3>1. \A x \in Call \cup {Null} : Append(read, x) \in Seq(Call \cup {Null})
      BY <1>1, AppendProperties
    <3>2. \/ Head(lines) \in Call /\ read' = Append(read, Head(lines))
          \/ read' = Append(read, Null) \/ read' = read
      BY <1>2 DEF ReadLine
    <3> QED BY <1>1, <3>1, <3>2
  <2>6. ServerPart'
    BY <1>0, <1>2, <2>3, <2>4 DEF ReadLine, ServerPart
  <2>7. WirePart'
    BY <1>0, <1>2, <2>2, <2>5 DEF ReadLine, WirePart
  <2> QED BY <2>1, <2>6, <2>7, TypePartsNext
<1>3. CASE Notify
  <2>1. LoginPart' /\ ClientPart' /\ WirePart'
    BY <1>0, <1>3, PartsKept DEF Notify
  <2>2. queue' \in Seq(Frame)
    BY <1>3, QueuedTyped, FramesTyped DEF Notify
  <2>3. ServerPart'
    BY <1>0, <1>3, <2>2 DEF Notify, ServerPart
  <2> QED BY <2>1, <2>3, TypePartsNext
<1>4. CASE Handled
  <2>1. ClientPart' /\ WirePart'
    BY <1>0, <1>4, PartsKept DEF Handled
  <2>2. LoginPart'
    <3>1. CASE BeginDeviceCode(TheJob)
      BY <1>0, <3>1, BeginTyped DEF LoginPart
    <3>2. CASE UNCHANGED lvars
      BY <1>0, <3>2, PartsKept
    <3> QED BY <1>4, <3>1, <3>2 DEF Handled
  <2>3. queue' \in Seq(Frame)
    <3>1. serving \in Call => Queued(Reply(serving)) \in Seq(Frame)
      BY QueuedTyped, FramesTyped
    <3> QED BY <1>1, <1>4, <3>1 DEF Handled
  <2>4. ServerPart'
    BY <1>0, <1>4, <2>3 DEF Handled, ServerPart
  <2> QED BY <2>1, <2>2, <2>4, TypePartsNext
<1>5. CASE Pump
  <2>1. LoginPart' /\ ClientPart'
    BY <1>0, <1>5, PartsKept DEF Pump
  <2>2. queue' \in Seq(Frame) /\ frames' \in Seq(Frame) /\ pump' \in BOOLEAN
    <3>1. <<>> \in Seq(Frame)
      BY EmptySeq
    <3>2. Append(frames, Head(queue)) \in Seq(Frame) /\ Tail(queue) \in Seq(Frame)
      BY <1>1, <1>5, HeadMoves DEF Pump
    <3> QED BY <1>0, <1>1, <1>5, <3>1, <3>2 DEF Pump, ServerPart
  <2>3. ServerPart' /\ WirePart'
    BY <1>0, <1>5, <2>2 DEF Pump, ServerPart, WirePart
  <2> QED BY <2>1, <2>3, TypePartsNext
<1>6. CASE DaemonDies
  <2>1. LoginPart' /\ ClientPart' /\ ServerPart'
    BY <1>0, <1>6, PartsKept DEF DaemonDies
  <2>2. <<>> \in Seq(Frame) /\ <<>> \in Seq(Line)
    BY EmptySeq
  <2>3. WirePart'
    BY <1>0, <1>6, <2>2 DEF DaemonDies, WirePart
  <2> QED BY <2>1, <2>3, TypePartsNext
<1>7. CASE SignInGoesOn
  <2>1. LoginPart' /\ ClientPart' /\ WirePart'
    BY <1>0, <1>7, PartsKept, StepTyped, JobExists DEF SignInGoesOn, LoginPart
  <2>2. queue' \in Seq(Frame)
    BY <1>1, <1>7, QueuedTyped, FramesTyped DEF SignInGoesOn
  <2>3. ServerPart'
    BY <1>0, <1>7, <2>2 DEF SignInGoesOn, ServerPart
  <2> QED BY <2>1, <2>3, TypePartsNext
<1>8. CASE ConnectionEnds
  <2>1. LoginPart' /\ ClientPart'
    BY <1>0, <1>8, PartsKept DEF ConnectionEnds
  <2>2. <<>> \in Seq(Line)
    BY EmptySeq
  <2>3. ServerPart' /\ WirePart'
    BY <1>0, <1>8, <2>2 DEF ConnectionEnds, ServerPart, WirePart
  <2> QED BY <2>1, <2>3, TypePartsNext
<1>9. ASSUME NEW j \in Job, Launches(j) PROVE TypeOK'
  <2>1. LoginPart'
    BY <1>0, <1>9, LaunchTyped DEF LoginPart
  <2>2. ClientPart' /\ ServerPart' /\ WirePart'
    BY <1>0, <1>9, PartsKept DEF Launches
  <2> QED BY <2>1, <2>2, TypePartsNext
<1> QED
  BY <1>2, <1>3, <1>4, <1>5, <1>6, <1>7, <1>8, <1>9

LEMMA ClientTyped ==
    ASSUME RpcAssumption, TypeOK,
           \/ DesktopTask \/ CliCall \/ Cli \/ AnyLine \/ AnyFrame \/ Quit
           \/ \E k \in Call : Ask(k) \/ Insert(k) \/ WriteCall(k)
    PROVE  TypeOK'
<1>0. LoginPart /\ ClientPart /\ ServerPart /\ WirePart
  BY TypeParts
<1>1. lines \in Seq(Line) /\ frames \in Seq(Frame) /\ got \in Seq(Frame)
  BY <1>0 DEF WirePart
<1>2. frames # <<>> => Append(got, Head(frames)) \in Seq(Frame) /\ Tail(frames) \in Seq(Frame)
  BY <1>1, HeadMoves
<1>3. \A line \in Line : Append(lines, line) \in Seq(Line)
  BY <1>1, AppendProperties
<1>4. SignIn \in Call /\ Call \subseteq Line
  BY DEF RpcAssumption, Line
<1>5. <<>> \in Seq(Frame) /\ <<>> \in Seq(Line)
  BY EmptySeq
<1>6. CASE TakeFrame
  <2>1. LoginPart' /\ ServerPart'
    BY <1>0, <1>6, PartsKept DEF TakeFrame
  <2>2. ClientPart'
    BY <1>0, <1>6 DEF TakeFrame, ClientPart
  <2>3. WirePart'
    BY <1>0, <1>2, <1>6 DEF TakeFrame, WirePart
  <2> QED BY <2>1, <2>2, <2>3, TypePartsNext
<1>7. CASE ReaderEnds \/ ClearWriter \/ Drain
  <2>1. LoginPart' /\ ServerPart' /\ WirePart'
    BY <1>0, <1>7, PartsKept DEF ReaderEnds, ClearWriter, Drain
  <2>2. ClientPart'
    BY <1>0, <1>7 DEF ReaderEnds, ClearWriter, Drain, ClientPart
  <2> QED BY <2>1, <2>2, TypePartsNext
<1>8. CASE CliCall
  <2>1. LoginPart' /\ ServerPart'
    BY <1>0, <1>8, PartsKept DEF CliCall
  <2>2. ClientPart'
    BY <1>0, <1>4, <1>8 DEF CliCall, Become, ClientPart
  <2>3. WirePart'
    BY <1>0, <1>3, <1>4, <1>8 DEF CliCall, WirePart
  <2> QED BY <2>1, <2>2, <2>3, TypePartsNext
<1>9. CASE CliReply
  <2>1. LoginPart' /\ ServerPart'
    BY <1>0, <1>9, PartsKept DEF CliReply
  <2>2. ClientPart'
    BY <1>0, <1>4, <1>9 DEF CliReply, Become, ClientPart
  <2>3. WirePart'
    BY <1>0, <1>2, <1>9 DEF CliReply, WirePart
  <2> QED BY <2>1, <2>2, <2>3, TypePartsNext
<1>10. CASE CliAwait
  <2>1. LoginPart' /\ ServerPart'
    BY <1>0, <1>10, PartsKept DEF CliAwait
  <2>2. ClientPart'
    BY <1>0, <1>10 DEF CliAwait, ClientPart
  <2>3. WirePart'
    BY <1>0, <1>2, <1>10 DEF CliAwait, WirePart
  <2> QED BY <2>1, <2>2, <2>3, TypePartsNext
<1>11. CASE CliEnds
  <2>1. LoginPart' /\ ServerPart' /\ WirePart'
    BY <1>0, <1>11, PartsKept DEF CliEnds
  <2>2. ClientPart'
    BY <1>0, <1>4, <1>11 DEF CliEnds, Become, ClientPart
  <2> QED BY <2>1, <2>2, TypePartsNext
<1>12. CASE AnyLine
  <2>1. LoginPart' /\ ServerPart'
    BY <1>0, <1>12, PartsKept DEF AnyLine
  <2>2. odd' \in 0..MaxOdd
    BY <1>0, <1>12 DEF AnyLine, ClientPart, RpcAssumption
  <2>3. ClientPart'
    BY <1>0, <1>12, <2>2 DEF AnyLine, ClientPart
  <2>4. WirePart'
    BY <1>0, <1>3, <1>12 DEF AnyLine, WirePart
  <2> QED BY <2>1, <2>3, <2>4, TypePartsNext
<1>13. CASE AnyFrame
  <2>1. LoginPart' /\ ClientPart' /\ ServerPart'
    BY <1>0, <1>13, PartsKept DEF AnyFrame
  <2>2. WirePart'
    BY <1>0, <1>2, <1>13 DEF AnyFrame, WirePart
  <2> QED BY <2>1, <2>2, TypePartsNext
<1>14. CASE Quit
  <2>1. LoginPart' /\ ServerPart'
    BY <1>0, <1>14, PartsKept DEF Quit
  <2>2. ClientPart'
    BY <1>0, <1>14 DEF Quit, ClientPart
  <2>3. WirePart'
    BY <1>0, <1>5, <1>14 DEF Quit, WirePart
  <2> QED BY <2>1, <2>2, <2>3, TypePartsNext
<1>15. ASSUME NEW k \in Call, Ask(k) \/ Insert(k) PROVE TypeOK'
  <2>1. LoginPart' /\ ServerPart' /\ WirePart'
    BY <1>0, <1>15, PartsKept DEF Ask, Insert
  <2>2. ClientPart'
    BY <1>0, <1>15 DEF Ask, Insert, Become, ClientPart
  <2> QED BY <2>1, <2>2, TypePartsNext
<1>16. ASSUME NEW k \in Call, WriteCall(k) PROVE TypeOK'
  <2>1. LoginPart' /\ ServerPart'
    BY <1>0, <1>16, PartsKept DEF WriteCall
  <2>2. ClientPart'
    BY <1>0, <1>16 DEF WriteCall, Become, ClientPart
  <2>3. WirePart'
    BY <1>0, <1>3, <1>4, <1>16 DEF WriteCall, WirePart
  <2> QED BY <2>1, <2>2, <2>3, TypePartsNext
<1> QED
  BY <1>6, <1>7, <1>8, <1>9, <1>10, <1>11, <1>12, <1>13, <1>14, <1>15, <1>16
     DEF DesktopTask, Cli

LEMMA TypeStep ==
    ASSUME LoginAssumption, RpcAssumption, TypeOK, [Next]_vars
    PROVE  TypeOK'
<1>1. CASE UNCHANGED vars
  BY <1>1, TypeParts, TypePartsNext, PartsKept DEF vars
<1> QED
  BY <1>1, ServerTyped, ClientTyped DEF Next, Server

LEMMA LoginStart == LoginInit => LoginTypeOK
<1>1. [pc |-> "none", entry |-> "code", waited |-> 0, interval |-> 1, code |-> "NONE"] \in State
  BY LoginAssumption DEF State, Pc, Code, LoginAssumption
<1>2. [token |-> "unknown", claims |-> FALSE, items |-> FALSE, profile |-> FALSE] \in Fact
  BY DEF Fact, Token
<1> QED
  BY <1>1, <1>2 DEF LoginInit, LoginTypeOK

\* The connection keeps its types, whatever its client sends.
THEOREM RpcTypes == Spec => []TypeOK
<1>1. Init => TypeOK
  <2>1. \A S : <<>> \in Seq(S)
    BY EmptySeq
  <2>2. ASSUME Init PROVE LoginTypeOK
    BY <2>2, LoginStart DEF Init
  <2>3. ASSUME Init
        PROVE  ClientPart /\ ServerPart /\ WirePart
    <3>1. odd \in 0..MaxOdd
      BY <2>3, RpcAssumption DEF Init, RpcAssumption
    <3>2. ClientPart
      BY <2>3, <3>1 DEF Init, ClientPart
    <3>3. ServerPart
      BY <2>1, <2>3 DEF Init, ServerPart
    <3>4. WirePart
      BY <2>1, <2>3 DEF Init, WirePart
    <3> QED BY <3>2, <3>3, <3>4
  <2> QED
    BY <2>2, <2>3, TypeParts DEF LoginPart
<1>2. TypeOK /\ [Next]_vars => TypeOK'
  BY TypeStep, LoginAssumption, RpcAssumption
<1> QED
  BY <1>1, <1>2, PTL DEF Spec

------------------------------------------------------------------------------
(* Counting frames *)

\* The places of the replies among the first n frames of s, and of the ends.
ReplyPlaces(s, n) == {i \in 1..n : IsReply(s[i])}
EndPlaces(s) == {i \in 1..Len(s) : s[i] = Event("loginComplete")}

\* s answers the first count lines of r, in their order.
InOrder(s, r, count) ==
    /\ Cardinality(ReplyPlaces(s, Len(s))) = count
    /\ \A n \in 1..Len(s) :
          IsReply(s[n]) => s[n] = Reply(r[Cardinality(ReplyPlaces(s, n))])

LEMMA PlacesFinite ==
    ASSUME NEW s, NEW n \in Nat
    PROVE  /\ IsFiniteSet(ReplyPlaces(s, n)) /\ Cardinality(ReplyPlaces(s, n)) \in Nat
           /\ \A m \in 1..n : /\ Cardinality(ReplyPlaces(s, m)) <= Cardinality(ReplyPlaces(s, n))
                              /\ Cardinality(ReplyPlaces(s, m)) \in Nat
                              /\ IsReply(s[m]) => Cardinality(ReplyPlaces(s, m)) # 0
<1>1. \A k \in Nat : IsFiniteSet(1..k)
  BY FS_Interval
<1>2. \A k \in Nat : ReplyPlaces(s, k) \in SUBSET (1..k)
  BY DEF ReplyPlaces
<1>3. ASSUME NEW k \in Nat
      PROVE  IsFiniteSet(ReplyPlaces(s, k)) /\ Cardinality(ReplyPlaces(s, k)) \in Nat
  <2>1. IsFiniteSet(ReplyPlaces(s, k))
    BY <1>1, <1>2, FS_Subset
  <2> QED BY <2>1, FS_CardinalityType
<1>4. ASSUME NEW m \in 1..n
      PROVE  /\ Cardinality(ReplyPlaces(s, m)) <= Cardinality(ReplyPlaces(s, n))
             /\ Cardinality(ReplyPlaces(s, m)) \in Nat
             /\ IsReply(s[m]) => Cardinality(ReplyPlaces(s, m)) # 0
  <2>1. m \in Nat
    OBVIOUS
  <2>2. ReplyPlaces(s, m) \in SUBSET ReplyPlaces(s, n)
    BY DEF ReplyPlaces
  <2>3. Cardinality(ReplyPlaces(s, m)) <= Cardinality(ReplyPlaces(s, n))
    BY <1>3, <2>2, FS_Subset
  <2>4. ASSUME IsReply(s[m]) PROVE Cardinality(ReplyPlaces(s, m)) # 0
    <3>1. m \in ReplyPlaces(s, m)
      BY <2>1, <2>4 DEF ReplyPlaces
    <3> QED BY <1>3, <2>1, <3>1, FS_EmptySet
  <2> QED BY <1>3, <2>1, <2>3, <2>4
<1> QED
  BY <1>3, <1>4

\* One frame more leaves the places before it.
LEMMA PlacesGrow ==
    ASSUME NEW s \in Seq(Frame), NEW f \in Frame
    PROVE  /\ Len(Append(s, f)) = Len(s) + 1 /\ Len(s) \in Nat
           /\ Append(s, f)[Len(s) + 1] = f
           /\ \A i \in 1..Len(s) : Append(s, f)[i] = s[i]
           /\ \A n \in 0..Len(s) : ReplyPlaces(Append(s, f), n) = ReplyPlaces(s, n)
           /\ ReplyPlaces(Append(s, f), Len(s) + 1) =
                IF IsReply(f) THEN ReplyPlaces(s, Len(s)) \cup {Len(s) + 1}
                ELSE ReplyPlaces(s, Len(s))
           /\ EndPlaces(Append(s, f)) =
                IF f = Event("loginComplete") THEN EndPlaces(s) \cup {Len(s) + 1}
                ELSE EndPlaces(s)
<1> DEFINE t == Append(s, f)
           l == Len(s)
<1>1. Len(t) = l + 1 /\ l \in Nat /\ t[l + 1] = f /\ \A i \in 1..l : t[i] = s[i]
  BY AppendProperties, LenProperties
<1> HIDE DEF t, l
<1>2. \A n \in 0..l : ReplyPlaces(t, n) = ReplyPlaces(s, n)
  BY <1>1 DEF ReplyPlaces
<1>3. 1..l + 1 = (1..l) \cup {l + 1} /\ l + 1 \notin 1..l
  BY <1>1
<1>4. ReplyPlaces(t, l + 1) = IF IsReply(f) THEN ReplyPlaces(s, l) \cup {l + 1}
                              ELSE ReplyPlaces(s, l)
  BY <1>1, <1>3 DEF ReplyPlaces
<1>5. EndPlaces(t) = IF f = Event("loginComplete") THEN EndPlaces(s) \cup {l + 1}
                     ELSE EndPlaces(s)
  <2>1. EndPlaces(s) = {i \in 1..l : s[i] = Event("loginComplete")}
    BY DEF EndPlaces, l
  <2>2. EndPlaces(t) = {i \in 1..l + 1 : t[i] = Event("loginComplete")}
    BY <1>1 DEF EndPlaces
  <2> QED BY <1>1, <1>3, <2>1, <2>2
<1> QED
  BY <1>1, <1>2, <1>4, <1>5 DEF t, l

\* A notification leaves the replies in order.
LEMMA InOrderEvent ==
    ASSUME NEW s \in Seq(Frame), NEW f \in Frame, ~IsReply(f), NEW r, NEW count,
           InOrder(s, r, count)
    PROVE  InOrder(Append(s, f), r, count)
<1> DEFINE t == Append(s, f)
<1>1. /\ Len(t) = Len(s) + 1 /\ Len(s) \in Nat /\ t[Len(s) + 1] = f
      /\ \A i \in 1..Len(s) : t[i] = s[i]
      /\ \A n \in 0..Len(s) : ReplyPlaces(t, n) = ReplyPlaces(s, n)
      /\ ReplyPlaces(t, Len(s) + 1) = ReplyPlaces(s, Len(s))
  BY PlacesGrow
<1> HIDE DEF t
<1> QED
  BY <1>1 DEF InOrder, t

\* The reply to the next line keeps them so.
LEMMA InOrderReply ==
    ASSUME NEW s \in Seq(Frame), NEW r, NEW count \in Nat, NEW id \in Call \cup {Null},
           InOrder(s, r, count), r[count + 1] = id
    PROVE  InOrder(Append(s, Reply(id)), r, count + 1)
<1> DEFINE f == Reply(id)
           t == Append(s, f)
<1>1. f \in Frame /\ IsReply(f)
  BY FramesTyped DEF Reply, IsReply
<1>2. /\ Len(t) = Len(s) + 1 /\ Len(s) \in Nat /\ t[Len(s) + 1] = f
      /\ \A i \in 1..Len(s) : t[i] = s[i]
      /\ \A n \in 0..Len(s) : ReplyPlaces(t, n) = ReplyPlaces(s, n)
      /\ ReplyPlaces(t, Len(s) + 1) = ReplyPlaces(s, Len(s)) \cup {Len(s) + 1}
  BY <1>1, PlacesGrow
<1>3. Cardinality(ReplyPlaces(t, Len(s) + 1)) = count + 1
  <2>1. IsFiniteSet(ReplyPlaces(s, Len(s))) /\ Cardinality(ReplyPlaces(s, Len(s))) = count
    BY <1>2, PlacesFinite DEF InOrder
  <2>2. Len(s) + 1 \notin ReplyPlaces(s, Len(s))
    BY <1>2 DEF ReplyPlaces
  <2>3. Cardinality(ReplyPlaces(s, Len(s)) \cup {Len(s) + 1}) = count + 1
    BY <2>1, <2>2, FS_AddElement
  <2> QED BY <1>2, <2>3
<1>4. f = Reply(r[count + 1])
  OBVIOUS
<1> HIDE DEF t, f
<1> QED
  BY <1>2, <1>3, <1>4 DEF InOrder, t, f

\* A line that is read is answered after those before it.
LEMMA InOrderRead ==
    ASSUME NEW s \in Seq(Frame), NEW r \in Seq(Call \cup {Null}), NEW x \in Call \cup {Null},
           NEW count \in Nat, count <= Len(r), InOrder(s, r, count)
    PROVE  InOrder(s, Append(r, x), count)
<1>1. Len(s) \in Nat /\ Len(r) \in Nat
  BY LenProperties
<1>2. \A i \in 1..Len(r) : Append(r, x)[i] = r[i]
  BY AppendProperties
<1>3. ASSUME NEW n \in 1..Len(s), IsReply(s[n])
      PROVE  s[n] = Reply(Append(r, x)[Cardinality(ReplyPlaces(s, n))])
  <2>1. Cardinality(ReplyPlaces(s, n)) \in 1..count
    BY <1>1, <1>3, PlacesFinite DEF InOrder
  <2>2. Cardinality(ReplyPlaces(s, n)) \in 1..Len(r)
    BY <1>1, <2>1
  <2> QED BY <1>2, <1>3, <2>2 DEF InOrder
<1> QED
  BY <1>3 DEF InOrder

------------------------------------------------------------------------------
(* Replies in order, and the end told once *)

Alive == open /\ daemon

Orderly ==
    /\ serving \in Call => read # <<>> /\ read[Len(read)] = serving
    /\ Alive => pump
    /\ Alive => InOrder(Sent, read, Answered)
    /\ Alive => Cardinality(EndPlaces(Sent)) = (IF job[TheJob].pc = "done" THEN 1 ELSE 0)

LEMMA OrderlyTells == Orderly => RepliesInOrder /\ EndIsTold
BY DEF Orderly, Alive, InOrder, RepliesInOrder, RepliesAmong, ReplyPlaces, EndPlaces, EndIsTold

LEMMA SentTyped ==
    ASSUME TypeOK
    PROVE  /\ got \in Seq(Frame) /\ frames \in Seq(Frame) /\ queue \in Seq(Frame)
           /\ got \o frames \in Seq(Frame) /\ Sent \in Seq(Frame)
<1>1. got \in Seq(Frame) /\ frames \in Seq(Frame) /\ queue \in Seq(Frame)
  BY DEF TypeOK
<1>2. got \o frames \in Seq(Frame)
  BY <1>1, ConcatProperties
<1> QED
  BY <1>1, <1>2, ConcatProperties DEF Sent

\* What is queued for somebody is sent.
LEMMA SentGrows ==
    ASSUME TypeOK, pump, NEW frame \in Frame, queue' = Queued(frame),
           got' = got, frames' = frames
    PROVE  Sent' = Append(Sent, frame)
<1>1. Sent' = (got \o frames) \o Append(queue, frame)
  BY DEF Sent, Queued
<1> QED
  BY <1>1, SentTyped, AppendToWhole DEF Sent

\* Frames that are handed on stay in their places.
LEMMA SentStays ==
    ASSUME TypeOK,
           \/ UNCHANGED <<got, frames, queue>>
           \/ /\ frames # <<>> /\ queue' = queue
              /\ got' = Append(got, Head(frames)) /\ frames' = Tail(frames)
           \/ /\ queue # <<>> /\ got' = got
              /\ frames' = Append(frames, Head(queue)) /\ queue' = Tail(queue)
    PROVE  Sent' = Sent
<1>0. /\ got \in Seq(Frame) /\ frames \in Seq(Frame) /\ queue \in Seq(Frame)
      /\ got \o frames \in Seq(Frame)
  BY SentTyped
<1>1. CASE UNCHANGED <<got, frames, queue>>
  BY <1>1 DEF Sent
<1>2. CASE /\ frames # <<>> /\ queue' = queue
           /\ got' = Append(got, Head(frames)) /\ frames' = Tail(frames)
  <2>1. Append(got, Head(frames)) \o Tail(frames) = got \o frames
    BY <1>0, <1>2, HeadMoves
  <2> QED BY <1>2, <2>1 DEF Sent
<1>3. CASE /\ queue # <<>> /\ got' = got
           /\ frames' = Append(frames, Head(queue)) /\ queue' = Tail(queue)
  <2>1. Head(queue) \in Frame
    BY <1>0, <1>3, HeadMoves
  <2>2. got \o Append(frames, Head(queue)) = Append(got \o frames, Head(queue))
    BY <1>0, <2>1, AppendToWhole
  <2>3. Append(got \o frames, Head(queue)) \o Tail(queue) = (got \o frames) \o queue
    <3> DEFINE a == got \o frames
    <3>1. a \in Seq(Frame) /\ queue \in Seq(Frame) /\ queue # <<>>
      BY <1>0, <1>3
    <3> HIDE DEF a
    <3>2. Append(a, Head(queue)) \o Tail(queue) = a \o queue
      BY <3>1, HeadMoves, Zenon
    <3> QED BY <3>2 DEF a
  <2>4. Sent' = (got \o Append(frames, Head(queue))) \o Tail(queue)
    BY <1>3 DEF Sent
  <2> QED BY <2>2, <2>3, <2>4 DEF Sent
<1> QED
  BY <1>1, <1>2, <1>3

\* A step that sends nothing, or that cuts the connection, leaves the order.
LEMMA QuietStep ==
    ASSUME Orderly, UNCHANGED <<read, serving>>, job'[TheJob] = job[TheJob],
           Alive' => Alive /\ pump' = pump /\ Sent' = Sent
    PROVE  Orderly'
<1>1. Alive' => Answered' = Answered
  BY DEF Answered
<1> QED
  BY <1>1 DEF Orderly

LEMMA EndsFinite ==
    ASSUME NEW s \in Seq(Frame)
    PROVE  IsFiniteSet(EndPlaces(s)) /\ Len(s) + 1 \notin EndPlaces(s)
<1>1. Len(s) \in Nat
  BY LenProperties
<1>2. IsFiniteSet(1..Len(s)) /\ EndPlaces(s) \in SUBSET (1..Len(s))
  BY <1>1, FS_Interval DEF EndPlaces
<1> QED
  BY <1>1, <1>2, FS_Subset

LEMMA ReadOrderly ==
    ASSUME RpcAssumption, TypeOK, Orderly, ReadLine
    PROVE  Orderly'
<1>0. /\ read \in Seq(Call \cup {Null}) /\ Len(read) \in Nat /\ Sent \in Seq(Frame)
      /\ serving = NoLine /\ NoLine \notin Call /\ "notification" \notin Call
      /\ "malformed" \notin Call /\ job' = job /\ Alive' = Alive /\ pump' = pump
  BY SentTyped, LenProperties DEF TypeOK, ReadLine, RpcAssumption, lvars, Alive
<1>1. \A x \in Call \cup {Null} :
        /\ Append(read, x) # <<>> /\ Len(Append(read, x)) = Len(read) + 1
        /\ Append(read, x)[Len(read) + 1] = x
  BY <1>0, AppendProperties
<1>2. Answered = Len(read)
  BY <1>0 DEF Answered
<1>3. ASSUME NEW x \in Call \cup {Null}
      PROVE  Alive => InOrder(Sent, Append(read, x), Len(read))
  BY <1>0, <1>2, InOrderRead DEF Orderly
<1>4. CASE Head(lines) \in Call
  <2>1. serving' = Head(lines) /\ read' = Append(read, Head(lines)) /\ queue' = queue
    BY <1>4 DEF ReadLine
  <2>2. Sent' = Sent
    BY <2>1, SentStays DEF ReadLine
  <2>3. Answered' = Len(read)
    BY <1>0, <1>1, <1>4, <2>1 DEF Answered
  <2> QED BY <1>0, <1>1, <1>3, <1>4, <2>1, <2>2, <2>3 DEF Orderly
<1>5. CASE Head(lines) \notin Call /\ Head(lines) # "malformed"
  <2>1. read' = read /\ queue' = queue /\ serving' \notin Call
    BY <1>0, <1>5 DEF ReadLine
  <2>2. Sent' = Sent
    BY <2>1, SentStays DEF ReadLine
  <2>3. Answered' = Len(read)
    BY <1>0, <2>1 DEF Answered
  <2> QED BY <1>0, <1>2, <2>1, <2>2, <2>3 DEF Orderly
<1>6. CASE Head(lines) = "malformed"
  <2>1. /\ serving' = serving /\ read' = Append(read, Null)
        /\ queue' = Queued(Reply(Null)) /\ got' = got /\ frames' = frames
    BY <1>0, <1>6 DEF ReadLine
  <2>2. Answered' = Len(read) + 1
    BY <1>0, <1>1, <2>1 DEF Answered
  <2>3. ASSUME Alive
        PROVE  /\ Sent' = Append(Sent, Reply(Null))
               /\ InOrder(Append(Sent, Reply(Null)), Append(read, Null), Len(read) + 1)
               /\ EndPlaces(Append(Sent, Reply(Null))) = EndPlaces(Sent)
    <3>1. Sent' = Append(Sent, Reply(Null))
      BY <2>1, <2>3, SentGrows, FramesTyped DEF Orderly
    <3>2. InOrder(Append(Sent, Reply(Null)), Append(read, Null), Len(read) + 1)
      BY <1>0, <1>1, <1>3, <2>3, InOrderReply
    <3>3. Reply(Null) # Event("loginComplete")
      BY DEF Reply, Event
    <3> QED BY <1>0, <3>1, <3>2, <3>3, PlacesGrow, FramesTyped
  <2> QED BY <1>0, <2>1, <2>2, <2>3 DEF Orderly
<1> QED
  BY <1>4, <1>5, <1>6

LEMMA NotifyOrderly ==
    ASSUME TypeOK, Orderly, Notify
    PROVE  Orderly'
<1> DEFINE f == Event("progress")
<1>1. /\ Sent \in Seq(Frame) /\ f \in Frame /\ ~IsReply(f) /\ f # Event("loginComplete")
      /\ UNCHANGED <<read, serving, job>> /\ Alive' = Alive /\ pump' = pump
  BY SentTyped, FramesTyped DEF Notify, lvars, Alive, Event, IsReply
<1>2. ASSUME Alive
      PROVE  /\ Sent' = Append(Sent, f) /\ InOrder(Sent', read, Answered)
             /\ EndPlaces(Sent') = EndPlaces(Sent)
  <2>1. Sent' = Append(Sent, f)
    BY <1>1, <1>2, SentGrows DEF Orderly, Notify
  <2>2. InOrder(Append(Sent, f), read, Answered)
    BY <1>1, <1>2, InOrderEvent DEF Orderly
  <2> QED BY <1>1, <2>1, <2>2, PlacesGrow
<1>3. Answered' = Answered
  BY <1>1 DEF Answered
<1> QED
  BY <1>1, <1>2, <1>3 DEF Orderly

LEMMA HandledOrderly ==
    ASSUME LoginAssumption, RpcAssumption, TypeOK, Orderly, Handled
    PROVE  Orderly'
<1>0. /\ read \in Seq(Call \cup {Null}) /\ Len(read) \in Nat /\ Sent \in Seq(Frame)
      /\ serving' \notin Call /\ read' = read
      /\ Alive' = Alive /\ pump' = pump /\ got' = got /\ frames' = frames
  BY SentTyped, LenProperties DEF TypeOK, Handled, RpcAssumption, Alive
<1>1. job'[TheJob].pc = "done" <=> job[TheJob].pc = "done"
  <2>1. CASE BeginDeviceCode(TheJob)
    BY <2>1, BeginTyped DEF Orderly, TypeOK
  <2>2. CASE UNCHANGED lvars
    BY <2>2 DEF lvars, Orderly
  <2> QED BY <2>1, <2>2 DEF Handled
<1>2. Answered' = Len(read)
  BY <1>0 DEF Answered
<1>3. CASE serving \in Call
  <2> DEFINE f == Reply(serving)
  <2>1. f \in Frame /\ f # Event("loginComplete")
    BY <1>3, FramesTyped DEF Reply, Event
  <2>2. Len(read) - 1 \in Nat /\ Answered = Len(read) - 1 /\ read[Len(read)] = serving
    BY <1>0, <1>3, EmptySeq DEF Orderly, Answered
  <2>3. ASSUME Alive
        PROVE  Sent' = Append(Sent, f) /\ InOrder(Sent', read, Len(read))
    <3>1. Sent' = Append(Sent, f)
      BY <1>0, <1>3, <2>1, <2>3, SentGrows DEF Orderly, Handled
    <3>2. (Len(read) - 1) + 1 = Len(read)
      BY <1>0
    <3>3. InOrder(Append(Sent, f), read, (Len(read) - 1) + 1)
      BY <1>0, <1>3, <2>2, <2>3, <3>2, InOrderReply DEF Orderly
    <3> QED BY <3>1, <3>2, <3>3
  <2>4. Alive => EndPlaces(Sent') = EndPlaces(Sent)
    BY <1>0, <2>1, <2>3, PlacesGrow
  <2> QED BY <1>0, <1>1, <1>2, <2>3, <2>4 DEF Orderly
<1>4. CASE serving \notin Call
  <2>1. Answered = Len(read)
    BY <1>0, <1>4 DEF Answered
  <2>2. Sent' = Sent
    BY <1>0, <1>4, SentStays DEF Handled
  <2> QED BY <1>0, <1>1, <1>2, <2>1, <2>2 DEF Orderly
<1> QED
  BY <1>3, <1>4

LEMMA SignInOrderly ==
    ASSUME LoginAssumption, RpcAssumption, TypeOK, Orderly, SignInGoesOn
    PROVE  Orderly'
<1> DEFINE f == Event("loginComplete")
<1>1. job[TheJob].pc \notin {"none", "done"}
  BY StepTyped, JobExists DEF SignInGoesOn, TypeOK
<1>3. /\ Sent \in Seq(Frame) /\ f \in Frame /\ ~IsReply(f)
      /\ UNCHANGED <<read, serving>> /\ Alive' = Alive /\ pump' = pump
      /\ got' = got /\ frames' = frames
  BY SentTyped, FramesTyped DEF SignInGoesOn, Alive, Event, IsReply
<1>4. Answered' = Answered
  BY <1>3 DEF Answered
<1>5. CASE job'[TheJob].pc = "done"
  <2>1. ASSUME Alive
        PROVE  InOrder(Sent', read, Answered) /\ Cardinality(EndPlaces(Sent')) = 1
    <3>1. Sent' = Append(Sent, f)
      BY <1>3, <1>5, <2>1, SentGrows DEF Orderly, SignInGoesOn
    <3>2. InOrder(Append(Sent, f), read, Answered)
      BY <1>3, <2>1, InOrderEvent DEF Orderly
    <3>3. EndPlaces(Sent') = EndPlaces(Sent) \cup {Len(Sent) + 1}
      BY <1>3, <3>1, PlacesGrow
    <3>4. Cardinality(EndPlaces(Sent)) = 0
      BY <1>1, <2>1 DEF Orderly
    <3>5. Cardinality(EndPlaces(Sent) \cup {Len(Sent) + 1}) = 1
      <4>1. IsFiniteSet(EndPlaces(Sent)) /\ Len(Sent) + 1 \notin EndPlaces(Sent)
        BY <1>3, EndsFinite
      <4>2. Cardinality(EndPlaces(Sent) \cup {Len(Sent) + 1}) = Cardinality(EndPlaces(Sent)) + 1
        BY <4>1, FS_AddElement
      <4> QED BY <3>4, <4>2
    <3>6. Cardinality(EndPlaces(Sent')) = 1
      BY <3>3, <3>5
    <3>7. InOrder(Sent', read, Answered)
      BY <3>1, <3>2
    <3> QED BY <3>6, <3>7
  <2> QED BY <1>3, <1>4, <1>5, <2>1 DEF Orderly
<1>6. CASE job'[TheJob].pc # "done"
  <2>1. Sent' = Sent
    BY <1>3, <1>6, SentStays DEF SignInGoesOn
  <2> QED BY <1>1, <1>3, <1>4, <1>6, <2>1 DEF Orderly
<1> QED
  BY <1>5, <1>6

LEMMA OrderlyStep ==
    ASSUME LoginAssumption, RpcAssumption, TypeOK, Orderly, [Next]_vars
    PROVE  Orderly'
<1>1. CASE UNCHANGED vars
  <2>1. UNCHANGED <<read, serving, job, open, daemon, pump, got, frames, queue>>
    BY <1>1 DEF vars, lvars, svars
  <2> QED BY <2>1, SentStays, QuietStep DEF Alive
<1>2. CASE Pump
  <2>1. UNCHANGED <<read, serving, job, open, daemon>>
    BY <1>2 DEF Pump, lvars
  <2>2. Alive => pump' = pump /\ Sent' = Sent
    BY <1>2, SentStays DEF Pump, Alive
  <2> QED BY <2>1, <2>2, QuietStep DEF Alive
<1>3. CASE ConnectionEnds \/ DaemonDies \/ Quit
  <2>1. UNCHANGED <<read, serving, job>> /\ ~Alive'
    BY <1>3 DEF ConnectionEnds, DaemonDies, Quit, lvars, svars, Alive
  <2> QED BY <2>1, QuietStep
<1>4. CASE TakeFrame \/ CliReply \/ CliAwait \/ AnyFrame
  <2>1. /\ UNCHANGED <<read, serving, job, open, daemon, pump, queue>>
        /\ frames # <<>> /\ got' = Append(got, Head(frames)) /\ frames' = Tail(frames)
    BY <1>4 DEF TakeFrame, CliReply, CliAwait, AnyFrame, lvars, svars
  <2> QED BY <2>1, SentStays, QuietStep DEF Alive
<1>5. CASE \/ ReaderEnds \/ ClearWriter \/ Drain \/ CliCall \/ CliEnds \/ AnyLine
           \/ \E k \in Call : Ask(k) \/ Insert(k) \/ WriteCall(k)
  <2>1. UNCHANGED <<read, serving, job, open, daemon, pump, queue, frames, got>>
    BY <1>5 DEF ReaderEnds, ClearWriter, Drain, CliCall, CliEnds, AnyLine, Ask, Insert,
                WriteCall, lvars, svars
  <2> QED BY <2>1, SentStays, QuietStep DEF Alive
<1>6. ASSUME NEW j \in Job, Launches(j) PROVE Orderly'
  <2>1. UNCHANGED <<read, serving, open, daemon, pump, queue, frames, got>>
    BY <1>6 DEF Launches, svars
  <2>2. job'[TheJob] = job[TheJob]
    BY <1>6, LaunchTyped, JobExists DEF TypeOK
  <2> QED BY <2>1, <2>2, SentStays, QuietStep DEF Alive
<1> QED
  BY <1>1, <1>2, <1>3, <1>4, <1>5, <1>6, ReadOrderly, NotifyOrderly, HandledOrderly, SignInOrderly
     DEF Next, Server, DesktopTask, Cli

LEMMA OrderlyHolds == Spec => []Orderly
<1>1. Init => Orderly
  <2> SUFFICES ASSUME Init PROVE Orderly
    OBVIOUS
  <2>1. /\ read = <<>> /\ got = <<>> /\ frames = <<>> /\ queue = <<>> /\ serving = NoLine
        /\ pump /\ \A j \in Job : job[j].pc = "none"
    BY DEF Init, LoginInit
  <2>2. NoLine \notin Call /\ TheJob \in Job
    BY RpcAssumption, JobExists DEF RpcAssumption
  <2>3. Sent = <<>> /\ Len(<<>>) = 0
    <3>1. <<>> \in Seq(Frame) /\ Len(<<>>) = 0
      BY EmptySeq
    <3> QED BY <2>1, <3>1, ConcatEmptySeq DEF Sent
  <2>4. ReplyPlaces(Sent, 0) = {} /\ EndPlaces(Sent) = {} /\ 1..Len(Sent) = {}
    BY <2>3 DEF ReplyPlaces, EndPlaces
  <2>5. Answered = 0
    BY <2>1, <2>2, <2>3 DEF Answered
  <2>6. InOrder(Sent, read, Answered)
    BY <2>3, <2>4, <2>5, FS_EmptySet DEF InOrder
  <2> QED BY <2>1, <2>2, <2>4, <2>6, FS_EmptySet DEF Orderly
<1>2. TypeOK /\ Orderly /\ [Next]_vars => Orderly'
  BY OrderlyStep, LoginAssumption, RpcAssumption
<1> QED
  BY <1>1, <1>2, RpcTypes, PTL DEF Spec

\* serve_connection answers every line in its turn, whatever its handlers and the
\* sign-in send meanwhile.
THEOREM RepliesOrdered == Spec => []RepliesInOrder
BY OrderlyTells, OrderlyHolds, PTL

\* The task of account_begin_login tells its end once, with a result or an error.
THEOREM EndTold == Spec => []EndIsTold
BY OrderlyTells, OrderlyHolds, PTL

\* The steps of a connection and of the launches beside it are steps of the chain.
LEMMA StepsOfLogin == ASSUME RpcAssumption, [Next]_vars PROVE [LoginNext]_lvars
<1> TheJob \in Job
  BY JobExists
<1>1. CASE SignInGoesOn
  BY <1>1 DEF SignInGoesOn, LoginNext
<1>2. ASSUME NEW j \in Job, Launches(j) PROVE LoginNext
  BY <1>2 DEF Launches, LoginNext
<1>3. CASE Handled
  BY <1>3 DEF Handled, LoginNext
<1>4. CASE \/ ReadLine \/ Pump \/ ConnectionEnds \/ Notify \/ DaemonDies \/ AnyLine \/ AnyFrame \/ Quit
  BY <1>4 DEF ReadLine, Pump, ConnectionEnds, Notify, DaemonDies, AnyLine, AnyFrame, Quit
<1>5. CASE DesktopTask \/ CliCall \/ Cli
  BY <1>5 DEF DesktopTask, TakeFrame, ReaderEnds, ClearWriter, Drain, CliCall, Cli, CliReply, CliAwait, CliEnds
<1>6. ASSUME NEW k \in Call, Ask(k) \/ Insert(k) \/ WriteCall(k) PROVE UNCHANGED lvars
  BY <1>6 DEF Ask, Insert, WriteCall
<1>7. CASE UNCHANGED vars
  BY <1>7 DEF vars
<1> QED
  BY <1>1, <1>2, <1>3, <1>4, <1>5, <1>6, <1>7 DEF Next, Server

\* However many sign-ins and renewals there are, in whichever order, and whatever the
\* services answer them: nobody is remembered or launched with whose session has not
\* been through the whole of Authenticator::complete.
THEOREM OnlyVerified == Spec => []AccountVerified
<1>1. LoginInit => LoginTypeOK /\ AllChecked
  <2> SUFFICES ASSUME LoginInit PROVE LoginTypeOK /\ AllChecked
    OBVIOUS
  <2>1. saved = {} /\ used = {} /\ \A j \in Job : job[j].pc = "none"
    BY DEF LoginInit
  <2> QED BY <2>1, LoginStart DEF AllChecked, Checked
<1>2. ASSUME LoginTypeOK, AllChecked, [LoginNext]_lvars PROVE LoginTypeOK' /\ AllChecked'
  <2>0. job \in [Job -> State]
    BY <1>2 DEF LoginTypeOK
  <2>1. CASE UNCHANGED lvars
    BY <1>2, <2>1 DEF lvars, LoginTypeOK, AllChecked, Checked, Verified
  <2>2. ASSUME NEW j \in Job, job[j].pc = "none", NEW r \in State, r.pc \in {"sleep", "refresh"},
               job' = [job EXCEPT ![j] = r], UNCHANGED <<saved, used, facts>>
        PROVE  LoginTypeOK' /\ AllChecked'
    <3>1. job'[j] = r /\ \A i \in Job \ {j} : job'[i] = job[i]
      BY <2>0, <2>2
    <3>2. AllChecked'
      BY <1>2, <2>2, <3>1 DEF AllChecked, Checked, Verified
    <3> QED BY <1>2, <2>2, <3>2 DEF LoginTypeOK
  <2>3. ASSUME NEW j \in Job, BeginDeviceCode(j) PROVE LoginTypeOK' /\ AllChecked'
    <3> DEFINE r == [job[j] EXCEPT !.pc = "sleep"]
    <3>1. r \in State /\ r.pc = "sleep"
      BY <2>0, JobChanges, LoginAssumption DEF Pc
    <3>2. job' = [job EXCEPT ![j] = r] /\ job[j].pc = "none" /\ UNCHANGED <<saved, used, facts>>
      BY <2>0, <2>3 DEF BeginDeviceCode, Goto
    <3> HIDE DEF r
    <3> QED BY <2>2, <3>1, <3>2
  <2>4. ASSUME NEW j \in Job, BeginRenewal(j) PROVE LoginTypeOK' /\ AllChecked'
    <3> DEFINE r == [job[j] EXCEPT !.pc = "refresh", !.entry = "refresh"]
    <3>1. r \in State /\ r.pc = "refresh"
      <4>1. job[j] \in State
        BY <2>0
      <4> QED BY <4>1, JobChanges, LoginAssumption DEF State
    <3>2. job' = [job EXCEPT ![j] = r] /\ job[j].pc = "none" /\ UNCHANGED <<saved, used, facts>>
      BY <2>0, <2>4 DEF BeginRenewal
    <3> HIDE DEF r
    <3> QED BY <2>2, <3>1, <3>2
  <2>5. ASSUME NEW j \in Job, LoginStep(j) PROVE LoginTypeOK' /\ AllChecked'
    BY <1>2, <2>5, StepTyped, StepChecked, LoginAssumption
  <2>6. ASSUME NEW j \in Job, UseStored(j) PROVE LoginTypeOK' /\ AllChecked'
    BY <1>2, <2>6 DEF UseStored, LoginTypeOK, AllChecked, Checked, Verified
  <2> QED BY <1>2, <2>1, <2>3, <2>4, <2>5, <2>6 DEF LoginNext
<1>3. LoginTypeOK /\ AllChecked => AccountVerified
  BY DEF LoginTypeOK, AllChecked, Checked, Verified, AccountVerified
<1>4. Init => LoginInit
  BY DEF Init
<1>5. [Next]_vars => [LoginNext]_lvars
  BY StepsOfLogin, RpcAssumption
<1> QED
  BY <1>1, <1>2, <1>3, <1>4, <1>5, PTL DEF Spec

------------------------------------------------------------------------------
(* The calls of the window *)

\* Once the task that reads is gone no call is left waiting: one that had written
\* was in the map and was told, one that had not finds the writer gone.
Drained ==
    /\ reader # "reading" => ~open
    /\ client = "desktop" /\ reader \in {"drain", "gone"} => ~writer
    /\ client = "desktop" /\ reader # "gone" =>
          \A k \in Call : call[k] \in {"write", "waiting"} => k \in pending
    /\ client = "desktop" /\ reader = "gone" => \A k \in Call : call[k] # "waiting"

LEMMA DrainedStep ==
    ASSUME TypeOK, Drained, [Next]_vars
    PROVE  Drained'
<1>0. call \in [Call -> {"idle", "insert", "write", "waiting", "answered", "disconnected"}]
  BY DEF TypeOK
<1>1. CASE UNCHANGED <<client, call, pending, writer, reader>> /\ (open' => open)
  BY <1>1 DEF Drained
<1>2. ASSUME NEW k \in Call, Ask(k) \/ Insert(k) PROVE Drained'
  BY <1>0, <1>2 DEF Ask, Insert, Become, Drained
<1>3. ASSUME NEW k \in Call, WriteCall(k) PROVE Drained'
  <2>1. client = "desktop" /\ call[k] = "write" /\ UNCHANGED <<client, writer, reader, open>>
    BY <1>3 DEF WriteCall
  <2>2. CASE Become(k, "disconnected") /\ pending' \in {pending, pending \ {k}}
    BY <1>0, <2>1, <2>2 DEF Become, Drained
  <2>3. CASE writer /\ Become(k, "waiting") /\ pending' = pending
    <3>1. reader # "gone" /\ k \in pending
      BY <2>1, <2>3 DEF Drained
    <3> QED BY <1>0, <2>1, <2>3, <3>1 DEF Become, Drained
  <2> QED BY <1>3, <2>2, <2>3 DEF WriteCall
<1>4. CASE TakeFrame
  <2>1. reader = "reading" /\ UNCHANGED <<client, writer, reader, open>>
    BY <1>4 DEF TakeFrame
  <2>2. PICK answered \in SUBSET pending :
           /\ pending' = pending \ answered
           /\ call' = [k \in Call |-> IF k \in answered THEN "answered" ELSE call[k]]
    BY <1>4 DEF TakeFrame
  <2> QED BY <1>0, <2>1, <2>2 DEF Drained
<1>5. CASE ReaderEnds \/ ClearWriter
  BY <1>5 DEF ReaderEnds, ClearWriter, Drained
<1>6. CASE Drain
  <2>1. /\ client = "desktop" /\ reader = "drain" /\ reader' = "gone"
        /\ UNCHANGED <<client, writer, open>>
        /\ call' = [k \in Call |-> IF k \in pending /\ call[k] = "waiting" THEN "disconnected"
                                   ELSE call[k]]
    BY <1>6 DEF Drain
  <2>2. \A k \in Call : call'[k] # "waiting"
    BY <1>0, <2>1 DEF Drained
  <2> QED BY <2>1, <2>2 DEF Drained
<1>7. CASE CliCall \/ CliReply \/ CliAwait \/ CliEnds
  <2>1. client' = "cli" /\ reader' = reader /\ open' = open
    BY <1>7 DEF CliCall, CliReply, CliAwait, CliEnds
  <2> QED BY <2>1 DEF Drained
<1>8. CASE Quit
  BY <1>8 DEF Quit, Drained
<1>9. CASE Server \/ Notify \/ DaemonDies \/ AnyLine \/ AnyFrame \/ UNCHANGED vars
           \/ SignInGoesOn \/ \E j \in Job : Launches(j)
  <2>1. UNCHANGED <<client, call, pending, writer, reader>> /\ (open' => open)
    BY <1>9 DEF Server, ReadLine, Handled, Pump, ConnectionEnds, Notify, DaemonDies, AnyLine, AnyFrame,
                SignInGoesOn, Launches, vars, cvars
  <2> QED BY <1>1, <2>1
<1> QED
  BY <1>2, <1>3, <1>4, <1>5, <1>6, <1>7, <1>8, <1>9 DEF Next, DesktopTask, Cli

\* Client::call is never left waiting behind the task of connect: what WaitsEnd
\* says of the window comes down to that task's last two steps.
THEOREM NobodyForgotten ==
    Spec => [](client = "desktop" /\ reader = "gone" => \A k \in Call : call[k] # "waiting")
<1>1. Init => Drained
  BY DEF Init, Drained
<1>2. TypeOK /\ Drained /\ [Next]_vars => Drained'
  BY DrainedStep
<1>3. Drained => (client = "desktop" /\ reader = "gone" => \A k \in Call : call[k] # "waiting")
  BY DEF Drained
<1> QED
  BY <1>1, <1>2, <1>3, RpcTypes, PTL DEF Spec

==============================================================================
