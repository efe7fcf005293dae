------------------------------ MODULE FileFetch ------------------------------
(***************************************************************************)
(* Downloading one file whose size and digest are published:               *)
(* Installer::install_asset, which takes a file of the right size for the  *)
(* right file, and Fetcher::to_file, which retries, resumes a partial file *)
(* with a range request and verifies what it received.  Tasks are calls    *)
(* for the same path: two assets with one hash, or two installs.           *)
(*                                                                         *)
(* A byte is its position in the published file, or 0 when it is wrong, so *)
(* that the published file is <<1, ..., Size>> and no other content has    *)
(* its digest.  The file is never empty as published, so a missing file    *)
(* and an empty one are alike to the code and here.                        *)
(***************************************************************************)
EXTENDS Naturals, Sequences, FiniteSets

CONSTANTS
    Task,      \* calls that fetch the file
    Size,      \* its published size
    MaxBody,   \* bound: bytes in the longest response, with the prefix it resumes
    FetchAttempts,  \* Builder::attempts
    Permits,   \* Builder::concurrency
    Crashes    \* the daemon may die

ASSUME FetchAssumption ==
    /\ IsFiniteSet(Task) /\ Task # {}
    /\ {Size, FetchAttempts, Permits, MaxBody} \subseteq Nat \ {0}
    /\ Size <= MaxBody
    /\ Crashes \in BOOLEAN

VARIABLES
    file,    \* the bytes at the destination
    task,    \* where each call is
    honestServers   \* servers only ever send the published file

fetchVars == <<file, task, honestServers>>

Byte == 0..MaxBody
PublishedFile == [k \in 1..Size |-> k]

FetchPc == {"idle", "acquire", "stat", "send", "truncate", "seed", "body", "backoff"}

TaskState == [pc      : FetchPc,
              attempt : 1..FetchAttempts,
              resume  : 0..Size - 1,          \* resume_from; 0 stands for None
              append  : BOOLEAN,              \* the file was opened for appending
              pos     : 0..MaxBody,           \* where the server is in its file
              seen    : Seq(Byte),            \* what the verifier has digested
              result  : {"none", "ok", "failed"}]

Start == [pc |-> "idle", attempt |-> 1, resume |-> 0, append |-> FALSE, pos |-> 0,
          seen |-> <<>>, result |-> "none"]

FetchTypeOK ==
    /\ file \in Seq(Byte)
    /\ task \in [Task -> TaskState]
    /\ honestServers \in BOOLEAN

FetchInit ==
    /\ file = <<>>
    /\ task = [t \in Task |-> Start]
    /\ honestServers \in BOOLEAN

------------------------------------------------------------------------------
(* Helpers *)

\* is_present_with_size.
IsPresentWithSize == Len(file) = Size

\* Fault: the digest is not compared.
SizeOnly(seen) == Len(seen) = Size

\* Verifier::finish: the size, then the digest.
Verified(seen) == seen = PublishedFile

\* Tasks that hold a permit of the semaphore: those in the middle of an attempt.
Holding == {t \in Task : task[t].pc \in {"stat", "send", "truncate", "seed", "body"}}

\* Writing b at offset c; a gap that a truncation left is filled with zeros.
WriteAt(f, c, b) ==
    [k \in 1..(IF c < Len(f) THEN Len(f) ELSE c + 1) |->
        IF k = c + 1 THEN b ELSE IF k <= Len(f) THEN f[k] ELSE 0]

\* Task t returns.
ReturnFrom(t, result) == task' = [task EXCEPT ![t] = [Start EXCEPT !.result = result]]

FetchGoto(t, pc) == task' = [task EXCEPT ![t].pc = pc]

------------------------------------------------------------------------------
(* Actions *)

\* install_asset: a file of the published size is taken as it is.
Reuse(t) ==
    /\ task[t].pc = "idle"
    /\ IsPresentWithSize
    /\ ReturnFrom(t, "ok")
    /\ UNCHANGED <<file, honestServers>>

Begin(t) ==
    /\ task[t].pc = "idle"
    /\ ~IsPresentWithSize
    /\ task' = [task EXCEPT ![t] = [Start EXCEPT !.pc = "acquire"]]
    /\ UNCHANGED <<file, honestServers>>

Acquire(t) ==
    /\ task[t].pc = "acquire"
    /\ Cardinality(Holding) < Permits
    /\ FetchGoto(t, "stat")
    /\ UNCHANGED <<file, honestServers>>

\* resumable_prefix: a file that is shorter than published is resumed.
Stat(t) ==
    /\ task[t].pc = "stat"
    /\ task' = [task EXCEPT ![t] =
                  [@ EXCEPT !.pc = "send",
                            !.resume = IF Len(file) < Size THEN Len(file) ELSE 0]]
    /\ UNCHANGED <<file, honestServers>>

\* The response: 206 continues where the prefix ends, 200 starts over.
FetchRespond(t) ==
    /\ task[t].pc = "send"
    /\ \E partial \in BOOLEAN :
        FetchGoto(t, IF partial /\ task[t].resume > 0 THEN "seed" ELSE "truncate")
    /\ UNCHANGED <<file, honestServers>>

\* Fault: the response is appended whatever its status.
TruncateSkipped(t) ==
    /\ task[t].pc = "truncate"
    /\ task' = [task EXCEPT ![t] = [@ EXCEPT !.pc = "body", !.append = TRUE,
                                             !.pos = 0, !.seen = <<>>]]
    /\ UNCHANGED <<file, honestServers>>

\* create_truncated.
Truncate(t) ==
    /\ task[t].pc = "truncate"
    /\ file' = <<>>
    /\ task' = [task EXCEPT ![t] = [@ EXCEPT !.pc = "body", !.append = FALSE,
                                             !.pos = 0, !.seen = <<>>]]
    /\ UNCHANGED honestServers

\* seed_verifier_from_prefix reads what is in the file now, up to the length the
\* range request gave; then open_for_append.
Seed(t) ==
    /\ task[t].pc = "seed"
    /\ task' = [task EXCEPT ![t] =
                  [@ EXCEPT !.pc = "body", !.append = TRUE, !.pos = task[t].resume,
                            !.seen = IF Len(file) < task[t].resume THEN file
                                     ELSE SubSeq(file, 1, task[t].resume)]]
    /\ UNCHANGED <<file, honestServers>>

\* A chunk arrives: it is digested, then written.
ReceiveChunk(t) ==
    /\ task[t].pc = "body"
    /\ task[t].pos < MaxBody
    /\ \E b \in {task[t].pos + 1, 0} :
        /\ honestServers => b # 0 /\ task[t].pos < Size
        /\ file' = IF task[t].append THEN Append(file, b)
                   ELSE WriteAt(file, task[t].pos, b)
        /\ task' = [task EXCEPT ![t] = [@ EXCEPT !.pos = task[t].pos + 1,
                                             !.seen = Append(task[t].seen, b)]]
    /\ UNCHANGED honestServers

\* The body ends: the download is what was published, or it is an error that is
\* not retried.  Either way the file stays.
FinishAttempt(t) ==
    /\ task[t].pc = "body"
    /\ honestServers => task[t].pos = Size
    /\ ReturnFrom(t, IF Verified(task[t].seen) THEN "ok" ELSE "failed")
    /\ UNCHANGED <<file, honestServers>>

\* Faults: one attempt too many; attempts that are not counted.
RetryAttemptOnceMore(t) ==
    /\ task[t].pc \in {"send", "body"}
    /\ IF task[t].attempt <= FetchAttempts
       THEN task' = [task EXCEPT ![t] = [@ EXCEPT !.pc = "backoff", !.attempt = task[t].attempt + 1]]
       ELSE ReturnFrom(t, "failed")
    /\ UNCHANGED <<file, honestServers>>

RetryForever(t) ==
    /\ task[t].pc \in {"send", "body"}
    /\ FetchGoto(t, "backoff")
    /\ UNCHANGED <<file, honestServers>>

\* A connection that fails, a time-out, or a status that says to try again.
RetryAttempt(t) ==
    /\ task[t].pc \in {"send", "body"}
    /\ IF task[t].attempt < FetchAttempts
       THEN task' = [task EXCEPT ![t] = [@ EXCEPT !.pc = "backoff", !.attempt = task[t].attempt + 1]]
       ELSE ReturnFrom(t, "failed")
    /\ UNCHANGED <<file, honestServers>>

\* The permit is given back during the backoff.
Backoff(t) ==
    /\ task[t].pc = "backoff"
    /\ FetchGoto(t, "acquire")
    /\ UNCHANGED <<file, honestServers>>

\* A host that is not allowed, another status, a broken body, a full disk.
FailAttempt(t) ==
    /\ task[t].pc \in {"stat", "send", "truncate", "seed", "body"}
    /\ ReturnFrom(t, "failed")
    /\ UNCHANGED <<file, honestServers>>

FetchCrash ==
    /\ Crashes
    /\ task' = [t \in Task |-> Start]
    /\ UNCHANGED <<file, honestServers>>

\* What a call does on its own once it has begun, with what the network does to
\* it: the client's time-outs see to it that the network does something.
FetchStep(t) ==
    \/ Stat(t) \/ FetchRespond(t) \/ Truncate(t) \/ Seed(t) \/ ReceiveChunk(t) \/ FinishAttempt(t)
    \/ RetryAttempt(t) \/ Backoff(t) \/ FailAttempt(t)

FetchNext ==
    \/ \E t \in Task : Reuse(t) \/ Begin(t) \/ Acquire(t) \/ FetchStep(t)
    \/ FetchCrash

FetchSpec == FetchInit /\ [][FetchNext]_fetchVars

\* Attempts go on, and the semaphore is first come first served.
FetchFairness == \A t \in Task : WF_fetchVars(FetchStep(t)) /\ SF_fetchVars(Acquire(t))

FetchFairSpec == FetchSpec /\ FetchFairness

------------------------------------------------------------------------------
(* Properties *)

\* While a body is received the verifier has digested exactly what is in the
\* file, whether the download was resumed or started over.
SeenIsFile ==
    \A t \in Task : task[t].pc = "body" => task[t].seen = file

\* A download (as opposed to a file found in place) succeeds only with the
\* published file on disk, whatever servers send (Fetcher::to_file).
DownloadVerified ==
    [][\A t \in Task :
         (task[t].pc = "body" /\ task'[t].result = "ok") => file' = PublishedFile]_fetchVars

\* Whatever is interrupted, and wherever, what is on disk is the beginning of the
\* published file, so that resuming after its length is right (as long as
\* servers are honest and one call at a time writes the file).
PrefixOfPublished ==
    honestServers =>
        /\ Len(file) <= Size
        /\ file = SubSeq(PublishedFile, 1, Len(file))

\* When every call has returned success, the published file is there.
InstalledVerified ==
    (\A t \in Task : task[t].result = "ok") => file = PublishedFile

\* README.md:11-12, as far as it holds: when every call has returned success, by a
\* download or by taking a file for its size, the published file is there, if servers
\* only ever sent it: resuming, retrying, and fetches of one path that take turns, do
\* not spoil it.
InstalledIfHonest == honestServers => InstalledVerified

\* Every fetch returns: attempts are bounded and every path out of one gives its
\* permit back.
FetchEnds ==
    \A t \in Task : task[t].pc # "idle" ~> task[t].pc = "idle"
==============================================================================
