# Acelus in TLA+

Acelus is a Minecraft launcher: a daemon (`acelusd`, Rust) that resolves, downloads,
stores, places and starts game instances, and clients (a Go command line, a Tauri
interface) that drive it over JSON-RPC on a local socket. This directory models the parts
of it that are hard to test: files that are written in steps a crash or another request
can fall between, downloads that are cut off and resumed, accounts whose tokens and listing
are kept in two places, processes that outlive whoever started them, replies and
notifications that share a connection, and plans merged from the metadata of several
services.

Paths below are relative to the repository root; `PROJECT.json` maps each definition to
the lines it models, lists the hazards the properties are aimed at, and lists the results.

## The system

| Part | Source | State it keeps | Operations | What is hard |
| --- | --- | --- | --- | --- |
| Content addressed store | `core/acelus-cas` | objects by BLAKE3, aliases, temporary files | write, commit, materialize (shared or private), gc, alias | hard links into the store, crash between rename and chmod, check then rename |
| Fetcher | `core/acelus-net` | a semaphore; the file being downloaded | `to_file`, `to_writer`, `bytes` | retries that resume, truncated and corrupt bodies, two calls for one path |
| Installer | `core/acelus-instance/src/install.rs` | lockfile, aliases, placed files | `install` | reuse through aliases, partial installs, assets taken by size |
| Java provisioner | `.../java.rs` | runtime directory and its marker | `provision`, `discover_system_java` | files taken by size, downloads side by side, marker written last |
| Instances | `.../descriptor.rs`, `import.rs` | descriptor, game directory | create, configure, list, delete, import | read-modify-write without locks, check then create, undo of an import |
| Resolver, loaders | `.../resolve.rs`, `loader.rs`, `core/acelus-meta` | none (over fetched metadata) | resolve, apply | duplicate libraries under several names, digests that come back in any order, version order |
| Account store | `core/acelus-auth/src/store.rs` | `accounts.json`, keyring or `credentials.json` | remember, select, forget, load | two places written one after the other, no lock |
| Sign-in chain | `core/acelus-auth` | pending sign-ins | begin, poll, renew | device code deadline, refusals of five services |
| Launch sessions | `core/acelus-launch`, `acelus-native-sys`, `native/procguard` | child processes, log rings | spawn, terminate, tail | pids used again, games that fork, a daemon that dies, output after the end of the game |
| Transport | `core/acelus-rpc` | one queue per connection | serve, notify | notifications between request and reply, ends that go away |
| Daemon | `core/acelusd` | the parts above, sessions, pending sign-ins | one handler per method | every request runs beside those of other connections |
| Clients | `cli`, `ui` | pending requests | call, listen | replies and notifications on one stream |
| Diagnostics, content | `core/acelus-diag`, `core/acelus-content` | none | match a log against a table | nothing |

A connection of the daemon serves one request at a time (`transport.rs`), but connections
run beside each other and handlers take no lock on files: everything under the data
directory is shared by all of them. Install calls the resolver, then the fetcher and the
store for each artifact, then the provisioner, and writes the lockfile last. A launch reads
descriptor and lockfile, asks the account store for a usable account (which may renew it at
the identity provider), and spawns the game. Sign-in runs in the background after its
request has been answered.

What makes each part correct: an object in the store is what its address says, and no
instance can change it or another instance; a download reported done is the published file;
a lockfile describes what is installed; a descriptor keeps what its last successful change
said; the account selected is the account launched; a listed account has its tokens and a
removed one leaves none; every spawned game is under guard; every request gets one reply.

## Modules

| Module | Models | Extends or instantiates |
| --- | --- | --- |
| `BlobStore` | what the store promises: whole contents that appear and go | |
| `Cas` | the store at the grain of system calls | implements `BlobStore` |
| `FileFetch` | `install_asset` and `Fetcher::to_file` for one path | |
| `Accounts` | `AccountStore`, `usable_account`, `renew` and the account requests | |
| `Install` | `install.run`: aliases, placement, natives, lockfile | instantiates `BlobStore` |
| `Instances` | the directories of instances: create, import, configure, launch, delete | |
| `Java` | `JavaProvisioner::provision`: listing, downloads, links, marker | |
| `Sessions` | launched games, the process guard, `launch.stop`, log rings | |
| `Login` | sign-ins with a device code, renewals with a refresh token, and the services both go through | |
| `Rpc` | one connection: server, desktop window, command line, other programs | extends `Login` |
| `Rules` | rules and arguments of the metadata, as operators | |
| `Metadata` | libraries, coordinates and builds of loaders, as operators | extends `Rules` |
| `Planning` | from a descriptor to a plan, a lockfile and a command line | extends `Metadata` |
| `MC*` | small constants and symmetry for TLC | the module named |
| `*Proofs` | theorems | the module named |

Definitions marked *Fault* are plausible mistakes in the code: substituted for the definition
that follows them they make TLC find the property named for them in `PROJECT.json`
violated. No behaviour of a specification uses them.

### Cas

`file` is the inode table (bytes and mode), `objects` the object directory, `dests` the
paths of instances, `op` where each thread of the daemon is. A content is its own address.
`WriterNew`, `WriterWrite`, `WriterDrop` and `Commit*` are the steps of `Writer`; commit
looks whether the object is there (`CommitFound`, `CommitAbsent`), renames and then
removes the write permission (`CommitSeal`), so that a crash can fall between any two.
`Mat*`, `Reflink*`, `HardLink*` and `Copy*` are `materialize` and `place`: the old file is
unlinked, then a clone, a link (shared places only) or a copy is made, then the mode is
set. `Gc*` is the walk of `gc`. `Edit` and `Remove` are the game, the user and
`instance.delete`; an edit goes through whatever link the path is.

Three constants say how the store is used. `Overlap`: may two operations use one destination
at a time. `EditShared`: do programs also edit files in shared places. `Crashes`: may the
daemon die. With `Overlap` and `Crashes` false everything holds; with both true it does not:
`fs::copy` truncates a file that another thread has just linked to the object, and a crash
leaves the object cut. The daemon takes no lock that would rule it out; instances have their
own directories, but the asset index is placed at one path for all of them
(`install.rs:270-275`).

- `ObjectsIntact`, `PrivateApart`, `ObjectsSealed`: no name in the store ever shows other
  bytes, and what is placed in an instance shares no inode it could be spoiled through.
- `InstancesIsolated`: no step changes a shared file that is in place. It has a proof
  (`InstancesSafe`) and no run.
- `MaterializeDelivers`: success means the whole object is there with its mode.
- `ImplementsBlobStore`: the refinement, with a blob stored exactly when its name exists.

### FileFetch

`file` is what is on disk, `task` the calls for that path, `honestServers` whether servers only
send the published file. A byte is its position in the published file, or 0 when it is
wrong. `Reuse` is `is_present_with_size`; `Stat` reads the length a resumed download asks to
continue from; `FetchRespond` is the server's choice of 200 or 206; `Truncate` or `Seed` open
the file; `ReceiveChunk` digests and writes; `FinishAttempt` compares the digest;
`RetryAttempt` is what `is_retryable` allows, `Backoff` its delay without the permit.

- `DownloadVerified`: what is reported downloaded is the published file, whatever is sent.
- `InstalledIfHonest`: interruptions, retries and taking files by size cost nothing with
  honest servers.
- `FetchEnds`: every call returns.

### Accounts

`registry` is `accounts.json`, `secrets` the tokens in either store, `backing` the store
this daemon chose, `op` the requests in progress, `chosen` a history variable with the last
selection that was answered. `fs::write` is two steps (`Truncate`, `Write`), and two
threads that write at once may leave a mixture, which like an empty file is no JSON
(`Torn`). `Begin` starts a sign-in that has succeeded, a launch, a selection or a removal;
`Lookup` and `Renewed` are `usable_account` and `renew`; `Keyring` and `File*` the secret
stores; `Load`, `Truncate`, `Write` the registry; `Fail` an error at any of those steps;
`Restart` a daemon that dies and is started again.

- `RegistryWellFormed`: whatever overlaps, fails or dies, a readable registry lists no
  account twice and names an active one exactly if it lists any.
- `RepliesTrue`: of a request that no other has met since the daemon started, whatever
  overlaps, failures and crashes left to it before.
- `SelectionKept`: sign-ins wait in the background, launches await the identity provider and
  other accounts are removed while and after a selection is made, and it stays. That is so
  until a request reads `accounts.json` between another's read and write of it, which the
  daemon does not rule out: either of the two may then undo what the other did, so `chosen`
  promises nothing more until the next selection that is saved alone.

### Install

`blob` is the store, seen as `BlobStore`: `Cas` shows under which use that is what it is.
`alias` is `aliases/sha1`, `placed` the files at the paths of artifacts, `natives` the
archives that are unpacked, `lock` the lockfiles, `job` the requests in progress, `settled`
a history variable: the instances whose last install was answered for and had the instance
to itself. `Plans` says what the resolver and the loaders may answer for an instance, so
that two installs of one instance may have different plans.

A job goes over its plan three times. `Reuse`, or `Fetch` with `AliasTruncate` and
`AliasWrite`, is `acquire`; `PlaceUnlink` and `PlacePut` are `place`; `PassOver`, `Unpack`
and `UnpackEnd` are `unpack_native`. Then `Provision` stands for assets (`FileFetch`) and
Java, and `LockTruncate` and `LockWrite` for `write_lockfile` and the reply. `fs::write` is
two steps, and a lockfile two jobs write at once may be a mixture (`Garbage`); an alias is
written by all with the same text. `Fail` ends a request at any point: an error, a step the
work of another job made impossible, or a client that is gone. `Unpack` reads the archive
from the instance, where another job may have replaced it, as the code does. Archives of
one plan are taken to hold different files.

- `AliasSound`: a torn or raced alias costs a download, never a wrong file.
- `LockSound`: a lockfile that parses pins verified contents, artifact by artifact.
- `SettledStays`: what an install finished, only installs of the same instance undo. The
  asset index is excepted, as all instances share it.

### Instances

`dir` is what the directory of each id holds: the descriptor, what `install.run` put there
(`managed`) and the player's files (`data`); `op` the requests in progress. Three history
variables say what may be expected: the `base` of a request is the directory it found, as
long as nobody else comes to the instance; `told` the directory as the last answer has it;
`worlds` the files the game wrote that neither a delete nor an import was to take.

`Exists` and `Get` are the check of `create` and the read of `configure` and
`launch_start`; `Await` is everything a launch waits for before it saves what it has read.
`Truncate` and `Write` are `save`; `Carry*` the copy of an import, whose failure goes on
as a `delete`; `Find`, `Keep*`, `Remove*` are `delete`. `Play` is the game, `InstallRun` an
install as one step. `Fail` is an error of the disk, `Crash` the end of the daemon. Settings
stand for memory and JVM arguments, played for the time of the last launch; version and
loader, which no request changes, are left out.

- `ToldIsSo`: whatever was found, half deleted or torn, a request that had the instance to
  itself did what it answers and nothing else. Of `instance.create` that is the descriptor
  and no lockfile, whatever `schema/rpc.json:100` says (below).
- `CutShort`: a request that is cut short, by the disk or by the end of the daemon, leaves
  the directory it found with no more than its own change, half done. A delete that keeps
  the data has the descriptor to its last step, so that it can be asked for again.
- `WorldsStay`: whatever overlaps, fails or dies. An import that finds no descriptor copies
  over data that was kept under its name, and if its copying fails it removes all of it.

### Java

`disk` is the length of each file of the runtime, the body it is a prefix of and its mode;
`link`, `marker` and `op` (with a stage and a count of attempts for each file, as downloads
run side by side) are the rest of a provision. `Provision` is `is_complete`; `Check` takes a
file by its size, and sets its mode all the same; `Respond`, `Chunk`, `BodyEnds` and `Retry`
are `to_file`, in less detail than `FileFetch`; `Collect` waits for all downloads before an
error counts. `MarkEmpty` and `Mark` are `fs::write`. `Publish` puts a newer listing in
place of the one that was there, which leaves files, modes and the link of the older one.

- `MarkerSound`: nothing is looked at once the marker names the listing, so while it does,
  all of it is there: `Check` and the order of the marker's two writes carry this.
- `RuntimeGenuine`: with honest servers, files no listing has changed have their content. A
  file that changes and keeps its size is exempt: it is taken for the new one.
- `Recovers`: whatever was left behind, asking again completes the runtime.

### Sessions

`proc` is every process of the machine: those of games, and programs that are no concern of
Acelus, which take pids from the same set. `session` says how far each launch is, `log` what
was read of its two streams and the ring. `Spawn` to `List` are `Session::spawn` and the end
of `launch_start`; between fork and `exec` the child sets its group (`SetGroup`) and asks to be
killed with the daemon (`Exec`, Linux only). `platform` picks the guard: a process group on
POSIX, a job object on Windows. `Left` is what remains of a process that ends: a child the
daemon holds on to keeps its pid, which is why a stop cannot hit another program. `Capture`
and `CaptureEnds` are the tasks that read output.

- `SignalsItsOwn`, `StopReaches`: a stop signals every process of the game and no other.
- `GuardedEnds`: a game that was answered for does not outlive the daemon.
- `LogFaithful`: the ring has the last lines of each stream, and nothing that was written
  before the end of the game is missed.

### Login and Rpc

`Login` is `Authenticator` with its two entries. The task behind `account.beginLogin`
sleeps and polls until the code expires (`Sleep`, `Poll`); a launch whose session is about to
expire hands in the refresh token (`BeginRenewal`, `Refresh`). Then each service has a step,
which goes on or ends with the code that its refusal is reported with. `saved` are those
remembered, `used` those a launch was given: renewed, also if that could not be saved, or
stored (`UseStored`). `facts` records what the services said. The answer about entitlements
is of two parts, a token whose claims Mojang signs and items that nobody signs; `Verify`
checks the one and reads the other, as the code does. `Remember` is a step of `Accounts`.

`Rpc` is one connection: `lines` to the daemon, `frames` to the client, `queue` between the
handlers and the task that writes (`Pump`). `serving` is the one request in progress, as a
connection takes them one after the other. The client is the desktop window (`Ask`, `Insert`,
`WriteCall`, and the task that `connect` spawns: `TakeFrame`, `ReaderEnds`, `ClearWriter`,
`Drain`), the command line (`Cli*`), or any program that writes requests, notifications,
blanks, lines that are no JSON and lines that are not UTF-8. Either end may go at any time; a
write to an end that has gone fails or is not noticed. A line that is not UTF-8 ends the
reading, and so does a reply that cannot be queued: `serving` is then `"stopped"`, and the
connection is over once no sign-in is left that may notify (`ConnectionEnds`).

- `RepliesInOrder`: each line that asks for a reply has exactly one, in order.
- `EndIsTold`: the end of a sign-in is told once, whichever of its many ends it is.
- `AccountVerified`: nobody is remembered or launched with, by either entry, without a
  token of Mojang's, items that list the game, and a profile.
- `EntitlementSigned` (violated): the claims, which are what is signed, list the game too.
- `WaitsEnd`: no call and no command waits for ever.

### Rules, Metadata and Planning

`Rules` and `Metadata` are operators: a rule matches a platform, arguments are chosen and
filled in, libraries become jars and archives, a loader's listing becomes builds of which one
is selected. A text is a sequence of pieces, literal or placeholders; digests are genuine or
stale; a version of a build is a number and a prerelease. `Planning` is the request that uses
them: `Resolve` plans a version, `ChooseBuild` picks the build, `Checksum` is an answer of the
fetches that run eight at a time (`CHECKSUM_CONCURRENCY`), `Apply` merges the build, `Install`
leaves the lockfile, `Launch` is `launch.start` up to the command line.

- `ClasspathRight`: order, completeness and uniqueness of the classpath, and the natives,
  stated from the metadata and not with the operators that compute them.
- `LoaderSound`: the newest build that qualifies, and genuine digests. Of a loader named
  without a version that is the newest stable build, as in `schema/rpc.json:355` and the tests
  of `loader.rs`; `README.md:38` says "the newest build published".
- `LaunchSound`: what is started has a Java that is recent enough and no placeholder left.
- `InstalledHasJava` (violated): what `README.md:11-15` says of the Java runtime.

## Runs

| Run | Instance | Shows |
| --- | --- | --- |
| `cas` | 2 workers, 2 contents, 2 shared paths, 1 private, 4 inodes, crashes, clones or links or copies | all of the store's properties but `ObjectsSealed` and `InstancesIsolated` |
| `cas_editors` | as above without private paths and clones; anything writable is edited | `ObjectsSealed` |
| `fetch` | 2 calls, 1 permit, 2 attempts, file of 2 bytes, bodies of up to 3, crashes, fair | the fetch properties |
| `accounts` | 2 threads that overlap with a keyring and take turns with a credentials file, 2 accounts, faults, restarts from one to the other | the properties of accounts |
| `install` | 2 jobs, 2 instances, 2 contents, plans of 2 and 1 artifacts, failures and crashes | aliases, lockfiles, settled instances |
| `instances` | 2 requests, 1 instance, 2 files of which 1 is imported, 2 settings, failures and crashes | types, `ToldIsSo`, `CutShort`, `WorldsStay` |
| `java` | 2 files, 2 listings that keep one and change the other, 2 attempts, 2 failures, fair | the properties of the provisioner |
| `sessions` | 2 launches, 3 pids, each platform, a ring of 2 lines, 2 and 1 lines of output | the properties of sessions |
| `rpc` | 2 calls, 1 sign-in whose code lasts 2 intervals, 1 renewal by a launch, 3 lines of other programs, fair | types, the properties of `Login` and `Rpc` |
| `login_signed` (violated) | the command line, 1 sign-in | a launch with claims that do not list the game |
| `plan` | 4 machines, 47 versions, 8 listings, 3 wishes, 2 digests at a time | the properties of `Planning` |
| `launch_java` (violated) | as above | an installed instance that is told there is no Java |

Bounds. Two workers are what every race of the store needs; contents are the empty one and
one other, so that a half-written file differs from both the object and nothing; four
inodes hold two objects, a temporary file and a private copy at once, and a writer without
an inode waits. A file of two bytes has a proper prefix to resume; bodies of three run on
too long; two attempts give a retry and its end. Two accounts are enough to list, select and
remove one beside another; two threads for each lost update. `OneByOne` names the backings
with which requests take turns: the steps of `credentials.json` are followed one request
after another, among the leftovers of all that overlapped with the keyring before a restart,
for both at once is out of reach. The theorems have no such bound. Two
jobs can be at one instance or at two; the full plan has a native and an asset index with
digests, the other, which only one instance has, a library without one at the path of the
native: lockfiles and files of two plans can meet, and loops run once and twice. Instances
share nothing, so one is enough; one of its files the other launcher has too, so that copies,
the game and removal meet at it, and one it has not; `Managed` has both of its members, so
that a delete can stop between them. Renewals have nothing in common but that an account
was saved before, so one beside the sign-in is enough.

The two listings of
`java` keep `bin/java`, grow the other file and move the link: each of the three ways a
provision can meet what an older one left. Three pids are a game, its child and a program;
one that ends makes room for another, so that a pid is used again. A ring of two lines
overflows with three. A sign-in that sleeps twice is cut off at its deadline, once with the
longer interval. The libraries of `plan` are the shapes that were published: a jar, a jar
with rules, natives as a library, natives as archives, a jar of the same name, a repository;
any two of them, in either order or twice, meet builds that replace one of them. Two digests
at a time of three or four already come back in every order that matters.

Fairness is assumed in `fetch`, `java` and `rpc`. In `fetch` a call's own steps are weakly
fair because the client sets connect and read time-outs, so that the network answers or fails; a permit is acquired
under strong fairness because the semaphore queues its waiters in order. Beginning a call,
reuse and crashes are not fair. In `java` a provision goes on and the network delivers, for
the same reason, and whoever wants to play asks again (`Provision`); failures are bounded, so
that in the end they are over. In `rpc` tasks are scheduled (tokio), handlers return, and
services answer or time out; nothing makes a client ask, a program read, or an end go away.

Deadlock is checked everywhere but in `rpc` and `login_signed`, where both ends may be gone
for good.

## Theorems

All are proved with TLAPS for every value of the constants allowed by the modules'
assumptions (`CasAssumption`, `FetchAssumption`, `AccountsAssumption`, `InstallAssumption`,
`InstancesAssumption`, `JavaAssumption`, `SessionsAssumption`, `LoginAssumption`,
`RpcAssumption`, `PlanningAssumption`). Some need a hypothesis on the constants more; it is in
their statement and below. Every safety property that a run shows is stated by a theorem.

- `CasProofs`. For any use of the store: types and `PrivateSafe`. The invariant says which
  inodes a thread owns: a temporary file and the target of a private copy have one name.
  Under exclusive use (`Overlap` and `EditShared` false): objects are intact at every step,
  instances are isolated, materialize delivers and `Cas` implements `BlobStore`.
  `ObjectsIntact` is not inductive: it needs that a file a copy is filling is not an object,
  that a temporary file holds what its writer wrote, and that nobody else is at the
  destination of an operation. `ObjectsSealed` is proved with `Crashes` false, and with
  overlap and edits: a daemon that dies between the rename and the sealing leaves an object
  that can be written, in the code as in the model.
- `DownloadProofs`, about `FileFetch`: types for any calls and permits; for any number of
  calls that take turns at the path (`TakingTurns`: one permit, or one call with any permits)
  `DownloadVerified` with any servers, `InstalledIfHonest`, and what they rest on: `SeenIsFile` (what was digested is
  what is on disk) and `PrefixOfPublished` (with honest servers, what is on disk is a beginning
  of the published file). The invariant says that one call at most holds a permit, and ties
  the offset it asked for to the length of the file (`Digested`). A call that returned success
  may see another empty the file (`Stat` finds nothing to resume in a complete one), so
  `InPlace` has it whole when all have returned success. With 16 permits, as the daemon has,
  two calls for one path do spoil it (below); for files with a path of their own one call is
  what happens.
- `AccountsProofs`: types and `RegistryWellFormed` for any number of overlapping requests.
  The invariant adds that every registry about to be saved is well formed: lost updates lose
  whole registries, they do not mix them. `RepliesTrue` and `SelectionKept` are proved for any
  requests too, with failures and restarts anywhere. The invariant of the one (`InTurn`)
  follows a request that has the daemon to itself through both
  files: what it is about to write says what it is for (`Prepared`),
  what it has written is there unless the file is torn (`Done`), and nobody fills a file it
  has emptied (`Staged`). That of the other (`Orderly`): as long as a selection has to be kept,
  one request at most is between its read and its write (`OneSaves`), and what any is about to
  save says what its request is for and keeps the selection (`Held`).
- `InstallProofs`: types, `AliasSound` and `LockSound` for any jobs, instances and plans,
  with failures and crashes anywhere. The invariant adds, of every job (`Sound`), that what
  it acquired is stored, has the digest of its artifact and stands at its place in the
  order, and that it is about to alias only what it verified. `SettledStays` needs a second
  one (`Quiet`): a job that is alone at its instance finds there what it has placed and
  unpacked so far, and nobody is at an instance that is settled. It holds for plans that put
  only one content at a place (`OnePerPlace`): the resolver keeps the first jar of a
  coordinate, and a coordinate that is listed twice for its natives names one published
  archive (`version.rs:284-321`).
- `InstancesProofs`: types, `ToldIsSo`, `CutShort` and `WorldsStay` for any requests, instances and
  files. The invariant says of a request that is alone what has become of the directory it
  found (`Phase`), which `CutShort` follows from at every step, and of each that will remove or overwrite data that none is owed any more
  (`Covered`). Types need it too: a promise about a descriptor is one only if it was read.
- `DownloadProofs`, about `Java` (it extends both modules, as both follow files that are
  downloaded; the names of `FileFetch` differ from those of `Java` for its sake): types,
  `MarkerSound` and `RuntimeGenuine` for any files and listings. Listings only get newer and
  the marker follows (`Ordered`), a provision at work has no marker of its listing yet
  (`Unmarked`), and a download that is over left its file as the listing has it (`Fetched`).
  Contents need that a file no listing changed is the published one from the moment it is
  opened (`Genuine`): then it is safe to resume it and to take it by its size.
- `SessionsProofs`: types, `SignalsItsOwn`, `GuardedEnds`, `StopReaches` and `LogFaithful` for
  any launches, pids and platforms. Processes that share a group have one owner (`Families`),
  and the child of a session the daemon knows keeps its pid and group when it ends
  (`GoingAt`): hence nobody else can be in the group its pid names. Conversely whatever a game
  forks is in its group (`Grouped`), so that a stop reaches it. For the death of the daemon, a
  child is known by its session (`Children`) and bound by the platform's means from `exec` or
  adoption on (`BoundAt`). The ring is a run of consecutive lines of each stream that ends
  with the last one read (`InRing`), and a stream that has ended was read to its end (`Whole`).
- `RpcProofs`: types, `RepliesInOrder` and `EndIsTold` for any calls, lines
  and clients, and `AccountVerified` for any sign-ins and renewals, as every step of `Rpc` is one of `Login`
  or none (`StepsOfLogin`). What was sent is the queue followed by the frames and what was taken; the
  invariant (`Orderly`) counts the replies among it against the lines that were read, and the
  ends against the sign-in. A sign-in or renewal at a step has passed those before it
  (`Checked`).
  `NobodyForgotten` is the part of `WaitsEnd` that is safety: a call that waits is in the map
  while the task that reads is there to find it, so the task's end leaves none behind.

- `PlanningProofs`: types, `ClasspathRight`, `LoaderSound` and `LaunchSound` for metadata of
  any length, any machines, listings and number of digests at a time. The invariant
  (`PlanningInv`) says that the plan is a function of what was chosen (`PlanInv`) and that
  what came back answers each library of the build once, in some order (`Fetching`, with
  `Sources` for who answered whom). The rest is about functions, and most of those are folds
  over sequences. What a fold computes would take an induction whose statement is an operator
  that no prover here instantiates; it is done for a set of numbers instead, by its least
  element outside the set (`UpTo`), with a function that does what the fold does as the thing
  the set speaks of (`FoldExists`, `FoldRuns`). So rules decide as the last that holds
  (`EvaluateIs`), `Chosen` keeps the order and drops nothing (`ChosenPlaces`), the slots of
  `newest` hold the best (`SlotsBest`), `retain` keeps the first of a name (`RetainedIs`),
  `resolve_libraries` loses nothing and doubles nothing (`ResolvedHas`), and `sort_by_key`
  undoes whatever order answers came in (`InOrderIs`).
  `ClasspathRight` supposes `WellNamed`: a jar lies where its name says, is called `.jar`, and
  no build lists one library twice; the code checks neither (below). `LoaderSound` supposes
  `DigestsUsable`, that Fabric's digests are right, which `publishes_usable_digests` says
  (`acelus-meta/src/loader.rs:44`) and a download finds out. `MCPlanning` assumes both, so that TLC shows
  what it checks to be a case of the theorems. `LaunchSound` supposes nothing.

Only model-checked, and why. `FetchEnds`, `Recovers` and `WaitsEnd` are liveness under
fairness, which TLAPS does not prove. `RegistryWellFormed` is all that is
claimed of accounts once updates of `accounts.json` have overlapped.

## Where the code does less than one may expect

Found while modelling; the properties state what does hold, and their comments say what they
except.

- Fetching. A wrong file of the right size that a failed download left is taken by the next
  install and by `verify.run`, which compare sizes (`install.rs:383`, `handler.rs:506`). Two
  assets of one index with the same hash are downloaded at once to one path and may spoil it
  while both report success (`install.rs:329`).
- Accounts. `account.remove` unlists the account first: if the keyring then fails the refresh
  token stays, against `schema/rpc.json:49` (`store.rs:449`). A selection made between the read
  and the write of a sign-in in the background is lost although it was answered: `remember`
  loads the registry, changes it and saves it whole without a lock (`store.rs:389-396`), and so
  do `set_active` and `forget`, against `schema/rpc.json:44` ("the account future launches
  authenticate as"). An account removed while a launch renews its session is listed again, with
  its tokens: `renew` remembers what the provider answered without looking whether the account
  is still there (`state.rs:115-120`), against `schema/rpc.json:49`.
- Entitlement. The token is verified and its claims are not looked at; the items that are
  looked at are not signed (`entitlement.rs:102-118`, run `login_signed`). `README.md:97-99`,
  `schema/rpc.json:178` and the error of `entitlement.rs:24-27` promise more.
- Instances. `schema/rpc.json:100` has `instance.create` "create an instance directory and
  resolve it into a lockfile"; it makes the directory and the descriptor, reads no metadata and
  writes no lockfile (`descriptor.rs:143-165`, `handler.rs:260-276`), which only `install.run`
  does (`handler.rs:777`). The undoing of an import may fail, and its result is dropped
  (`handler.rs:353`), while it is answered that "nothing was left half imported"; when
  it does not fail it also removes data that an earlier delete had kept under the name. A full
  delete that stops half way may have removed the descriptor first, and then the rest cannot
  be deleted any more (`descriptor.rs:207`).
- Install. `describe` answers installed when a lockfile is there, although a reinstall that
  stopped half way may have removed files; `schema/rpc.json:380` says that all are present and
  verified. Where Mojang has no runtime (Linux on ARM) no install completes.
- Java. A file that grew between two listings makes the first provision fail, as its beginning
  is resumed, and is taken by its size in the next (`java.rs:155`). A build of a loader raises
  the major version the launch asks for, not the component the install provisions.
- Launch. It never finds the runtime that was provisioned (run `launch_java`).
- Sessions. On Windows a game that could not be adopted runs on, and children it made before
  are not in the job; on Linux the children of a game outlive the daemon, and so does a game
  whose daemon dies between its fork and its `prctl`; on macOS nothing ends a game with the
  daemon. `ProcessGuard`'s `Drop` never runs in the daemon, as sessions are never removed.
  A line that is not UTF-8 ends the capture of its stream.
- Transport. A call of the desktop that finds no writer leaves its entry in the map. A
  notification for a connection that is gone is lost, so a sign-in may succeed unheard. The
  window does not connect again after a connection that was live has ended (`ui/src/main.ts`).
- Planning. `README.md:38` has a loader without a version take "the newest build published"; it
  takes the newest stable one. The name of a library is read from its coordinates in one place and from its path
  in another; they disagree on a classifier with an extension that is not `jar`, and then two
  versions are on the classpath (`loader.rs:278`). Libraries of one build are not compared with
  each other. A change of the loader takes effect at the next install; `describe` does not say
  so.

## Not modelled

Left out for good: hashing and signatures (assumed sound), the text patterns of
diagnostics, output and views, the empty content crate, the parsing of JSON and of other
launchers' files. Directories of the store are not modelled, so a `gc` that removes an empty
shard under a commit is not either; no request runs `gc`.

What could still be added: a second daemon that takes the socket over (`transport.rs:96`), two
provisions of one component at a time, the window connecting again, and requests that only
report (`version.list`, `loader.list`, `import.scan`, `launch.status`, `log.tail`,
`verify.run`).
