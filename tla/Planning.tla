------------------------------- MODULE Planning -------------------------------
(***************************************************************************)
(* From a descriptor to a running game: install.run resolves the version's *)
(* metadata into a plan, merges a build of a loader into it, fetching the  *)
(* digests that are missing several at a time, and installs it; launches   *)
(* make a command line of the lockfile that is left.                       *)
(*                                                                         *)
(* One instance on one machine, installed once.  What an install does to   *)
(* files is in Install, the runtime's files are in Java, the process of    *)
(* the game in Sessions, and who may play in Login.                        *)
(***************************************************************************)
EXTENDS Metadata

CONSTANTS
    Machine,       \* machines: a platform, and the javas a user installed
    Version,       \* metadata of versions
    Listing,       \* what a loader's service may answer for a version
    Wanted,        \* versions of builds a descriptor may ask for, None for the newest
    Concurrency,   \* CHECKSUM_CONCURRENCY
    Extra          \* the descriptor's extraJvmArguments

\* The arguments of a version, conditional ones with their rules.
Argument == [rules : Seq(Rule), value : Seq(Seq(Piece))]

\* RawEntry: hashed and intermediary are there at most once.
Entry == [version : BuildVersion, loader : LoaderLibrary, hashed : Seq(LoaderLibrary),
          intermediary : Seq(LoaderLibrary), common : Seq(LoaderLibrary),
          client : Seq(LoaderLibrary), mainClass : STRING \cup {None}, minJava : Nat]

Role == {"client", "library", "native", "logging", "index"}

\* An archive of natives is known by a name and a classifier.
PlannedArtifact ==
    [path : Path \cup (Name \X Seq(STRING)) \cup {"client.jar", "logging", "indexes"},
     role : Role, sha1 : Digest]

Plan == [artifacts : Seq(PlannedArtifact),
         java      : [component : STRING \cup {None}, major : Nat,
                      source : {"mojang", "adoptium"}],
         arguments : [game : Seq(Seq(Piece)), jvm : Seq(Seq(Piece))],
         mainClass : STRING,
         loader    : BuildVersion \cup {None}]

ASSUME PlanningAssumption ==
    /\ \A m \in Machine : m.env \in Environment /\ m.java \in Seq(Seq(Nat))
    /\ \A v \in Version :
        /\ v.libraries \in Seq(Library)
        /\ v.arguments # None => /\ v.arguments.game \in Seq(Argument)
                                 /\ v.arguments.jvm \in Seq(Argument)
        /\ v.arguments = None => v.minecraftArguments \in Seq(Seq(Piece))
        /\ v.java # None => v.java \in [component : STRING, major : Nat]
        /\ v.mainClass \in STRING
        /\ {v.client, v.logging, v.assetIndex} \subseteq BOOLEAN
    /\ \A l \in Listing : l.kind \in {"fabric", "quilt"} /\ l.entries \in Seq(Entry)
    /\ Wanted \subseteq BuildVersion \cup {None}
    /\ Concurrency \in Nat \ {0}
    /\ Extra \in Seq(Seq({"text"} \X STRING))
    /\ None \notin Plan \cup Profile \cup LoaderLibrary \cup ResolvedJar
    /\ Malformed \notin Coordinates /\ Unparsable \notin Nat \X Nat
    /\ LegacyJvm \in Seq(Seq(Piece))  \* as every literal is a STRING

VARIABLES
    machine,    \* where the daemon runs
    pc,         \* how far install.run is
    version,    \* the metadata it resolves
    asked,      \* history: the listing and the version that was asked of it
    build,      \* the build of the loader, None without
    flight,     \* libraries of the build whose digest is being fetched
    arrived,    \* those that are back, in the order they came, None for a failure
    plan,       \* the plan
    lock,       \* acelus.lock
    run         \* the answer to the last launch.start

vars == <<machine, pc, version, asked, build, flight, arrived, plan, lock, run>>

Pc == {"idle", "loader", "checksums", "install", "installed"}

TypeOK ==
    /\ machine \in Machine /\ version \in Version \cup {None}
    /\ pc \in Pc
    /\ pc = "checksums" =>
        /\ flight \subseteq DOMAIN build.libraries /\ Cardinality(flight) <= Concurrency
        /\ Len(arrived) + Cardinality(flight) <= Len(build.libraries)
        /\ flight = {} => Len(arrived) = Len(build.libraries)
        /\ \A n \in DOMAIN arrived : arrived[n] \in LoaderLibrary \cup {None}
    /\ plan # None => \A n \in DOMAIN plan.artifacts :
                        plan.artifacts[n].role \in Role /\ plan.artifacts[n].sha1 \in Digest
    /\ (lock # None) = (pc = "installed")
    /\ run # None => lock # None

Init ==
    /\ machine \in Machine
    /\ pc = "idle" /\ version = None /\ asked = None /\ build = None
    /\ flight = {} /\ arrived = <<>>
    /\ plan = None /\ lock = None /\ run = None

------------------------------------------------------------------------------
(* The plan of a version *)

Artifact(path, role, sha1) == [path |-> path, role |-> role, sha1 |-> sha1]

If(condition, artifact) == IF condition THEN <<artifact>> ELSE <<>>

\* plan_java: 8 if the version says nothing; Mojang's runtime if it has one of that
\* name for the platform.
PlanJava(v, env, published) ==
    [component |-> IF v.java = None THEN None ELSE v.java.component,
     major     |-> IF v.java = None THEN 8 ELSE v.java.major,
     source    |-> IF v.java # None /\ HasPlatform(env) /\ published THEN "mojang" ELSE "adoptium"]

\* plan_for.
PlanFor(v, env, published) ==
    LET libraries == ResolveLibraries(v.libraries, env)
        jars == libraries.classpath
        archives == libraries.natives
    IN  [artifacts |->
            <<Artifact("client.jar", "client", "genuine")>>
            \o [n \in DOMAIN jars |-> Artifact(jars[n].path, "library", jars[n].sha1)]
            \o [n \in DOMAIN archives |-> Artifact(archives[n], "native", "genuine")]
            \o If(v.logging, Artifact("logging", "logging", "genuine"))
            \o If(v.assetIndex, Artifact("indexes", "index", "genuine")),
         java      |-> PlanJava(v, env, published),
         arguments |-> Arguments(v, env),
         mainClass |-> v.mainClass,
         loader    |-> None]

\* resolve, where the manifest lists the version and its metadata names a client.
\* Whether the descriptor names a loader, and whether Mojang has the runtime, is open.
Resolve ==
    /\ pc = "idle"
    /\ \E v \in Version, published \in BOOLEAN :
        /\ v.client
        /\ version' = v
        /\ plan' = PlanFor(v, machine.env, published)
    /\ pc' \in {"loader", "install"}
    /\ UNCHANGED <<machine, asked, build, flight, arrived, lock, run>>

------------------------------------------------------------------------------
(* A loader's build *)

\* Fault: one more is started than there is room for.
StartedMore(libraries, started, busy) ==
    {n \in DOMAIN libraries : n > started /\ n <= started + Concurrency - busy + 1}

\* buffer_unordered: the next of the libraries, as many as there is room for.
Started(libraries, started, busy) ==
    {n \in DOMAIN libraries : n > started /\ n <= started + Concurrency - busy}

\* LoaderResolver::resolve, and with_checksums begins.
ChooseBuild ==
    /\ pc = "loader"
    /\ \E listing \in Listing, wanted \in Wanted :
        LET profile == SelectBuild(ParseVersions(listing.kind, listing.entries), wanted) IN
        /\ profile # None
        /\ asked' = [kind |-> listing.kind, entries |-> listing.entries, wanted |-> wanted]
        /\ build' = profile
        /\ flight' = Started(profile.libraries, 0, 0)
    /\ pc' = "checksums"
    /\ UNCHANGED <<machine, version, arrived, plan, lock, run>>

\* checksum: a digest that is not known is the one the repository keeps beside the
\* file.  It may not be there, or be none, and a name may lead nowhere.
Checksums(library) ==
    IF library.sha1 # None THEN {library}
    ELSE {None} \cup {l \in {[library EXCEPT !.sha1 = "genuine"]} : l.name # Malformed}

\* The answer for one library of those in flight, whichever is next.
Checksum ==
    /\ pc = "checksums"
    /\ \E n \in flight : \E outcome \in Checksums(build.libraries[n]) :
        /\ arrived' = Append(arrived, outcome)
        /\ flight' = (flight \ {n}) \cup
             Started(build.libraries, Len(arrived) + Cardinality(flight), Cardinality(flight) - 1)
    /\ UNCHANGED <<machine, pc, version, asked, build, plan, lock, run>>

\* Fault: what came first is first.
InArrivalOrder(libraries, order) == libraries

\* sort_by_key, stable: by where the name is first among the libraries of the build.
InOrder(libraries, order) ==
    LET Position(name) == SelectInSeq(order, LAMBDA l : l.name = name)
    IN  FlattenSeq([n \in DOMAIN order |->
                      Chosen(libraries, {k \in DOMAIN libraries : Position(libraries[k].name) = n})])

\* artifact_key: the name of an artifact, read back from its path, where an extension
\* other than jar stays with the classifier.
ArtifactKey(path) ==
    <<path.dir[1], path.dir[2],
      IF path.classifier = <<>> \/ path.ext = "jar" THEN path.classifier
      ELSE Append(path.classifier, path.ext)>>

\* retain: of what the plan has, libraries whose name is not taken.
Keep(r, a) ==
    IF a.role # "library" THEN [r EXCEPT !.kept = Append(r.kept, a)]
    ELSE IF ArtifactKey(a.path) \in r.seen THEN r
    ELSE [kept |-> Append(r.kept, a), seen |-> r.seen \cup {ArtifactKey(a.path)}]

Retaining(artifacts, names) == FoldLeft(Keep, [kept |-> <<>>, seen |-> names], artifacts)

Retained(artifacts, names) == Retaining(artifacts, names).kept

\* Fault: the build's demand replaces the version's.
BuildsJava(major, minJava) == IF minJava = 0 THEN major ELSE minJava

\* The later of the javas the version and the build need; 0 if the build needs none.
LaterJava(major, minJava) == IF major < minJava THEN minJava ELSE major

\* apply, once every digest is known: the build's libraries before those of the
\* version that it does not replace, its main class, and its demand on Java.
Merged(p, profile, libraries) ==
    LET planned == [n \in DOMAIN libraries |->
                      Artifact(ToPath(libraries[n].name), "library", libraries[n].sha1)]
        kept == Retained(p.artifacts, {DedupKey(libraries[n].name) : n \in DOMAIN libraries})
        first == SelectInSeq(kept, LAMBDA a : a.role = "library")
        at == IF first = 0 THEN Len(kept) ELSE first - 1
    IN  [p EXCEPT !.artifacts = SubSeq(kept, 1, at) \o planned \o SubSeq(kept, at + 1, Len(kept)),
                  !.mainClass = profile.mainClass,
                  !.loader = profile.version,
                  !.java.major = LaterJava(p.java.major, profile.minJava)]

Apply ==
    /\ pc = "checksums"
    /\ flight = {}
    /\ \A n \in DOMAIN arrived : arrived[n] # None /\ arrived[n].name # Malformed
    /\ plan' = Merged(plan, build, InOrder(arrived, build.libraries))
    /\ pc' = "install"
    /\ UNCHANGED <<machine, version, asked, build, flight, arrived, lock, run>>

------------------------------------------------------------------------------
(* Installing and launching *)

\* Installer::install and JavaProvisioner::provision, which has nothing to install
\* where Mojang has no runtime; the lockfile is written last.
Install ==
    /\ pc = "install"
    /\ plan.java.source = "mojang"
    /\ lock' = plan
    /\ pc' = "installed"
    /\ UNCHANGED <<machine, version, asked, build, flight, arrived, plan, run>>

\* The network, a service, the disk or a missing runtime ends the request.
Fail ==
    /\ pc \in Pc \ {"idle", "installed"}
    /\ pc' = "idle"
    /\ version' = None /\ asked' = None /\ build' = None
    /\ flight' = {} /\ arrived' = <<>> /\ plan' = None
    /\ UNCHANGED <<machine, lock, run>>

\* parse_java_major: 1.8.0 is 8.
JavaMajor(reported) ==
    CASE reported = <<>> -> 0
      [] reported # <<>> /\ reported[1] # 1 -> reported[1]
      [] OTHER -> IF Len(reported) = 1 THEN 0 ELSE reported[2]

\* discover_system_java: of JAVA_HOME's and the one on the PATH, the first that is
\* recent enough, 0 if there is none.
SystemJava(required) ==
    LET majors == [n \in DOMAIN machine.java |-> JavaMajor(machine.java[n])]
        n == SelectInSeq(majors, LAMBDA major : major > 0 /\ major >= required)
    IN  IF n = 0 THEN 0 ELSE majors[n]

\* classpath: sorted by role.
Classpath(artifacts) ==
    LET Is(role) == Chosen(artifacts, {n \in DOMAIN artifacts : artifacts[n].role = role})
    IN  Is("library") \o Is("client")

\* build_substitutions; launch.start asks for no size of the window.
Known == {"auth_player_name", "auth_uuid", "auth_access_token", "auth_xuid", "auth_session",
          "clientid", "user_type", "user_properties", "version_name", "version_type",
          "game_directory", "assets_root", "game_assets", "assets_index_name",
          "natives_directory", "launcher_name", "launcher_version", "classpath",
          "classpath_separator", "library_directory", "quickPlayPath", "quickPlaySingleplayer",
          "quickPlayMultiplayer", "quickPlayRealms"}

\* MemorySettings::to_arguments, and the argument that names the logging file.
Memory == << << <<"text", "-Xms512M">> >>, << <<"text", "-Xmx4096M">> >> >>

Logging == << << <<"text", "-Dlog4j.configurationFile=">>, <<"hole", "path">> >> >>

\* build: the command line of a lockfile.
Command(text) ==
    Substitute(text.arguments.jvm, Known) \o Memory \o Extra
    \o (IF \E n \in DOMAIN text.artifacts : text.artifacts[n].role = "logging"
        THEN Substitute(Logging, Known \cup {"path"}) ELSE <<>>)
    \o << << <<"text", text.mainClass>> >> >>
    \o Substitute(text.arguments.game, Known)

Refused(code) == [code |-> code, java |-> 0, command |-> <<>>, classpath |-> <<>>]

\* launch.start: usable_account has answered; the runtime comes first.  No address of
\* a runtime is at hand, so that provision fails and a system Java is looked for.
Launch ==
    /\ pc = "installed"
    /\ \E account \in [verified : BOOLEAN, token : BOOLEAN] :
        LET java == SystemJava(lock.java.major)
            classpath == Classpath(lock.artifacts)
            missing == Missing(lock.arguments.jvm \o lock.arguments.game, Known)
        IN run' = IF java = 0 THEN Refused("JAVA_UNAVAILABLE")
                  ELSE IF ~account.verified THEN Refused("ENTITLEMENT_MISSING")
                  ELSE IF ~account.token THEN Refused("AUTH_EXPIRED")
                  ELSE IF missing # {} THEN Refused("INTERNAL")
                  ELSE [code |-> "started", java |-> java, command |-> Command(lock),
                        classpath |-> classpath]
    /\ UNCHANGED <<machine, pc, version, asked, build, flight, arrived, plan, lock>>

Next == Resolve \/ ChooseBuild \/ Checksum \/ Apply \/ Install \/ Fail \/ Launch

Spec == Init /\ [][Next]_vars

------------------------------------------------------------------------------
(* Properties *)

Finished == pc \in {"install", "installed"}

\* A library of the version that is for this machine: the last rule that holds allows
\* it, if it has rules.
ForMachine(library) ==
    \/ library.rules = <<>>
    \/ \E n \in DOMAIN library.rules :
        /\ Matches(library.rules[n], machine.env) /\ library.rules[n].action = "allow"
        /\ \A k \in DOMAIN library.rules : k > n => ~Matches(library.rules[k], machine.env)

HasJar(library) == library.artifact # None \/ library.url # None

\* What a path is a version of.
Identity(path) == <<path.dir[1], path.dir[2], path.classifier>>

\* Whether a jar is called what it is, and no build has a library twice, as in all that
\* is published: the code takes names and paths as they come.
NamedWell(library) == HasJar(library) =>
    /\ library.name \in Coordinates /\ library.name.ext = "jar"
    /\ library.artifact # None /\ library.artifact.path # None =>
        /\ Identity(library.artifact.path) = DedupKey(library.name)
        /\ library.artifact.path.ext = "jar"

WellNamed ==
    /\ \A v \in Version : \A n \in DOMAIN v.libraries : NamedWell(v.libraries[n])
    /\ \A l \in Listing : \A n \in DOMAIN l.entries :
        LET libraries == Listed(l.entries[n])
        IN  \A i, k \in DOMAIN libraries :
              /\ Malformed \notin {libraries[i].name, libraries[k].name}
              /\ DedupKey(libraries[i].name) = DedupKey(libraries[k].name)
              => i = k

\* The classpath, whatever order digests came in: first the libraries of the build in
\* its order, then each library of the version that is for this machine unless the
\* build has another version of it, none twice, none missing, and the client last.
\* The natives for this machine are unpacked, all of them (resolve_libraries, apply,
\* Lockfile::classpath).
ClasspathRight == Finished =>
    LET cp == Classpath(plan.artifacts)
        own == IF build = None THEN <<>> ELSE build.libraries
        jars == 1..(Len(cp) - 1)
        libraries == {n \in DOMAIN version.libraries : ForMachine(version.libraries[n])}
    IN  /\ cp[Len(cp)].role = "client"
        /\ Len(own) < Len(cp)
        /\ \A n \in DOMAIN own : cp[n].path = ToPath(own[n].name)
        /\ \A n, k \in jars : Identity(cp[n].path) = Identity(cp[k].path) => n = k
        /\ \A n \in libraries : HasJar(version.libraries[n]) =>
            \E k \in jars : Identity(cp[k].path) = DedupKey(version.libraries[n].name)
        /\ \A n \in libraries :
            LET library == version.libraries[n]
                archive == NativeClassifier(library, machine.env)
            IN  archive \in library.classifiers =>
                  \E k \in DOMAIN plan.artifacts :
                    /\ plan.artifacts[k].role = "native"
                    /\ plan.artifacts[k].path = <<library.name, archive>>

\* Whether the digests that are believed describe what is served, which
\* publishes_usable_digests says of Fabric's and nothing checks before they are used.
DigestsUsable ==
    \A l \in Listing : PublishesUsableDigests(l.kind) =>
        \A n \in DOMAIN l.entries : \A k \in DOMAIN Listed(l.entries[n]) :
            Listed(l.entries[n])[k].sha1 # "stale"

\* Of a loader the plan has the build that was asked for, or the newest release, or the
\* newest prerelease where there is no release; and each of its files is pinned to
\* what its repository serves (select, publishes_usable_digests, with_checksums).
LoaderSound == Finished /\ build # None =>
    /\ \A n \in DOMAIN build.libraries :
        \E k \in DOMAIN plan.artifacts :
            /\ plan.artifacts[k].role = "library"
            /\ plan.artifacts[k].path = ToPath(build.libraries[n].name)
            /\ plan.artifacts[k].sha1 = "genuine"
    /\ asked.wanted \in {None, build.version}
    /\ asked.wanted = None /\ build.version # Unparsable =>
        \A n \in DOMAIN asked.entries :
            LET other == asked.entries[n].version IN
            other # Unparsable =>
                /\ Released(other) => Released(build.version)
                /\ Released(other) = Released(build.version) => ~Newer(other, build.version)

\* A game that is started runs on a Java that neither the version nor the build finds
\* too old, and no placeholder is left in its command line, however metadata, platform
\* and build combine (apply, discover_system_java, substitute).
LaunchSound == run # None /\ run.code = "started" =>
    /\ version.java # None => run.java >= version.java.major
    /\ build # None => run.java >= build.minJava
    /\ \A n \in DOMAIN run.command : \A k \in DOMAIN run.command[n] : run.command[n][k][1] # "hole"
    /\ \E n \in DOMAIN run.classpath : run.classpath[n].role = "client"

\* README.md:11-15 says Acelus "provisions the matching Java runtime" for a version
\* "and starts it": an instance whose install provisioned one does not lack a Java.
InstalledHasJava == run # None => run.code # "JAVA_UNAVAILABLE"
==============================================================================
