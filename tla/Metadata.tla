------------------------------- MODULE Metadata -------------------------------
(***************************************************************************)
(* What Mojang publishes of a version of the game, what the loaders        *)
(* publish for it, and what acelus-meta makes of them for a platform.      *)
(*                                                                         *)
(* Pure definitions.  A digest is "genuine" if it is the one of what the   *)
(* address serves, "stale" if not, or there is none.  A classifier is a    *)
(* sequence of parts, empty when there is none; no name has an empty one.  *)
(***************************************************************************)
EXTENDS Rules

CONSTANTS
    None,          \* nothing
    Malformed,     \* a name that is no Maven coordinate
    Unparsable     \* a loader version that is not a semantic version

Coordinates == [group : STRING, artifact : STRING, version : STRING,
                classifier : Seq(STRING), ext : STRING]

Name == Coordinates \cup {Malformed}

Digest == {"genuine", "stale", None}

\* Where a coordinate is kept: <group>/<artifact>/<version>/, and a file named after
\* the last two with the classifier and the extension.
ToPath(c) == [dir |-> <<c.group, c.artifact, c.version>>,
              classifier |-> c.classifier, ext |-> c.ext]

Path == [dir : STRING \X STRING \X STRING, classifier : Seq(STRING), ext : STRING]

DedupKey(c) == <<c.group, c.artifact, c.classifier>>

------------------------------------------------------------------------------
(* Libraries of a version *)

\* A library: its jar if it has one, an archive per classifier, the classifiers of
\* its natives by operating system, and the repository that serves it otherwise.
Library == [name : Name, rules : Seq(Rule),
            artifact : {None} \cup [path : Path \cup {None}],
            classifiers : SUBSET Seq(STRING),
            natives : [Os -> Seq(STRING) \cup {None}],
            url : STRING \cup {None}]

IsApplicable(library, env) == Evaluate(library.rules, env)

\* A jar of the classpath.
ResolvedJar == [path : Path, sha1 : Digest]

\* ${arch} in the template is the number of bits.
NativeClassifier(library, env) ==
    LET template == library.natives[env.os]
    IN  IF template = None THEN None
        ELSE [n \in DOMAIN template |->
                IF template[n] = "${arch}" THEN NativeBits(env.arch) ELSE template[n]]

\* A jar that is declared: at its path, or at the one its name makes.
ResolveArtifact(library) ==
    IF library.artifact = None THEN None
    ELSE IF library.artifact.path # None
    THEN [path |-> library.artifact.path, sha1 |-> "genuine"]
    ELSE IF library.name = Malformed THEN None
    ELSE [path |-> ToPath(library.name), sha1 |-> "genuine"]

ResolveFromMaven(library) ==
    IF library.url = None \/ library.name = Malformed THEN None
    ELSE [path |-> ToPath(library.name), sha1 |-> None]

Key(name) == IF name = Malformed THEN Malformed ELSE DedupKey(name)

\* The archive of its natives is taken, whatever came before; its jar, if it has one,
\* unless there was one of its name: the first of a name stands.
AddLibrary(resolved, library, env) ==
    LET classifier == NativeClassifier(library, env)
        entry == IF ResolveArtifact(library) # None THEN ResolveArtifact(library)
                 ELSE ResolveFromMaven(library)
        fresh == entry # None /\ Key(library.name) \notin resolved.seen
    IN  [natives |-> IF classifier \in library.classifiers
                     THEN Append(resolved.natives, <<library.name, classifier>>)
                     ELSE resolved.natives,
         classpath |-> IF fresh THEN Append(resolved.classpath, entry) ELSE resolved.classpath,
         seen |-> IF fresh THEN resolved.seen \cup {Key(library.name)} ELSE resolved.seen]

ResolveLibraries(libraries, env) ==
    FoldLeft(LAMBDA resolved, library :
                 IF IsApplicable(library, env) THEN AddLibrary(resolved, library, env)
                 ELSE resolved,
             [natives |-> <<>>, classpath |-> <<>>, seen |-> {}], libraries)

\* LEGACY_JVM_ARGUMENTS, for a version that has minecraft_arguments instead.
LegacyJvm == << << <<"text", "-Djava.library.path=">>, <<"hole", "natives_directory">> >>,
                << <<"text", "-cp">> >>, << <<"hole", "classpath">> >> >>

Arguments(version, env) ==
    IF version.arguments = None
    THEN [game |-> version.minecraftArguments, jvm |-> LegacyJvm]
    ELSE [game |-> ResolveArguments(version.arguments.game, env),
          jvm  |-> ResolveArguments(version.arguments.jvm, env)]

\* Platform::for_target: Mojang has runtimes for these.
HasPlatform(env) ==
    \/ env.os = "linux" /\ env.arch \in {"X86", "X86_64"}
    \/ env.os = "osx" /\ env.arch \in {"X86_64", "Arm64"}
    \/ env.os = "windows" /\ env.arch # "Arm32"

------------------------------------------------------------------------------
(* Builds of a loader *)

\* A semantic version: its numbers, as one, and its prerelease, 0 for a release.
BuildVersion == (Nat \X Nat) \cup {Unparsable}

Released(version) == version[2] = 0

Newer(v, w) == v[1] > w[1] \/ (v[1] = w[1] /\ v[2] > w[2])

\* A build as it is offered.
LoaderLibrary == [name : Name, sha1 : Digest]

Profile == [version : BuildVersion, mainClass : STRING, minJava : Nat,
            libraries : Seq(LoaderLibrary)]

PublishesUsableDigests(kind) == kind = "fabric"

\* The loader itself, the mappings, the libraries of both sides and of the client.
Listed(entry) ==
    <<entry.loader>> \o entry.hashed \o entry.intermediary \o entry.common \o entry.client

\* Fault: the digests of both loaders are believed.
BuildProfileTrusting(kind, entry) ==
    [version |-> entry.version, mainClass |-> entry.mainClass, minJava |-> entry.minJava,
     libraries |-> Listed(entry)]

\* build_profile.  Digests that describe something else are dropped.
BuildProfile(kind, entry) ==
    [version |-> entry.version, mainClass |-> entry.mainClass, minJava |-> entry.minJava,
     libraries |-> IF PublishesUsableDigests(kind) THEN Listed(entry)
                   ELSE [n \in DOMAIN Listed(entry) |-> [Listed(entry)[n] EXCEPT !.sha1 = None]]]

\* parse_versions: one entry that has no main class spoils the listing, and an empty
\* listing is an error.
ParseVersions(kind, entries) ==
    IF \E n \in DOMAIN entries : entries[n].mainClass = None THEN <<>>
    ELSE [n \in DOMAIN entries |-> BuildProfile(kind, entries[n])]

\* newest: of the releases the newest, then of the prereleases, then the first.
Better(best, p) ==
    IF best = None THEN p ELSE IF Newer(p.version, best.version) THEN p ELSE best

Look(slots, p) ==
    IF p.version = Unparsable THEN slots
    ELSE IF Released(p.version) THEN [slots EXCEPT !.stable = Better(slots.stable, p)]
    ELSE [slots EXCEPT !.prerelease = Better(slots.prerelease, p)]

Slots(profiles) == FoldLeft(Look, [stable |-> None, prerelease |-> None], profiles)

Newest(profiles) ==
    LET slots == Slots(profiles)
    IN  IF slots.stable # None THEN slots.stable
        ELSE IF slots.prerelease # None THEN slots.prerelease
        ELSE profiles[1]

\* select: nothing if the version that is wanted is not listed.
SelectBuild(profiles, wanted) ==
    IF profiles = <<>> THEN None
    ELSE IF wanted = None THEN Newest(profiles)
    ELSE LET n == SelectInSeq(profiles, LAMBDA p : p.version = wanted)
         IN  IF n = 0 THEN None ELSE profiles[n]
==============================================================================
