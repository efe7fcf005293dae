----------------------------- MODULE MCPlanning -----------------------------
(* Planning with small constants for TLC, in the shapes that are published. *)
EXTENDS Planning

On(os, arch) == [os |-> os, arch |-> arch, version |-> "10.0", features |-> {}]

\* JAVA_HOME names an old Java, and one on the PATH is newer; or there is none.
MCMachine ==
    {[env |-> On("linux", "X86_64"), java |-> << <<1, 8, 0>>, <<21, 0, 2>> >>],
     [env |-> On("windows", "X86"), java |-> << <<17, 0>> >>],
     [env |-> On("osx", "Arm64"), java |-> <<>>],
     [env |-> On("linux", "Arm64"), java |-> << <<21, 0, 2>> >>]}

------------------------------------------------------------------------------
(* Versions *)

Named(group, artifact, v) ==
    [group |-> group, artifact |-> artifact, version |-> v, classifier |-> <<>>, ext |-> "jar"]

Classified(name, classifier) == [name EXCEPT !.classifier = classifier]

OnOs(action, os) == [action |-> action, os |-> os, arch |-> Unstated, versions |-> Unstated,
                      features |-> [f \in Feature |-> Unstated]]

\* A library with a jar and nothing else.
Jar(name) == [name |-> name, rules |-> <<>>, artifact |-> [path |-> ToPath(name)],
              classifiers |-> {}, natives |-> [os \in Os |-> None], url |-> None]

OldAsm == Jar(Named("org.ow2.asm", "asm", "9.3"))

NotOnMac == [Jar(Named("org.ow2.asm", "asm", "9.6")) EXCEPT
                !.rules = <<OnOs("allow", Unstated), OnOs("disallow", "osx")>>]

\* Natives as recent versions have them: a library with a classifier.
NewNatives == [Jar(Classified(Named("com.mojang", "jtracy", "1.0"), <<"natives-linux">>)) EXCEPT
                !.rules = <<OnOs("allow", "linux")>>,
                !.artifact = [path |-> None]]

\* As older ones do: archives without a jar, and one of the same name with a jar.
Platform == Named("org.lwjgl", "lwjgl-platform", "2.9")
OldNatives == [Jar(Platform) EXCEPT
                !.artifact = None,
                !.classifiers = {<<"natives-linux">>, <<"natives-windows-", "32">>},
                !.natives = [linux |-> <<"natives-linux">>, osx |-> None,
                             windows |-> <<"natives-windows-", "${arch}">>]]
PlatformJar == Jar([Platform EXCEPT !.version = "2.8"])

\* As the oldest do: a repository.
FromMaven == [Jar(Named("net.sf", "jopt", "4.5")) EXCEPT !.artifact = None, !.url = "maven"]

Menu == {OldAsm, NotOnMac, NewNatives, OldNatives, PlatformJar, FromMaven}

Plainly(value) == [rules |-> <<>>, value |-> value]

Sized == [rules |-> <<[OnOs("allow", Unstated) EXCEPT !.features = [has_custom_resolution |-> TRUE]]>>,
          value |-> << << <<"text", "--width">> >>, << <<"hole", "resolution_width">> >> >>]

Modern == [game |-> <<Plainly(<< << <<"text", "--username">> >>, << <<"hole", "auth_player_name">> >> >>), Sized>>,
           jvm  |-> <<Plainly(<< << <<"text", "-cp">> >>, << <<"hole", "classpath">> >> >>),
                      [rules |-> <<[OnOs("allow", "windows") EXCEPT !.arch = "x86",
                                                                  !.versions = {"10.0"}]>>,
                       value |-> << << <<"text", "-Xss1M">> >> >>]>>]

Recent(libraries) ==
    [libraries |-> libraries, arguments |-> Modern, minecraftArguments |-> <<>>,
     java |-> [component |-> "gamma", major |-> 17], mainClass |-> "Main",
     client |-> TRUE, logging |-> TRUE, assetIndex |-> TRUE]

\* A placeholder nobody knows; arguments of the old kind, no Java named; no client.
MCVersion ==
    {Recent(libraries) : libraries \in UNION {[1..n -> Menu] : n \in 0..2}}
    \cup {[Recent(<<OldAsm>>) EXCEPT
             !.arguments = [Modern EXCEPT !.game = <<Plainly(<< << <<"hole", "new">> >> >>)>>]],
          [Recent(<<OldNatives, FromMaven>>) EXCEPT
             !.arguments = None, !.logging = FALSE, !.java.major = 8,
             !.minecraftArguments = << << <<"hole", "auth_session">> >> >>],
          [Recent(<<OldNatives>>) EXCEPT !.java = None, !.assetIndex = FALSE],
          [Recent(<<>>) EXCEPT !.client = FALSE]}

------------------------------------------------------------------------------
(* Builds *)

Pinned(name, sha1) == [name |-> name, sha1 |-> sha1]

Of(v, sha1, minJava) ==
    [version |-> v, mainClass |-> "Knot", minJava |-> minJava,
     loader |-> Pinned(Named("net.fabricmc", "fabric-loader", "0.1"), None),
     hashed |-> <<>>,
     intermediary |-> <<Pinned(Named("net.fabricmc", "intermediary", "1.21"), sha1)>>,
     common |-> <<Pinned(Named("org.ow2.asm", "asm", "9.9"), sha1)>>, client |-> <<>>]

Fabric(entries) == [kind |-> "fabric", entries |-> entries]

MCListing ==
    {Fabric(<<Of(<<2, 0>>, "genuine", 21), Of(<<3, 1>>, None, 8), Of(<<1, 0>>, None, 0)>>),
     Fabric(<<Of(<<1, 1>>, "genuine", 8), Of(<<1, 2>>, None, 8)>>),
     Fabric(<<Of(Unparsable, None, 0), Of(<<1, 0>>, "genuine", 0)>>),
     Fabric(<<Of(Unparsable, "genuine", 8)>>),
     Fabric(<<[Of(<<1, 0>>, None, 8) EXCEPT !.mainClass = None]>>),
     Fabric(<<[Of(<<4, 0>>, None, 8) EXCEPT !.client = <<Pinned(Malformed, "genuine")>>]>>),
     Fabric(<<>>),
     [kind |-> "quilt",
      entries |-> <<[Of(<<1, 0>>, "stale", 17) EXCEPT
                       !.hashed = <<Pinned(Named("org.quiltmc", "hashed", "1.21"), "stale")>>]>>]}

MCWanted == {None, <<1, 0>>, <<3, 1>>}

MCExtra == << << <<"text", "-XX:+UseG1GC">> >> >>

\* What the theorems suppose of what is published is so of these.
ASSUME Published == WellNamed /\ DigestsUsable
==============================================================================
