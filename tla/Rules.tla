-------------------------------- MODULE Rules --------------------------------
(***************************************************************************)
(* The rules of Mojang's metadata: which libraries and arguments apply to  *)
(* a platform, and the placeholders of the arguments that do.              *)
(*                                                                         *)
(* Pure definitions.  A text is a sequence of pieces, each literal or the  *)
(* name of a placeholder; the pattern of an operating system's version is  *)
(* the set of versions it matches, empty when it is no pattern.            *)
(***************************************************************************)
EXTENDS Naturals, SequencesExt

CONSTANTS
    Unstated,       \* a condition that a rule does not state
    Feature    \* what a launcher may offer: a window size, a demo, ...

Os == {"windows", "osx", "linux"}

Arch == {"X86", "X86_64", "Arm32", "Arm64"}

\* Features::new enables none; a feature that is not named is not enabled.
Environment == [os : Os, arch : Arch, version : STRING, features : SUBSET Feature]

Rule == [action : {"allow", "disallow"}, os : Os \cup {Unstated}, arch : STRING \cup {Unstated},
         versions : (SUBSET STRING) \cup {Unstated},
         features : [Feature -> BOOLEAN \cup {Unstated}]]

\* What a rule may call an architecture.
ArchNames(arch) ==
    CASE arch = "X86"    -> {"x86"}
      [] arch = "X86_64" -> {"x86_64", "amd64"}
      [] arch = "Arm64"  -> {"arm64", "aarch64"}
      [] arch = "Arm32"  -> {"arm32", "arm"}

\* as_mojang_str, and native_bits for ${arch} in a classifier.
NativeBits(arch) == IF arch \in {"X86", "Arm32"} THEN "32" ELSE "64"

\* A rule holds if each condition it states does.
Matches(rule, env) ==
    /\ rule.os \in {Unstated, env.os}
    /\ rule.arch = Unstated \/ rule.arch \in ArchNames(env.arch)
    /\ rule.versions = Unstated \/ env.version \in rule.versions
    /\ \A f \in Feature : rule.features[f] # Unstated => rule.features[f] = (f \in env.features)

\* Without rules anything is allowed; with rules nothing is until one allows it, and
\* the last that holds decides.
Decided(rules, env) ==
    FoldLeft(LAMBDA allowed, rule :
                 IF Matches(rule, env) THEN rule.action = "allow" ELSE allowed,
             FALSE, rules)

Evaluate(rules, env) == rules = <<>> \/ Decided(rules, env)

\* Those of a sequence that are at some positions, in their order.
Chosen(s, positions) ==
    FoldLeftDomain(LAMBDA out, n : IF n \in positions THEN Append(out, s[n]) ELSE out, <<>>, s)

------------------------------------------------------------------------------
(* Arguments *)

Piece == {"text", "hole", "value"} \X STRING

\* arguments::resolve: a conditional argument may stand for several.
ResolveArguments(arguments, env) ==
    FoldLeft(LAMBDA out, a : IF Evaluate(a.rules, env) THEN out \o a.value ELSE out,
             <<>>, arguments)

\* The names that are left over.
Missing(arguments, known) ==
    {piece[2] : piece \in {p \in UNION {Range(argument) : argument \in Range(arguments)} :
                            p[1] = "hole" /\ p[2] \notin known}}

\* substitute, when nothing is left over: in one pass, so that what looks like a
\* placeholder in a value stays as it is.
Substitute(arguments, known) ==
    LET Filled(piece) == IF piece[1] = "hole" /\ piece[2] \in known
                         THEN <<"value", piece[2]>> ELSE piece
    IN  [n \in DOMAIN arguments |-> [k \in DOMAIN arguments[n] |-> Filled(arguments[n][k])]]
==============================================================================
