---------------------------- MODULE PlanningProofs ----------------------------
(***************************************************************************)
(* Proofs about Planning.                                                  *)
(*                                                                         *)
(* The inductive invariant, PlanningInv, says that the plan is a function  *)
(* of what was chosen (the version, the build, what came back of it), and  *)
(* what came back answers each library of the build once.  Whatever the    *)
(* properties say of plans then follows from lemmas about the operators    *)
(* that make them.  Those are folds: a fold is shown to go through its     *)
(* sequence one element at a time (FoldRuns), and what holds of each step  *)
(* is shown of all by an induction over the positions (UpTo).              *)
(***************************************************************************)
EXTENDS Planning, FiniteSetTheorems, SequenceTheorems, WellFoundedInduction, TLAPS

------------------------------------------------------------------------------
(* Induction and folds *)

\* Induction over the numbers up to one, for a set of them.
LEMMA UpTo ==
    ASSUME NEW N \in Nat, NEW T, 0 \in T, \A n \in 0..N : n + 1 \in 0..N /\ n \in T => n + 1 \in T
    PROVE  \A n \in 0..N : n \in T
<1> DEFINE Less == {p \in Nat \X Nat : p[1] < p[2]}
           Left == {n \in 0..N : n \notin T}
<1> SUFFICES ASSUME Left # {} PROVE FALSE
  OBVIOUS
<1>1. IsWellFoundedOn(Less, Nat)
  BY NatLessThanWellFounded DEF OpToRel
<1>2. PICK n \in Left : \A m \in Left : <<m, n>> \notin Less
  <2>1. Left \subseteq Nat
    OBVIOUS
  <2> HIDE DEF Less, Left
  <2> QED BY <1>1, <2>1, WFMin
<1>3. n # 0 /\ n - 1 \in 0..N /\ n = (n - 1) + 1 /\ <<n - 1, n>> \in Less
  OBVIOUS
<1>4. n - 1 \in T
  BY <1>2, <1>3
<1> QED BY <1>3, <1>4

\* The largest of some numbers up to n + 1, when n + 1 is among them, and in general.
LEMMA MaxOf ==
    ASSUME NEW n \in Nat, NEW s \in SUBSET (1..n + 1), n + 1 \in s
    PROVE  Max(s) = n + 1
<1>1. \E x \in s : \A y \in s : x >= y
  OBVIOUS
<1>2. Max(s) \in s /\ \A y \in s : Max(s) >= y
  BY <1>1 DEF Max
<1>3. Max(s) \in 1..n + 1 /\ Max(s) >= n + 1
  BY <1>2
<1> QED BY <1>3

\* The largest of some numbers is one of them.
LEMMA MaxIn ==
    ASSUME NEW N \in Nat, NEW s \in SUBSET (1..N), s # {}
    PROVE  Max(s) \in s
<1> DEFINE T == {n \in 0..N : \A t \in SUBSET (1..n) : t # {} => \E x \in t : \A y \in t : x >= y}
<1>1. 0 \in T
  <2>1. 1..0 = {}
    OBVIOUS
  <2>2. \A t \in SUBSET (1..0) : t = {}
    BY <2>1
  <2>3. \A t \in SUBSET (1..0) : t # {} => \E x \in t : \A y \in t : x >= y
    BY <2>2
  <2>4. 0 \in 0..N
    OBVIOUS
  <2> QED BY <2>3, <2>4
<1>2. ASSUME NEW n \in 0..N, n + 1 \in 0..N, n \in T PROVE n + 1 \in T
  <2> SUFFICES ASSUME NEW t \in SUBSET (1..n + 1), t # {}
               PROVE  \E x \in t : \A y \in t : x >= y
    BY <1>2
  <2>1. CASE n + 1 \in t
    BY <2>1
  <2>2. CASE n + 1 \notin t
    <3>1. t \in SUBSET (1..n)
      BY <2>2
    <3> QED BY <3>1, <1>2
  <2> QED BY <2>1, <2>2
<1>3. N \in T
  <2> HIDE DEF T
  <2> QED BY <1>1, <1>2, UpTo
<1> QED BY <1>3 DEF Max

\* What a fold over the positions of a sequence goes through.
LEMMA Positions ==
    ASSUME NEW N \in Nat, NEW n \in 1..N
    PROVE  /\ 1..n \in SUBSET (1..N) /\ 1..n # {}
           /\ Max(1..n) = n /\ (1..n) \ {n} = 1..(n - 1)
<1>1. n - 1 \in Nat /\ n = (n - 1) + 1 /\ n \in 1..n
  OBVIOUS
<1>2. Max(1..n) = n
  BY <1>1, MaxOf
<1> QED BY <1>2

\* A fold whose steps stay in a set is a function.
Folded(it, N, base, step) ==
    \A s \in SUBSET (1..N) : it[s] = IF s = {} THEN base ELSE step[Max(s)][it[s \ {Max(s)}]]

\* A function that folds is there.
LEMMA FoldExists ==
    ASSUME NEW S, NEW base \in S, NEW N \in Nat, NEW step \in [1..N -> [S -> S]]
    PROVE  \E it \in [SUBSET (1..N) -> S] : Folded(it, N, base, step)
<1> DEFINE Good(n) == \E it \in [SUBSET (1..n) -> S] : Folded(it, n, base, step)
           T == {n \in 0..N : Good(n)}
<1>1. Good(0)
  <2> DEFINE it == [s \in SUBSET (1..0) |-> base]
  <2>1. \A s \in SUBSET (1..0) : s = {}
    <3>1. 1..0 = {}
      OBVIOUS
    <3> QED BY <3>1
  <2>2. it \in [SUBSET (1..0) -> S]
    OBVIOUS
  <2>3. Folded(it, 0, base, step)
    BY <2>1 DEF Folded
  <2> QED BY <2>2, <2>3
<1>2. ASSUME NEW n \in 0..N, n + 1 \in 0..N, Good(n) PROVE Good(n + 1)
  <2>1. PICK it \in [SUBSET (1..n) -> S] : Folded(it, n, base, step)
    BY <1>2
  <2> DEFINE new == [s \in SUBSET (1..n + 1) |->
                       IF n + 1 \in s THEN step[n + 1][it[s \ {n + 1}]] ELSE it[s]]
  <2>2. ASSUME NEW s \in SUBSET (1..n + 1), n + 1 \in s
        PROVE  s \ {n + 1} \in SUBSET (1..n) /\ s # {} /\ Max(s) = n + 1
    <3>1. n \in Nat
      OBVIOUS
    <3>2. Max(s) = n + 1
      BY <2>2, <3>1, MaxOf
    <3> QED BY <2>2, <3>2
  <2>3. ASSUME NEW s \in SUBSET (1..n + 1), n + 1 \notin s
        PROVE  s \in SUBSET (1..n) /\ s \ {Max(s)} \in SUBSET (1..n)
    <3>1. \A m \in s : m \in 1..n
      BY <2>3
    <3> QED BY <3>1
  <2>4. new \in [SUBSET (1..n + 1) -> S]
    <3>1. step[n + 1] \in [S -> S]
      BY <1>2
    <3>2. ASSUME NEW s \in SUBSET (1..n + 1) PROVE new[s] \in S
      BY <2>2, <2>3, <3>1
    <3> QED BY <3>2
  <2>5. ASSUME NEW s \in SUBSET (1..n + 1)
        PROVE  new[s] = IF s = {} THEN base ELSE step[Max(s)][new[s \ {Max(s)}]]
    <3>1. CASE n + 1 \in s
      <4>1. n + 1 \notin s \ {n + 1} /\ s \ {n + 1} \in SUBSET (1..n + 1)
        OBVIOUS
      <4> QED BY <3>1, <4>1, <2>2
    <3>2. CASE n + 1 \notin s
      <4>1. s \in SUBSET (1..n) /\ n + 1 \notin s \ {Max(s)} /\ s \ {Max(s)} \in SUBSET (1..n + 1)
        BY <3>2, <2>3
      <4>2. new[s] = it[s] /\ new[s \ {Max(s)}] = it[s \ {Max(s)}]
        BY <3>2, <4>1
      <4>3. it[s] = IF s = {} THEN base ELSE step[Max(s)][it[s \ {Max(s)}]]
        BY <2>1, <4>1 DEF Folded
      <4> QED BY <4>2, <4>3
    <3> QED BY <3>1, <3>2
  <2> HIDE DEF new
  <2>6. Folded(new, n + 1, base, step)
    BY <2>5 DEF Folded
  <2> QED BY <2>4, <2>6
<1>3. N \in T
  <2> HIDE DEF Good
  <2>1. 0 \in T
    BY <1>1
  <2>2. ASSUME NEW n \in 0..N, n + 1 \in 0..N, n \in T PROVE n + 1 \in T
    <3>1. Good(n)
      BY <2>2
    <3>2. Good(n + 1)
      BY <1>2, <2>2, <3>1
    <3> QED BY <2>2, <3>2
  <2> HIDE DEF T
  <2>3. \A n \in 0..N : n + 1 \in 0..N /\ n \in T => n + 1 \in T
    BY <2>2
  <2>4. \A n \in 0..N : n \in T
    BY <2>1, <2>3, UpTo
  <2> QED BY <2>4
<1> HIDE DEF Good
<1>4. Good(N)
  BY <1>3
<1> QED BY <1>4 DEF Good
\* What goes on as such a fold does is one, step by step.
Stepwise(it, S, N, base, step) ==
    /\ it[{}] = base
    /\ \A z \in SUBSET (1..N) :
         z # {} /\ it[z \ {Max(z)}] \in S => it[z] = step[Max(z)][it[z \ {Max(z)}]]

Runs(f, N, base, step) == f[0] = base /\ \A n \in 1..N : f[n] = step[n][f[n - 1]]

\* The fold is the last of what it goes through, one element at a time.
LEMMA FoldRuns ==
    ASSUME NEW S, NEW base \in S, NEW N \in Nat, NEW step \in [1..N -> [S -> S]], NEW it,
           Stepwise(it, S, N, base, step)
    PROVE  \E f \in [0..N -> S] : Runs(f, N, base, step) /\ it[1..N] = f[N]
<1> DEFINE f == [n \in 0..N |-> it[1..n]]
           T == {n \in 0..N : f[n] \in S}
<1>1. f[0] = base
  <2>1. 1..0 = {} /\ 0 \in 0..N
    OBVIOUS
  <2> QED BY <2>1 DEF Stepwise
<1>2. ASSUME NEW n \in 1..N, f[n - 1] \in S PROVE f[n] = step[n][f[n - 1]] /\ f[n] \in S
  <2>1. /\ 1..n \in SUBSET (1..N) /\ 1..n # {} /\ n - 1 \in 0..N /\ n \in 0..N
        /\ Max(1..n) = n /\ (1..n) \ {n} = 1..(n - 1)
    BY Positions
  <2>2. it[1..n] = step[n][it[1..(n - 1)]]
    BY <1>2, <2>1 DEF Stepwise
  <2>3. f[n] = it[1..n] /\ f[n - 1] = it[1..(n - 1)]
    BY <2>1
  <2> HIDE DEF f
  <2>4. step[n] \in [S -> S]
    OBVIOUS
  <2> QED BY <1>2, <2>2, <2>3, <2>4
<1>3. f[N] = it[1..N]
  OBVIOUS
<1>4. DOMAIN f = 0..N /\ f = [n \in 0..N |-> f[n]]
  OBVIOUS
<1> HIDE DEF f
<1>5. 0 \in T
  BY <1>1
<1>6. ASSUME NEW n \in 0..N, n + 1 \in 0..N, n \in T PROVE n + 1 \in T
  <2>1. n + 1 \in 1..N /\ f[(n + 1) - 1] \in S
    BY <1>6
  <2> QED BY <1>2, <1>6, <2>1
<1>7. \A n \in 0..N : n \in T
  <2> HIDE DEF T
  <2>1. \A n \in 0..N : n + 1 \in 0..N /\ n \in T => n + 1 \in T
    BY <1>6
  <2> QED BY <1>5, <2>1, UpTo
<1>8. \A n \in 0..N : f[n] \in S
  BY <1>7
<1>9. \A n \in 1..N : f[n] = step[n][f[n - 1]]
  <2>1. \A n \in 1..N : n - 1 \in 0..N
    OBVIOUS
  <2> QED BY <1>2, <1>8, <2>1
<1> QED BY <1>1, <1>3, <1>4, <1>8, <1>9 DEF Runs

------------------------------------------------------------------------------
(* The folds of the model *)

\* A step of Evaluate, of Chosen and of ResolveArguments.
EvaluateStep(rules, env) ==
    [n \in 1..Len(rules) |-> [allowed \in BOOLEAN |->
       IF Matches(rules[n], env) THEN rules[n].action = "allow" ELSE allowed]]

ChosenStep(S, s, positions) ==
    [n \in 1..Len(s) |-> [out \in Seq(S) |->
       IF n \in positions THEN Append(out, s[n]) ELSE out]]

ArgumentStep(arguments, env) ==
    [n \in 1..Len(arguments) |-> [out \in Seq(Seq(Piece)) |->
       IF Evaluate(arguments[n].rules, env) THEN out \o arguments[n].value ELSE out]]


\* Each of the three goes through its sequence, one element at a time.
LEMMA EvaluateRuns ==
    ASSUME NEW rules \in Seq(Rule), NEW env
    PROVE  \E f \in [0..Len(rules) -> BOOLEAN] :
             /\ Runs(f, Len(rules), FALSE, EvaluateStep(rules, env))
             /\ Decided(rules, env) = f[Len(rules)]
<1> DEFINE N == Len(rules)
           base == FALSE
           acc == BOOLEAN
           step == EvaluateStep(rules, env)
           One(it, z) == IF Matches(rules[Max(z)], env)
                         THEN rules[Max(z)].action = "allow"
                         ELSE it[z \ {Max(z)}]
           Body(it) == [z \in SUBSET DOMAIN rules |-> IF z = {} THEN base ELSE One(it, z)]
           iter == CHOOSE it : it = Body(it)
<1>1. DOMAIN rules = 1..N /\ N \in Nat
  OBVIOUS
<1>2. base \in acc /\ step \in [1..N -> [acc -> acc]]
  BY DEF EvaluateStep
<1>3. ASSUME NEW z \in SUBSET (1..N), z # {}, NEW it, it[z \ {Max(z)}] \in acc
      PROVE  step[Max(z)][it[z \ {Max(z)}]] = One(it, z)
  <2>1. Max(z) \in 1..N
    BY <1>1, <1>3, MaxIn
  <2> QED BY <1>1, <1>3, <2>1 DEF EvaluateStep
<1>4. iter = Body(iter)
  <2>1. PICK it \in [SUBSET (1..N) -> acc] : Folded(it, N, base, step)
    <3> HIDE DEF step, N, base, acc
    <3> QED BY <1>1, <1>2, FoldExists
  <2>2. ASSUME NEW z \in SUBSET (1..N) PROVE it[z] = IF z = {} THEN base ELSE One(it, z)
    <3>1. z # {} => it[z \ {Max(z)}] \in acc
      BY <2>1
    <3> HIDE DEF step, N, base, acc
    <3>2. it[z] = IF z = {} THEN base ELSE step[Max(z)][it[z \ {Max(z)}]]
      BY <2>1 DEF Folded
    <3>3. CASE z = {}
      BY <3>2, <3>3
    <3>4. CASE z # {}
      <4>1. step[Max(z)][it[z \ {Max(z)}]] = One(it, z)
        BY <1>3, <3>1, <3>4
      <4> QED BY <3>2, <3>4, <4>1
    <3> QED BY <3>3, <3>4
  <2>3. it = Body(it)
    <3> HIDE DEF N, base
    <3> QED BY <1>1, <2>1, <2>2
  <2> HIDE DEF Body
  <2> QED BY <2>3
<1>5. Decided(rules, env) = iter[DOMAIN rules]
  BY DEF Decided, FoldLeft, MapThenFoldSet
<1> HIDE DEF iter, step, N, base, acc
<1>6. Stepwise(iter, acc, N, base, step)
  <2>1. iter[{}] = base
    BY <1>4
  <2>2. ASSUME NEW z \in SUBSET (1..N), z # {}, iter[z \ {Max(z)}] \in acc
        PROVE  iter[z] = step[Max(z)][iter[z \ {Max(z)}]]
    <3>1. Body(iter)[z] = One(iter, z)
      BY <1>1, <2>2
    <3>2. step[Max(z)][iter[z \ {Max(z)}]] = One(iter, z)
      BY <1>3, <2>2
    <3> HIDE DEF Body
    <3> QED BY <1>4, <3>1, <3>2
  <2> QED BY <2>1, <2>2 DEF Stepwise
<1>7. \E f \in [0..N -> acc] : Runs(f, N, base, step) /\ iter[1..N] = f[N]
  <2>1. N \in Nat /\ base \in acc /\ step \in [1..N -> [acc -> acc]]
    BY <1>1, <1>2
  <2>2. Stepwise(iter, acc, N, base, step)
    BY <1>6
  <2> HIDE DEF Body
  <2> QED BY <2>1, <2>2, FoldRuns
<1> QED BY <1>1, <1>5, <1>7 DEF N, step, base, acc


\* So for what is chosen.
LEMMA ChosenRuns ==
    ASSUME NEW S, NEW s \in Seq(S), NEW positions
    PROVE  \E f \in [0..Len(s) -> Seq(S)] :
             /\ Runs(f, Len(s), <<>>, ChosenStep(S, s, positions))
             /\ Chosen(s, positions) = f[Len(s)]
<1> DEFINE N == Len(s)
           places == [n \in DOMAIN s |-> n]
           base == <<>>
           acc == Seq(S)
           step == ChosenStep(S, s, positions)
           One(it, z) == IF places[Max(z)] \in positions
                         THEN Append(it[z \ {Max(z)}], s[places[Max(z)]])
                         ELSE it[z \ {Max(z)}]
           Body(it) == [z \in SUBSET DOMAIN places |-> IF z = {} THEN base ELSE One(it, z)]
           iter == CHOOSE it : it = Body(it)
<1>1. DOMAIN places = 1..N /\ N \in Nat /\ \A n \in 1..N : places[n] = n
  OBVIOUS
<1>2. base \in acc /\ step \in [1..N -> [acc -> acc]]
  BY DEF ChosenStep
<1>3. ASSUME NEW z \in SUBSET (1..N), z # {}, NEW it, it[z \ {Max(z)}] \in acc
      PROVE  step[Max(z)][it[z \ {Max(z)}]] = One(it, z)
  <2>1. Max(z) \in 1..N
    BY <1>1, <1>3, MaxIn
  <2> QED BY <1>1, <1>3, <2>1 DEF ChosenStep
<1>4. iter = Body(iter)
  <2>1. PICK it \in [SUBSET (1..N) -> acc] : Folded(it, N, base, step)
    <3> HIDE DEF step, N, base, acc
    <3> QED BY <1>1, <1>2, FoldExists
  <2>2. ASSUME NEW z \in SUBSET (1..N) PROVE it[z] = IF z = {} THEN base ELSE One(it, z)
    <3>1. z # {} => it[z \ {Max(z)}] \in acc
      BY <2>1
    <3> HIDE DEF step, N, base, acc, places
    <3>2. it[z] = IF z = {} THEN base ELSE step[Max(z)][it[z \ {Max(z)}]]
      BY <2>1 DEF Folded
    <3>3. CASE z = {}
      BY <3>2, <3>3
    <3>4. CASE z # {}
      <4>1. step[Max(z)][it[z \ {Max(z)}]] = One(it, z)
        BY <1>3, <3>1, <3>4
      <4> QED BY <3>2, <3>4, <4>1
    <3> QED BY <3>3, <3>4
  <2>3. it = Body(it)
    <3> HIDE DEF N, base, places
    <3> QED BY <1>1, <2>1, <2>2
  <2> HIDE DEF Body
  <2> QED BY <2>3
<1>5. Chosen(s, positions) = iter[DOMAIN places]
  BY DEF Chosen, FoldLeftDomain, FoldLeft, MapThenFoldSet
<1> HIDE DEF iter, step, N, base, acc, places
<1>6. Stepwise(iter, acc, N, base, step)
  <2>1. iter[{}] = base
    BY <1>4
  <2>2. ASSUME NEW z \in SUBSET (1..N), z # {}, iter[z \ {Max(z)}] \in acc
        PROVE  iter[z] = step[Max(z)][iter[z \ {Max(z)}]]
    <3>1. Body(iter)[z] = One(iter, z)
      BY <1>1, <2>2
    <3>2. step[Max(z)][iter[z \ {Max(z)}]] = One(iter, z)
      BY <1>3, <2>2
    <3> HIDE DEF Body
    <3> QED BY <1>4, <3>1, <3>2
  <2> QED BY <2>1, <2>2 DEF Stepwise
<1>7. \E f \in [0..N -> acc] : Runs(f, N, base, step) /\ iter[1..N] = f[N]
  <2>1. N \in Nat /\ base \in acc /\ step \in [1..N -> [acc -> acc]]
    BY <1>1, <1>2
  <2>2. Stepwise(iter, acc, N, base, step)
    BY <1>6
  <2> HIDE DEF Body
  <2> QED BY <2>1, <2>2, FoldRuns
<1> QED BY <1>1, <1>5, <1>7 DEF N, step, base, acc


\* So for arguments.
LEMMA ArgumentsRun ==
    ASSUME NEW arguments \in Seq(Argument), NEW env
    PROVE  \E f \in [0..Len(arguments) -> Seq(Seq(Piece))] :
             /\ Runs(f, Len(arguments), <<>>, ArgumentStep(arguments, env))
             /\ ResolveArguments(arguments, env) = f[Len(arguments)]
<1> DEFINE N == Len(arguments)
           base == <<>>
           acc == Seq(Seq(Piece))
           step == ArgumentStep(arguments, env)
           One(it, z) == IF Evaluate(arguments[Max(z)].rules, env)
                         THEN it[z \ {Max(z)}] \o arguments[Max(z)].value
                         ELSE it[z \ {Max(z)}]
           Body(it) == [z \in SUBSET DOMAIN arguments |-> IF z = {} THEN base ELSE One(it, z)]
           iter == CHOOSE it : it = Body(it)
<1>1. DOMAIN arguments = 1..N /\ N \in Nat
  OBVIOUS
<1>2. base \in acc /\ step \in [1..N -> [acc -> acc]]
  <2>1. \A n \in 1..N : arguments[n].value \in Seq(Seq(Piece))
    <3>1. \A n \in 1..N : arguments[n] \in Argument
      BY <1>1
    <3> QED BY <3>1 DEF Argument
  <2>2. \A n \in 1..N, out \in Seq(Seq(Piece)) : out \o arguments[n].value \in Seq(Seq(Piece))
    BY <2>1, ConcatProperties
  <2> HIDE DEF N
  <2> QED BY <2>2, EmptySeq DEF ArgumentStep, N
<1>3. ASSUME NEW z \in SUBSET (1..N), z # {}, NEW it, it[z \ {Max(z)}] \in acc
      PROVE  step[Max(z)][it[z \ {Max(z)}]] = One(it, z)
  <2>1. Max(z) \in 1..N
    BY <1>1, <1>3, MaxIn
  <2> QED BY <1>1, <1>3, <2>1 DEF ArgumentStep
<1>4. iter = Body(iter)
  <2>1. PICK it \in [SUBSET (1..N) -> acc] : Folded(it, N, base, step)
    <3> HIDE DEF step, N, base, acc
    <3> QED BY <1>1, <1>2, FoldExists
  <2>2. ASSUME NEW z \in SUBSET (1..N) PROVE it[z] = IF z = {} THEN base ELSE One(it, z)
    <3>1. z # {} => it[z \ {Max(z)}] \in acc
      BY <2>1
    <3> HIDE DEF step, N, base, acc
    <3>2. it[z] = IF z = {} THEN base ELSE step[Max(z)][it[z \ {Max(z)}]]
      BY <2>1 DEF Folded
    <3>3. CASE z = {}
      BY <3>2, <3>3
    <3>4. CASE z # {}
      <4>1. step[Max(z)][it[z \ {Max(z)}]] = One(it, z)
        BY <1>3, <3>1, <3>4
      <4> QED BY <3>2, <3>4, <4>1
    <3> QED BY <3>3, <3>4
  <2>3. it = Body(it)
    <3> HIDE DEF N, base
    <3> QED BY <1>1, <2>1, <2>2
  <2> HIDE DEF Body
  <2> QED BY <2>3
<1>5. ResolveArguments(arguments, env) = iter[DOMAIN arguments]
  BY DEF ResolveArguments, FoldLeft, MapThenFoldSet
<1> HIDE DEF iter, step, N, base, acc
<1>6. Stepwise(iter, acc, N, base, step)
  <2>1. iter[{}] = base
    BY <1>4
  <2>2. ASSUME NEW z \in SUBSET (1..N), z # {}, iter[z \ {Max(z)}] \in acc
        PROVE  iter[z] = step[Max(z)][iter[z \ {Max(z)}]]
    <3>1. Body(iter)[z] = One(iter, z)
      BY <1>1, <2>2
    <3>2. step[Max(z)][iter[z \ {Max(z)}]] = One(iter, z)
      BY <1>3, <2>2
    <3> HIDE DEF Body
    <3> QED BY <1>4, <3>1, <3>2
  <2> QED BY <2>1, <2>2 DEF Stepwise
<1>7. \E f \in [0..N -> acc] : Runs(f, N, base, step) /\ iter[1..N] = f[N]
  <2>1. N \in Nat /\ base \in acc /\ step \in [1..N -> [acc -> acc]]
    BY <1>1, <1>2
  <2>2. Stepwise(iter, acc, N, base, step)
    BY <1>6
  <2> HIDE DEF Body
  <2> QED BY <2>1, <2>2, FoldRuns
<1> QED BY <1>1, <1>5, <1>7 DEF N, step, base, acc

------------------------------------------------------------------------------
(* What they compute *)

\* The last rule that holds decides.
LEMMA EvaluateIs ==
    ASSUME NEW rules \in Seq(Rule), NEW env
    PROVE  Evaluate(rules, env) <=>
             \/ rules = <<>>
             \/ \E n \in DOMAIN rules :
                  /\ Matches(rules[n], env) /\ rules[n].action = "allow"
                  /\ \A k \in DOMAIN rules : k > n => ~Matches(rules[k], env)
<1> DEFINE N == Len(rules)
           Holds(n) == Matches(rules[n], env)
           Allows(n) == rules[n].action = "allow"
           Decides(m) == \E n \in 1..m : Holds(n) /\ Allows(n) /\ \A k \in 1..m : k > n => ~Holds(k)
<1>1. DOMAIN rules = 1..N /\ N \in Nat
  OBVIOUS
<1>2. PICK f \in [0..N -> BOOLEAN] :
        /\ Runs(f, N, FALSE, EvaluateStep(rules, env))
        /\ Decided(rules, env) = f[N]
  BY EvaluateRuns
<1> DEFINE T == {m \in 0..N : f[m] <=> Decides(m)}
<1>3. ~f[0]
  BY <1>2 DEF Runs
<1>4. ASSUME NEW m \in 0..N, m + 1 \in 0..N
      PROVE  /\ Holds(m + 1) => (f[m + 1] <=> Allows(m + 1))
             /\ ~Holds(m + 1) => (f[m + 1] <=> f[m])
  <2>1. m + 1 \in 1..N /\ (m + 1) - 1 = m /\ f[m] \in BOOLEAN
    BY <1>1, <1>4
  <2>2. f[m + 1] = EvaluateStep(rules, env)[m + 1][f[m]]
    BY <1>2, <2>1 DEF Runs
  <2> QED BY <2>1, <2>2 DEF EvaluateStep
<1> HIDE DEF Holds, Allows
<1>5. 0 \in T
  <2>1. ~Decides(0)
    OBVIOUS
  <2> QED BY <1>1, <1>3, <2>1
<1>6. ASSUME NEW m \in 0..N, m + 1 \in 0..N, m \in T PROVE m + 1 \in T
  <2>1. m \in Nat /\ (f[m] <=> Decides(m))
    BY <1>1, <1>6
  <2>2. CASE Holds(m + 1)
    <3>1. ASSUME Decides(m + 1) PROVE Allows(m + 1)
      BY <2>1, <2>2, <3>1
    <3>2. ASSUME Allows(m + 1) PROVE Decides(m + 1)
      BY <2>1, <2>2, <3>2
    <3> HIDE DEF Decides
    <3> QED BY <1>4, <1>6, <2>2, <3>1, <3>2
  <2>3. CASE ~Holds(m + 1)
    <3>1. ASSUME Decides(m) PROVE Decides(m + 1)
      BY <2>1, <2>3, <3>1
    <3>2. ASSUME Decides(m + 1) PROVE Decides(m)
      <4>1. PICK n \in 1..m + 1 : Holds(n) /\ Allows(n) /\ \A k \in 1..m + 1 : k > n => ~Holds(k)
        BY <3>2
      <4>2. n \in 1..m
        BY <2>1, <2>3, <4>1
      <4> QED BY <2>1, <4>1, <4>2
    <3> HIDE DEF Decides
    <3> QED BY <1>4, <1>6, <2>1, <2>3, <3>1, <3>2
  <2> QED BY <2>2, <2>3
<1>7. f[N] <=> Decides(N)
  <2>1. \A m \in 0..N : m + 1 \in 0..N /\ m \in T => m + 1 \in T
    BY <1>6
  <2>2. \A m \in 0..N : m \in T
    <3> HIDE DEF T
    <3> QED BY <1>1, <1>5, <2>1, UpTo
  <2> HIDE DEF Decides
  <2> QED BY <1>1, <2>2
<1>8. Evaluate(rules, env) <=> rules = <<>> \/ f[N]
  BY <1>2 DEF Evaluate
<1> QED BY <1>1, <1>7, <1>8 DEF Decides, Holds, Allows

\* Arguments are sequences of words.
LEMMA ArgumentsType ==
    ASSUME NEW arguments \in Seq(Argument), NEW env
    PROVE  ResolveArguments(arguments, env) \in Seq(Seq(Piece))
<1>1. PICK f \in [0..Len(arguments) -> Seq(Seq(Piece))] :
        ResolveArguments(arguments, env) = f[Len(arguments)]
  BY ArgumentsRun
<1>2. Len(arguments) \in 0..Len(arguments)
  <2>1. Len(arguments) \in Nat
    OBVIOUS
  <2> QED BY <2>1
<1> QED BY <1>1, <1>2

\* A step of Chosen.
ChosenBy(f, S, s, positions) ==
    /\ f \in [0..Len(s) -> Seq(S)]
    /\ f[0] = <<>>
    /\ \A m \in 0..Len(s) : m + 1 \in 0..Len(s) =>
         f[m + 1] = IF m + 1 \in positions THEN Append(f[m], s[m + 1]) ELSE f[m]
    /\ Chosen(s, positions) = f[Len(s)]

\* Choosing goes through the sequence.
LEMMA ChosenSteps ==
    ASSUME NEW S, NEW s \in Seq(S), NEW positions
    PROVE  \E f : ChosenBy(f, S, s, positions)
<1> DEFINE N == Len(s)
<1>1. N \in Nat /\ N \in 0..N
  OBVIOUS
<1>2. PICK f \in [0..N -> Seq(S)] :
        Runs(f, N, <<>>, ChosenStep(S, s, positions)) /\ Chosen(s, positions) = f[N]
  <2>1. \E f \in [0..Len(s) -> Seq(S)] :
          Runs(f, Len(s), <<>>, ChosenStep(S, s, positions)) /\ Chosen(s, positions) = f[Len(s)]
    BY ChosenRuns
  <2> QED BY <2>1
<1>3. ASSUME NEW m \in 0..N, m + 1 \in 0..N
      PROVE  f[m + 1] = IF m + 1 \in positions THEN Append(f[m], s[m + 1]) ELSE f[m]
  <2>1. m + 1 \in 1..N /\ (m + 1) - 1 = m /\ f[m] \in Seq(S)
    BY <1>1, <1>3
  <2>2. f[m + 1] = ChosenStep(S, s, positions)[m + 1][f[m]]
    BY <1>2, <2>1 DEF Runs
  <2> QED BY <2>1, <2>2 DEF ChosenStep
<1>4. f[0] = <<>>
  BY <1>2 DEF Runs
<1>5. ChosenBy(f, S, s, positions)
  BY <1>2, <1>3, <1>4 DEF ChosenBy
<1> QED BY <1>5

\* What is chosen of the first m of a sequence, in order: e says where it was.
Places(e, c, s, m, positions) ==
    /\ e \in [1..Len(c) -> {n \in 1..m : n \in positions}]
    /\ \A j, k \in 1..Len(c) : j < k => e[j] < e[k]
    /\ \A n \in 1..m : n \in positions => \E k \in 1..Len(c) : e[k] = n
    /\ \A k \in 1..Len(c) : c[k] = s[e[k]]

\* One more that is chosen.
LEMMA PlacesMore ==
    ASSUME NEW S, NEW s \in Seq(S), NEW m \in Nat, m + 1 \in 1..Len(s), NEW positions,
           NEW c \in Seq(S), NEW e, Places(e, c, s, m, positions), m + 1 \in positions
    PROVE  \E d : Places(d, Append(c, s[m + 1]), s, m + 1, positions)
<1> DEFINE L == Len(c)
           b == Append(c, s[m + 1])
           d == [k \in 1..L + 1 |-> IF k = L + 1 THEN m + 1 ELSE e[k]]
<1>1. s[m + 1] \in S
  OBVIOUS
<1>2. /\ Len(b) = L + 1 /\ L \in Nat /\ b[L + 1] = s[m + 1]
      /\ \A k \in 1..L : b[k] = c[k]
  BY <1>1, AppendProperties
<1>3. /\ \A k \in 1..L : e[k] \in 1..m /\ e[k] \in positions /\ c[k] = s[e[k]]
      /\ \A j, k \in 1..L : j < k => e[j] < e[k]
      /\ \A n \in 1..m : n \in positions => \E k \in 1..L : e[k] = n
  BY DEF Places
<1>4. /\ \A k \in 1..L : d[k] = e[k] /\ k \in 1..L + 1
      /\ d[L + 1] = m + 1 /\ L + 1 \in 1..L + 1
      /\ \A k \in 1..L + 1 : k \in 1..L \/ k = L + 1
      /\ d = [k \in 1..L + 1 |-> d[k]]
  BY <1>2
<1> HIDE DEF d, b
<1>5. ASSUME NEW k \in 1..L + 1 PROVE d[k] \in 1..m + 1 /\ d[k] \in positions
  <2>1. CASE k \in 1..L
    <3>1. e[k] \in 1..m /\ e[k] \in positions /\ d[k] = e[k]
      BY <1>3, <1>4, <2>1
    <3> QED BY <3>1
  <2>2. CASE k = L + 1
    BY <1>4, <2>2
  <2> QED BY <1>4, <2>1, <2>2
<1>6. ASSUME NEW j \in 1..L + 1, NEW k \in 1..L + 1, j < k PROVE d[j] < d[k]
  <2> HIDE DEF L
  <2>1. j \in 1..L /\ d[j] = e[j]
    <3>1. j # L + 1
      BY <1>2, <1>6
    <3> QED BY <1>4, <3>1
  <2>2. CASE k \in 1..L
    BY <1>3, <1>4, <1>6, <2>1, <2>2
  <2>3. CASE k = L + 1
    <3>1. e[j] \in 1..m /\ d[k] = m + 1
      BY <1>3, <1>4, <2>1, <2>3
    <3>2. e[j] < m + 1
      BY <3>1
    <3> QED BY <2>1, <3>1, <3>2
  <2> QED BY <1>4, <2>2, <2>3
<1>7. ASSUME NEW n \in 1..m + 1, n \in positions PROVE \E k \in 1..L + 1 : d[k] = n
  <2>1. CASE n = m + 1
    BY <1>4, <2>1
  <2>2. CASE n \in 1..m
    <3>1. PICK k \in 1..L : e[k] = n
      BY <1>3, <1>7, <2>2
    <3> QED BY <1>4, <3>1
  <2> QED BY <2>1, <2>2
<1>8. ASSUME NEW k \in 1..L + 1 PROVE b[k] = s[d[k]]
  <2>1. CASE k \in 1..L
    <3>1. b[k] = c[k] /\ c[k] = s[e[k]] /\ d[k] = e[k]
      BY <1>2, <1>3, <1>4, <2>1
    <3> QED BY <3>1
  <2>2. CASE k = L + 1
    <3>1. b[k] = s[m + 1] /\ d[k] = m + 1
      BY <1>2, <1>4, <2>2
    <3> QED BY <3>1
  <2> QED BY <1>4, <2>1, <2>2
<1>9. d \in [1..L + 1 -> {n \in 1..m + 1 : n \in positions}]
  BY <1>4, <1>5
<1>10. Places(d, b, s, m + 1, positions)
  <2> HIDE DEF L
  <2> QED BY <1>2, <1>6, <1>7, <1>8, <1>9 DEF Places
<1> QED BY <1>10 DEF b

\* They keep their order, and are those of the positions.
LEMMA ChosenPlaces ==
    ASSUME NEW S, NEW s \in Seq(S), NEW positions
    PROVE  \E e : Places(e, Chosen(s, positions), s, Len(s), positions)
<1> DEFINE N == Len(s)
<1>1. N \in Nat
  OBVIOUS
<1>2. PICK f : ChosenBy(f, S, s, positions)
  BY ChosenSteps
<1> DEFINE T == {m \in 0..N : \E e : Places(e, f[m], s, m, positions)}
<1>3. 0 \in T
  <2> DEFINE e == [k \in 1..0 |-> k]
  <2>1. 1..0 = {} /\ Len(f[0]) = 0
    BY <1>2 DEF ChosenBy
  <2>2. e \in [1..0 -> {n \in 1..0 : n \in positions}]
    BY <2>1
  <2> HIDE DEF e
  <2>3. Places(e, f[0], s, 0, positions)
    BY <2>1, <2>2 DEF Places
  <2> QED BY <1>1, <2>3
<1>4. ASSUME NEW m \in 0..N, m + 1 \in 0..N, m \in T PROVE m + 1 \in T
  <2>1. m \in Nat /\ f[m] \in Seq(S) /\ m + 1 \in 1..N
    BY <1>1, <1>2, <1>4 DEF ChosenBy
  <2>2. PICK e : Places(e, f[m], s, m, positions)
    BY <1>4
  <2>3. CASE m + 1 \in positions
    <3>1. f[m + 1] = Append(f[m], s[m + 1])
      BY <1>2, <1>4, <2>3 DEF ChosenBy
    <3>2. \E d : Places(d, Append(f[m], s[m + 1]), s, m + 1, positions)
      BY <2>1, <2>2, <2>3, PlacesMore
    <3> QED BY <1>4, <3>1, <3>2
  <2>4. CASE m + 1 \notin positions
    <3>1. f[m + 1] = f[m]
      BY <1>2, <1>4, <2>4 DEF ChosenBy
    <3>2. {n \in 1..m + 1 : n \in positions} = {n \in 1..m : n \in positions}
      BY <2>1, <2>4
    <3>3. \A n \in 1..m + 1 : n \in positions => n \in 1..m
      BY <2>1, <2>4
    <3>4. Places(e, f[m], s, m + 1, positions)
      BY <2>2, <3>2, <3>3 DEF Places
    <3> QED BY <1>4, <3>1, <3>4
  <2> QED BY <2>3, <2>4
<1>5. N \in T
  <2>1. \A m \in 0..N : m + 1 \in 0..N /\ m \in T => m + 1 \in T
    BY <1>4
  <2> HIDE DEF T
  <2>2. \A m \in 0..N : m \in T
    BY <1>1, <1>3, <2>1, UpTo
  <2> QED BY <1>1, <2>2
<1>6. Chosen(s, positions) = f[N]
  BY <1>2 DEF ChosenBy
<1> QED BY <1>5, <1>6

\* The type.
LEMMA ChosenType ==
    ASSUME NEW S, NEW s \in Seq(S), NEW positions
    PROVE  Chosen(s, positions) \in Seq(S)
<1>1. PICK f : ChosenBy(f, S, s, positions)
  BY ChosenSteps
<1>2. Len(s) \in 0..Len(s)
  <2>1. Len(s) \in Nat
    OBVIOUS
  <2> QED BY <2>1
<1> QED BY <1>1, <1>2 DEF ChosenBy

\* Nothing is chosen, or one, or all.
LEMMA ChosenNone ==
    ASSUME NEW S, NEW s \in Seq(S), NEW positions, \A n \in 1..Len(s) : n \notin positions
    PROVE  Chosen(s, positions) = <<>>
<1>1. PICK e : Places(e, Chosen(s, positions), s, Len(s), positions)
  BY ChosenPlaces
<1>2. Chosen(s, positions) \in Seq(S)
  BY ChosenType
<1>3. \A k \in 1..Len(Chosen(s, positions)) : FALSE
  BY <1>1 DEF Places
<1>4. Len(Chosen(s, positions)) = 0
  BY <1>2, <1>3, LenProperties
<1> QED BY <1>2, <1>4, EmptySeq

\* If one position is to be chosen, its element is.
LEMMA ChosenOne ==
    ASSUME NEW S, NEW s \in Seq(S), NEW positions, NEW n \in 1..Len(s),
           \A k \in 1..Len(s) : k \in positions <=> k = n
    PROVE  Chosen(s, positions) = <<s[n]>>
<1> DEFINE c == Chosen(s, positions)
<1>1. PICK e : Places(e, c, s, Len(s), positions)
  BY ChosenPlaces
<1>2. c \in Seq(S) /\ Len(c) \in Nat /\ s[n] \in S
  BY ChosenType, LenProperties
<1> HIDE DEF c
<1>3. \A k \in 1..Len(c) : e[k] = n /\ c[k] = s[n]
  BY <1>1 DEF Places
<1>4. \E k \in 1..Len(c) : e[k] = n
  BY <1>1 DEF Places
<1>5. ~(Len(c) >= 2)
  <2> SUFFICES ASSUME Len(c) >= 2 PROVE FALSE
    OBVIOUS
  <2>1. 1 \in 1..Len(c) /\ 2 \in 1..Len(c)
    BY <1>2
  <2>2. e[1] < e[2] /\ e[1] = n /\ e[2] = n
    BY <1>1, <1>3, <2>1 DEF Places
  <2> QED BY <2>2
<1>6. Len(c) = 1
  <2>1. PICK k \in 1..Len(c) : e[k] = n
    BY <1>4
  <2>2. Len(c) >= 1
    BY <1>2, <2>1
  <2>3. Len(c) \in Nat
    BY <1>2
  <2>4. \A l \in Nat : ~(l >= 2) /\ l >= 1 => l = 1
    OBVIOUS
  <2> QED BY <1>5, <2>2, <2>3, <2>4
<1>7. c = <<s[n]>>
  <2>1. c[1] = s[n]
    BY <1>3, <1>6
  <2> QED BY <1>2, <1>6, <2>1
<1> QED BY <1>7 DEF c

\* If all are, the sequence is.
LEMMA ChosenAll ==
    ASSUME NEW S, NEW s \in Seq(S), NEW positions, \A n \in 1..Len(s) : n \in positions
    PROVE  Chosen(s, positions) = s
<1> DEFINE N == Len(s)
<1>1. N \in Nat
  OBVIOUS
<1>2. PICK f : ChosenBy(f, S, s, positions)
  BY ChosenSteps
<1> DEFINE T == {m \in 0..N : Len(f[m]) = m /\ \A k \in 1..m : f[m][k] = s[k]}
<1>3. 0 \in T
  BY <1>1, <1>2 DEF ChosenBy
<1>4. ASSUME NEW m \in 0..N, m + 1 \in 0..N, m \in T PROVE m + 1 \in T
  <2>1. m \in Nat /\ f[m] \in Seq(S) /\ m + 1 \in 1..N /\ s[m + 1] \in S
    BY <1>1, <1>2, <1>4 DEF ChosenBy
  <2>2. f[m + 1] = Append(f[m], s[m + 1])
    BY <1>2, <1>4, <2>1 DEF ChosenBy
  <2>3. Len(f[m]) = m /\ \A k \in 1..m : f[m][k] = s[k]
    BY <1>4
  <2>4. /\ Len(f[m + 1]) = m + 1 /\ f[m + 1][m + 1] = s[m + 1]
        /\ \A k \in 1..m : f[m + 1][k] = f[m][k]
    BY <2>1, <2>2, <2>3, AppendProperties
  <2>5. \A k \in 1..m + 1 : f[m + 1][k] = s[k]
    <3>1. \A k \in 1..m + 1 : k \in 1..m \/ k = m + 1
      BY <2>1
    <3> QED BY <2>3, <2>4, <3>1
  <2> QED BY <1>4, <2>4, <2>5
<1>5. N \in T
  <2>1. \A m \in 0..N : m + 1 \in 0..N /\ m \in T => m + 1 \in T
    BY <1>4
  <2> HIDE DEF T
  <2>2. \A m \in 0..N : m \in T
    BY <1>1, <1>3, <2>1, UpTo
  <2> QED BY <1>1, <2>2
<1>6. Chosen(s, positions) = f[N] /\ Len(f[N]) = N /\ \A k \in 1..N : f[N][k] = s[k]
  BY <1>2, <1>5 DEF ChosenBy
<1>7. f[N] \in Seq(S)
  BY <1>6, ChosenType
<1> HIDE DEF N
<1>8. f[N] = s
  BY <1>6, <1>7, SeqEqual DEF N
<1> QED BY <1>6, <1>8

\* Only positions in the sequence matter.
LEMMA ChosenSame ==
    ASSUME NEW S, NEW s \in Seq(S), NEW positions, NEW others,
           \A n \in 1..Len(s) : n \in positions <=> n \in others
    PROVE  Chosen(s, positions) = Chosen(s, others)
<1> DEFINE N == Len(s)
<1>1. N \in Nat
  OBVIOUS
<1>2. PICK f : ChosenBy(f, S, s, positions)
  BY ChosenSteps
<1>3. PICK g : ChosenBy(g, S, s, others)
  BY ChosenSteps
<1> DEFINE T == {m \in 0..N : f[m] = g[m]}
<1>4. 0 \in T
  BY <1>1, <1>2, <1>3 DEF ChosenBy
<1>5. ASSUME NEW m \in 0..N, m + 1 \in 0..N, m \in T PROVE m + 1 \in T
  <2>1. m + 1 \in 1..N
    BY <1>1, <1>5
  <2>2. f[m + 1] = IF m + 1 \in positions THEN Append(f[m], s[m + 1]) ELSE f[m]
    BY <1>2, <1>5 DEF ChosenBy
  <2>3. g[m + 1] = IF m + 1 \in others THEN Append(g[m], s[m + 1]) ELSE g[m]
    BY <1>3, <1>5 DEF ChosenBy
  <2>4. m + 1 \in positions <=> m + 1 \in others
    BY <2>1
  <2> HIDE DEF N
  <2> QED BY <1>5, <2>2, <2>3, <2>4
<1>6. N \in T
  <2>1. \A m \in 0..N : m + 1 \in 0..N /\ m \in T => m + 1 \in T
    BY <1>5
  <2> HIDE DEF T
  <2>2. \A m \in 0..N : m \in T
    <3> HIDE DEF N
    <3> QED BY <1>1, <1>4, <2>1, UpTo
  <2> QED BY <1>1, <2>2
<1> QED BY <1>2, <1>3, <1>6 DEF ChosenBy

\* What is chosen of one sequence after another.
LEMMA ChosenConcat ==
    ASSUME NEW S, NEW s \in Seq(S), NEW t \in Seq(S), NEW positions, NEW others,
           \A n \in 1..Len(t) : n \in others <=> Len(s) + n \in positions
    PROVE  Chosen(s \o t, positions) = Chosen(s, positions) \o Chosen(t, others)
<1> DEFINE M == Len(s)
           N == Len(t)
           st == s \o t
<1>0. ASSUME NEW a \in Seq(S), NEW b \in Seq(S), NEW x \in S
      PROVE  Append(a \o b, x) = a \o Append(b, x)
  <2>1. Append(a \o b, x) \in Seq(S) /\ a \o Append(b, x) \in Seq(S)
    BY ConcatProperties, AppendProperties
  <2>2. Len(Append(a \o b, x)) = Len(a \o Append(b, x))
    BY ConcatProperties, AppendProperties
  <2>3. ASSUME NEW i \in 1..Len(Append(a \o b, x))
        PROVE  Append(a \o b, x)[i] = (a \o Append(b, x))[i]
    OBVIOUS
  <2> QED BY <2>1, <2>2, <2>3, SeqEqual
<1>1. /\ M \in Nat /\ N \in Nat /\ st \in Seq(S) /\ Len(st) = M + N
      /\ \A k \in 1..M : st[k] = s[k] /\ s[k] \in S
      /\ \A k \in 1..N : st[M + k] = t[k] /\ t[k] \in S
  BY ConcatProperties
<1>2. PICK f : ChosenBy(f, S, st, positions)
  BY <1>1, ChosenSteps
<1>3. PICK g : ChosenBy(g, S, s, positions)
  BY ChosenSteps
<1>4. PICK h : ChosenBy(h, S, t, others)
  BY ChosenSteps
<1> DEFINE T == {m \in 0..M : f[m] = g[m]}
           U == {m \in 0..N : f[M + m] = g[M] \o h[m]}
<1> HIDE DEF st
<1>5. 0 \in T
  BY <1>1, <1>2, <1>3 DEF ChosenBy
<1>6. ASSUME NEW m \in 0..M, m + 1 \in 0..M, m \in T PROVE m + 1 \in T
  <2>1. m \in 0..Len(st) /\ m + 1 \in 0..Len(st) /\ m + 1 \in 1..M
    BY <1>1, <1>6
  <2>2. f[m + 1] = IF m + 1 \in positions THEN Append(f[m], st[m + 1]) ELSE f[m]
    BY <1>2, <2>1 DEF ChosenBy
  <2>3. g[m + 1] = IF m + 1 \in positions THEN Append(g[m], s[m + 1]) ELSE g[m]
    BY <1>3, <1>6 DEF ChosenBy
  <2>4. f[m] = g[m] /\ st[m + 1] = s[m + 1]
    BY <1>1, <1>6, <2>1
  <2> HIDE DEF M
  <2> QED BY <1>6, <2>2, <2>3, <2>4
<1>7. f[M] = g[M] /\ g[M] \in Seq(S)
  <2>1. \A m \in 0..M : m + 1 \in 0..M /\ m \in T => m + 1 \in T
    BY <1>6
  <2>2. \A m \in 0..M : m \in T
    <3> HIDE DEF T, M
    <3> QED BY <1>1, <1>5, <2>1, UpTo
  <2>3. M \in 0..M
    BY <1>1
  <2> QED BY <1>3, <2>2, <2>3 DEF ChosenBy
<1>8. 0 \in U
  <2>1. h[0] = <<>> /\ M + 0 = M
    BY <1>1, <1>4 DEF ChosenBy
  <2>2. g[M] \o <<>> = g[M]
    BY <1>7, ConcatEmptySeq
  <2>3. f[M + 0] = g[M] \o h[0] /\ 0 \in 0..N
    <3> HIDE DEF M
    <3> QED BY <1>1, <1>7, <2>1, <2>2
  <2> QED BY <2>3
<1>9. ASSUME NEW m \in 0..N, m + 1 \in 0..N, m \in U PROVE m + 1 \in U
  <2>1. /\ M + m \in 0..Len(st) /\ (M + m) + 1 \in 0..Len(st) /\ m + 1 \in 1..N
        /\ (M + m) + 1 = M + (m + 1)
    BY <1>1, <1>9
  <2>2. f[M + (m + 1)] = IF M + (m + 1) \in positions THEN Append(f[M + m], st[M + (m + 1)])
                         ELSE f[M + m]
    <3>1. f[(M + m) + 1] = IF (M + m) + 1 \in positions THEN Append(f[M + m], st[(M + m) + 1])
                           ELSE f[M + m]
      BY <1>2, <2>1 DEF ChosenBy
    <3> QED BY <2>1, <3>1
  <2>3. h[m + 1] = IF m + 1 \in others THEN Append(h[m], t[m + 1]) ELSE h[m]
    BY <1>4, <1>9 DEF ChosenBy
  <2>4. f[M + m] = g[M] \o h[m] /\ st[M + (m + 1)] = t[m + 1] /\ t[m + 1] \in S /\ h[m] \in Seq(S)
    BY <1>1, <1>4, <1>9, <2>1 DEF ChosenBy
  <2>5. m + 1 \in others <=> M + (m + 1) \in positions
    BY <2>1
  <2>6. Append(g[M] \o h[m], t[m + 1]) = g[M] \o Append(h[m], t[m + 1])
    BY <1>0, <1>7, <2>4
  <2>7. f[M + (m + 1)] = g[M] \o h[m + 1]
    <3>1. CASE m + 1 \in others
      BY <2>2, <2>3, <2>4, <2>5, <2>6, <3>1
    <3>2. CASE m + 1 \notin others
      BY <2>2, <2>3, <2>4, <2>5, <3>2
    <3> QED BY <3>1, <3>2
  <2> QED BY <1>9, <2>7
<1>10. f[M + N] = g[M] \o h[N]
  <2>1. \A m \in 0..N : m + 1 \in 0..N /\ m \in U => m + 1 \in U
    BY <1>9
  <2>2. \A m \in 0..N : m \in U
    <3> HIDE DEF U, N
    <3> QED BY <1>1, <1>8, <2>1, UpTo
  <2>3. N \in 0..N
    BY <1>1
  <2> QED BY <2>2, <2>3
<1> QED BY <1>1, <1>2, <1>3, <1>4, <1>10 DEF ChosenBy, st

\* Coordinates lead to a path.
LEMMA ToPathType ==
    ASSUME NEW c \in Coordinates
    PROVE  ToPath(c) \in Path
BY DEF ToPath, Path, Coordinates

\* What the fold over the libraries of a version goes through, and its step.
Resolved == [natives : Seq(Name \X Seq(STRING)), classpath : Seq(ResolvedJar),
             seen : SUBSET ((STRING \X STRING \X Seq(STRING)) \cup {Malformed})]

\* What a library brings to the classpath.
Brings(library) ==
    IF ResolveArtifact(library) # None THEN ResolveArtifact(library) ELSE ResolveFromMaven(library)

\* It is a jar, or nothing.
LEMMA BringsType ==
    ASSUME NEW library \in Library
    PROVE  Brings(library) \in ResolvedJar \cup {None}
<1>1. /\ library.name # Malformed => library.name \in Coordinates
      /\ library.artifact # None => library.artifact.path \in Path \cup {None}
  BY DEF Library, Name
<1>2. library.name # Malformed => ToPath(library.name) \in Path
  BY <1>1, ToPathType
<1> QED BY <1>1, <1>2 DEF Brings, ResolveArtifact, ResolveFromMaven, ResolvedJar, Digest

\* A library added to what was resolved leaves something of the kind.
LEMMA AddLibraryType ==
    ASSUME NEW resolved \in Resolved, NEW library \in Library, NEW env
    PROVE  AddLibrary(resolved, library, env) \in Resolved
<1> DEFINE classifier == NativeClassifier(library, env)
           entry == Brings(library)
           fresh == entry # None /\ Key(library.name) \notin resolved.seen
           natives == IF classifier \in library.classifiers
                      THEN Append(resolved.natives, <<library.name, classifier>>)
                      ELSE resolved.natives
           classpath == IF fresh THEN Append(resolved.classpath, entry) ELSE resolved.classpath
           seen == IF fresh THEN resolved.seen \cup {Key(library.name)} ELSE resolved.seen
<1>1. AddLibrary(resolved, library, env) =
        [natives |-> natives, classpath |-> classpath, seen |-> seen]
  BY DEF AddLibrary, Brings
<1>2. /\ resolved.natives \in Seq(Name \X Seq(STRING)) /\ resolved.classpath \in Seq(ResolvedJar)
      /\ resolved.seen \in SUBSET ((STRING \X STRING \X Seq(STRING)) \cup {Malformed})
      /\ library.name \in Name /\ library.classifiers \in SUBSET Seq(STRING)
  BY DEF Resolved, Library
<1>3. natives \in Seq(Name \X Seq(STRING))
  <2> HIDE DEF classifier
  <2>1. CASE classifier \in library.classifiers
    <3>1. <<library.name, classifier>> \in Name \X Seq(STRING)
      BY <1>2, <2>1
    <3> QED BY <1>2, <2>1, <3>1, AppendProperties
  <2> QED BY <1>2, <2>1
<1>4. classpath \in Seq(ResolvedJar)
  <2>1. entry \in ResolvedJar \cup {None}
    BY BringsType
  <2> HIDE DEF entry
  <2> QED BY <1>2, <2>1, AppendProperties
<1>5. Key(library.name) \in (STRING \X STRING \X Seq(STRING)) \cup {Malformed}
  BY <1>2 DEF Key, Name, DedupKey, Coordinates
<1> HIDE DEF natives, classpath
<1>6. seen \in SUBSET ((STRING \X STRING \X Seq(STRING)) \cup {Malformed})
  BY <1>2, <1>5
<1> HIDE DEF seen
<1> QED BY <1>1, <1>3, <1>4, <1>6 DEF Resolved

LibraryStep(libraries, env) ==
    [n \in 1..Len(libraries) |-> [resolved \in Resolved |->
       IF IsApplicable(libraries[n], env) THEN AddLibrary(resolved, libraries[n], env)
       ELSE resolved]]


\* Resolving goes through the libraries, one at a time.
LEMMA LibrariesRun ==
    ASSUME NEW libraries \in Seq(Library), NEW env
    PROVE  \E f \in [0..Len(libraries) -> Resolved] :
             /\ Runs(f, Len(libraries), [natives |-> <<>>, classpath |-> <<>>, seen |-> {}],
                     LibraryStep(libraries, env))
             /\ ResolveLibraries(libraries, env) = f[Len(libraries)]
<1> DEFINE N == Len(libraries)
           base == [natives |-> <<>>, classpath |-> <<>>, seen |-> {}]
           acc == Resolved
           step == LibraryStep(libraries, env)
           One(it, z) == IF IsApplicable(libraries[Max(z)], env)
                         THEN AddLibrary(it[z \ {Max(z)}], libraries[Max(z)], env)
                         ELSE it[z \ {Max(z)}]
           Body(it) == [z \in SUBSET DOMAIN libraries |-> IF z = {} THEN base ELSE One(it, z)]
           iter == CHOOSE it : it = Body(it)
<1>1. DOMAIN libraries = 1..N /\ N \in Nat
  OBVIOUS
<1>2. base \in acc /\ step \in [1..N -> [acc -> acc]]
  <2>1. \A n \in 1..N, resolved \in Resolved : AddLibrary(resolved, libraries[n], env) \in Resolved
    <3>1. \A n \in 1..N : libraries[n] \in Library
      BY <1>1
    <3> QED BY <3>1, AddLibraryType
  <2>2. base \in acc
    <3>1. <<>> \in Seq(Name \X Seq(STRING)) /\ <<>> \in Seq(ResolvedJar)
      BY EmptySeq
    <3> QED BY <3>1 DEF Resolved
  <2>3. step \in [1..N -> [acc -> acc]]
    <3> HIDE DEF N
    <3> QED BY <2>1 DEF LibraryStep, N
  <2> QED BY <2>2, <2>3
<1>3. ASSUME NEW z \in SUBSET (1..N), z # {}, NEW it, it[z \ {Max(z)}] \in acc
      PROVE  step[Max(z)][it[z \ {Max(z)}]] = One(it, z)
  <2>1. Max(z) \in 1..N
    BY <1>1, <1>3, MaxIn
  <2> QED BY <1>1, <1>3, <2>1 DEF LibraryStep
<1>4. iter = Body(iter)
  <2>1. PICK it \in [SUBSET (1..N) -> acc] : Folded(it, N, base, step)
    <3> HIDE DEF step, N, base, acc
    <3> QED BY <1>1, <1>2, FoldExists
  <2>2. ASSUME NEW z \in SUBSET (1..N) PROVE it[z] = IF z = {} THEN base ELSE One(it, z)
    <3>1. z # {} => it[z \ {Max(z)}] \in acc
      BY <2>1
    <3> HIDE DEF step, N, base, acc
    <3>2. it[z] = IF z = {} THEN base ELSE step[Max(z)][it[z \ {Max(z)}]]
      BY <2>1 DEF Folded
    <3>3. CASE z = {}
      BY <3>2, <3>3
    <3>4. CASE z # {}
      <4>1. step[Max(z)][it[z \ {Max(z)}]] = One(it, z)
        BY <1>3, <3>1, <3>4
      <4> QED BY <3>2, <3>4, <4>1
    <3> QED BY <3>3, <3>4
  <2>3. it = Body(it)
    <3> HIDE DEF N, base
    <3> QED BY <1>1, <2>1, <2>2
  <2> HIDE DEF Body
  <2> QED BY <2>3
<1>5. ResolveLibraries(libraries, env) = iter[DOMAIN libraries]
  BY DEF ResolveLibraries, FoldLeft, MapThenFoldSet
<1> HIDE DEF iter, step, N, base, acc
<1>6. Stepwise(iter, acc, N, base, step)
  <2>1. iter[{}] = base
    BY <1>4
  <2>2. ASSUME NEW z \in SUBSET (1..N), z # {}, iter[z \ {Max(z)}] \in acc
        PROVE  iter[z] = step[Max(z)][iter[z \ {Max(z)}]]
    <3>1. Body(iter)[z] = One(iter, z)
      BY <1>1, <2>2
    <3>2. step[Max(z)][iter[z \ {Max(z)}]] = One(iter, z)
      BY <1>3, <2>2
    <3> HIDE DEF Body
    <3> QED BY <1>4, <3>1, <3>2
  <2> QED BY <2>1, <2>2 DEF Stepwise
<1>7. \E f \in [0..N -> acc] : Runs(f, N, base, step) /\ iter[1..N] = f[N]
  <2>1. N \in Nat /\ base \in acc /\ step \in [1..N -> [acc -> acc]]
    BY <1>1, <1>2
  <2>2. Stepwise(iter, acc, N, base, step)
    BY <1>6
  <2> HIDE DEF Body
  <2> QED BY <2>1, <2>2, FoldRuns
<1> QED BY <1>1, <1>5, <1>7 DEF N, step, base, acc


\* Of the listed builds, the best seen so far.
SlotsType == [stable : Profile \cup {None}, prerelease : Profile \cup {None}]

SlotsStep(profiles) ==
    [n \in 1..Len(profiles) |-> [slots \in SlotsType |-> Look(slots, profiles[n])]]

\* Looking at a build keeps the slots what they are.
LEMMA LookType ==
    ASSUME NEW slots \in SlotsType, NEW p \in Profile
    PROVE  Look(slots, p) \in SlotsType
BY DEF SlotsType, Look, Better


\* newest goes through the builds, one at a time.
LEMMA SlotsRun ==
    ASSUME NEW profiles \in Seq(Profile)
    PROVE  \E f \in [0..Len(profiles) -> SlotsType] :
             /\ Runs(f, Len(profiles), [stable |-> None, prerelease |-> None], SlotsStep(profiles))
             /\ Slots(profiles) = f[Len(profiles)]
<1> DEFINE N == Len(profiles)
           base == [stable |-> None, prerelease |-> None]
           acc == SlotsType
           step == SlotsStep(profiles)
           One(it, z) == Look(it[z \ {Max(z)}], profiles[Max(z)])
           Body(it) == [z \in SUBSET DOMAIN profiles |-> IF z = {} THEN base ELSE One(it, z)]
           iter == CHOOSE it : it = Body(it)
<1>1. DOMAIN profiles = 1..N /\ N \in Nat
  OBVIOUS
<1>2. base \in acc /\ step \in [1..N -> [acc -> acc]]
  <2>1. \A n \in 1..N, slots \in SlotsType : Look(slots, profiles[n]) \in SlotsType
    <3>1. \A n \in 1..N : profiles[n] \in Profile
      BY <1>1
    <3> QED BY <3>1, LookType
  <2>2. base \in acc
    BY DEF SlotsType
  <2>3. step \in [1..N -> [acc -> acc]]
    <3> HIDE DEF N
    <3> QED BY <2>1 DEF SlotsStep, N
  <2> QED BY <2>2, <2>3
<1>3. ASSUME NEW z \in SUBSET (1..N), z # {}, NEW it, it[z \ {Max(z)}] \in acc
      PROVE  step[Max(z)][it[z \ {Max(z)}]] = One(it, z)
  <2>1. Max(z) \in 1..N
    BY <1>1, <1>3, MaxIn
  <2> QED BY <1>1, <1>3, <2>1 DEF SlotsStep
<1>4. iter = Body(iter)
  <2>1. PICK it \in [SUBSET (1..N) -> acc] : Folded(it, N, base, step)
    <3> HIDE DEF step, N, base, acc
    <3> QED BY <1>1, <1>2, FoldExists
  <2>2. ASSUME NEW z \in SUBSET (1..N) PROVE it[z] = IF z = {} THEN base ELSE One(it, z)
    <3>1. z # {} => it[z \ {Max(z)}] \in acc
      BY <2>1
    <3> HIDE DEF step, N, base, acc
    <3>2. it[z] = IF z = {} THEN base ELSE step[Max(z)][it[z \ {Max(z)}]]
      BY <2>1 DEF Folded
    <3>3. CASE z = {}
      BY <3>2, <3>3
    <3>4. CASE z # {}
      <4>1. step[Max(z)][it[z \ {Max(z)}]] = One(it, z)
        BY <1>3, <3>1, <3>4
      <4> QED BY <3>2, <3>4, <4>1
    <3> QED BY <3>3, <3>4
  <2>3. it = Body(it)
    <3> HIDE DEF N, base
    <3> QED BY <1>1, <2>1, <2>2
  <2> HIDE DEF Body
  <2> QED BY <2>3
<1>5. Slots(profiles) = iter[DOMAIN profiles]
  BY DEF Slots, FoldLeft, MapThenFoldSet
<1> HIDE DEF iter, step, N, base, acc
<1>6. Stepwise(iter, acc, N, base, step)
  <2>1. iter[{}] = base
    BY <1>4
  <2>2. ASSUME NEW z \in SUBSET (1..N), z # {}, iter[z \ {Max(z)}] \in acc
        PROVE  iter[z] = step[Max(z)][iter[z \ {Max(z)}]]
    <3>1. Body(iter)[z] = One(iter, z)
      BY <1>1, <2>2
    <3>2. step[Max(z)][iter[z \ {Max(z)}]] = One(iter, z)
      BY <1>3, <2>2
    <3> HIDE DEF Body
    <3> QED BY <1>4, <3>1, <3>2
  <2> QED BY <2>1, <2>2 DEF Stepwise
<1>7. \E f \in [0..N -> acc] : Runs(f, N, base, step) /\ iter[1..N] = f[N]
  <2>1. N \in Nat /\ base \in acc /\ step \in [1..N -> [acc -> acc]]
    BY <1>1, <1>2
  <2>2. Stepwise(iter, acc, N, base, step)
    BY <1>6
  <2> HIDE DEF Body
  <2> QED BY <2>1, <2>2, FoldRuns
<1> QED BY <1>1, <1>5, <1>7 DEF N, step, base, acc


\* What is retained of a plan, and the names that are taken.
KeptType(artifacts, names) ==
    [kept : Seq(PlannedArtifact),
     seen : SUBSET (names \cup {ArtifactKey(artifacts[n].path) : n \in 1..Len(artifacts)})]

KeptStep(artifacts, names) ==
    [n \in 1..Len(artifacts) |-> [r \in KeptType(artifacts, names) |-> Keep(r, artifacts[n])]]

\* One artifact more leaves the two what they are.
LEMMA KeepType ==
    ASSUME NEW artifacts \in Seq(PlannedArtifact), NEW names,
           NEW r \in KeptType(artifacts, names), NEW n \in 1..Len(artifacts)
    PROVE  Keep(r, artifacts[n]) \in KeptType(artifacts, names)
<1> DEFINE a == artifacts[n]
           all == names \cup {ArtifactKey(artifacts[m].path) : m \in 1..Len(artifacts)}
<1>1. a \in PlannedArtifact /\ ArtifactKey(a.path) \in all
  BY ElementOfSeq
<1>2. r = [kept |-> r.kept, seen |-> r.seen] /\ r.kept \in Seq(PlannedArtifact) /\ r.seen \in SUBSET all
  BY DEF KeptType
<1> HIDE DEF a, all
<1>3. Append(r.kept, a) \in Seq(PlannedArtifact) /\ r.seen \cup {ArtifactKey(a.path)} \in SUBSET all
  BY <1>1, <1>2, AppendProperties
<1>4. /\ [kept |-> Append(r.kept, a), seen |-> r.seen]
           \in [kept : Seq(PlannedArtifact), seen : SUBSET all]
      /\ [kept |-> Append(r.kept, a), seen |-> r.seen \cup {ArtifactKey(a.path)}]
           \in [kept : Seq(PlannedArtifact), seen : SUBSET all]
      /\ r \in [kept : Seq(PlannedArtifact), seen : SUBSET all]
  BY <1>2, <1>3
<1>5. [r EXCEPT !.kept = Append(r.kept, a)] = [kept |-> Append(r.kept, a), seen |-> r.seen]
  <2> DEFINE b == Append(r.kept, a)
  <2> HIDE DEF b
  <2>1. [r EXCEPT !.kept = b] = [kept |-> b, seen |-> r.seen]
    BY <1>4
  <2> QED BY <2>1 DEF b
<1>6. Keep(r, a) \in [kept : Seq(PlannedArtifact), seen : SUBSET all]
  BY <1>4, <1>5 DEF Keep
<1> QED BY <1>6 DEF KeptType, a, all


\* retain goes through the artifacts, one at a time.
LEMMA RetainingRun ==
    ASSUME NEW artifacts \in Seq(PlannedArtifact), NEW names
    PROVE  \E f \in [0..Len(artifacts) -> KeptType(artifacts, names)] :
             /\ Runs(f, Len(artifacts), [kept |-> <<>>, seen |-> names], KeptStep(artifacts, names))
             /\ Retaining(artifacts, names) = f[Len(artifacts)]
<1> DEFINE N == Len(artifacts)
           base == [kept |-> <<>>, seen |-> names]
           acc == KeptType(artifacts, names)
           step == KeptStep(artifacts, names)
           One(it, z) == Keep(it[z \ {Max(z)}], artifacts[Max(z)])
           Body(it) == [z \in SUBSET DOMAIN artifacts |-> IF z = {} THEN base ELSE One(it, z)]
           iter == CHOOSE it : it = Body(it)
<1>1. DOMAIN artifacts = 1..N /\ N \in Nat
  OBVIOUS
<1>2. base \in acc /\ step \in [1..N -> [acc -> acc]]
  <2>1. \A n \in 1..N, r \in acc : Keep(r, artifacts[n]) \in acc
    BY KeepType
  <2>2. base \in acc
    <3>1. <<>> \in Seq(PlannedArtifact)
      BY EmptySeq
    <3> QED BY <3>1 DEF KeptType
  <2>3. step \in [1..N -> [acc -> acc]]
    <3> HIDE DEF N, acc
    <3> QED BY <2>1 DEF KeptStep, N, acc
  <2> QED BY <2>2, <2>3
<1>3. ASSUME NEW z \in SUBSET (1..N), z # {}, NEW it, it[z \ {Max(z)}] \in acc
      PROVE  step[Max(z)][it[z \ {Max(z)}]] = One(it, z)
  <2>1. Max(z) \in 1..N
    BY <1>1, <1>3, MaxIn
  <2> QED BY <1>1, <1>3, <2>1 DEF KeptStep
<1>4. iter = Body(iter)
  <2>1. PICK it \in [SUBSET (1..N) -> acc] : Folded(it, N, base, step)
    <3> HIDE DEF step, N, base, acc
    <3> QED BY <1>1, <1>2, FoldExists
  <2>2. ASSUME NEW z \in SUBSET (1..N) PROVE it[z] = IF z = {} THEN base ELSE One(it, z)
    <3>1. z # {} => it[z \ {Max(z)}] \in acc
      BY <2>1
    <3> HIDE DEF step, N, base, acc
    <3>2. it[z] = IF z = {} THEN base ELSE step[Max(z)][it[z \ {Max(z)}]]
      BY <2>1 DEF Folded
    <3>3. CASE z = {}
      BY <3>2, <3>3
    <3>4. CASE z # {}
      <4>1. step[Max(z)][it[z \ {Max(z)}]] = One(it, z)
        BY <1>3, <3>1, <3>4
      <4> QED BY <3>2, <3>4, <4>1
    <3> QED BY <3>3, <3>4
  <2>3. it = Body(it)
    <3> HIDE DEF N, base
    <3> QED BY <1>1, <2>1, <2>2
  <2> HIDE DEF Body
  <2> QED BY <2>3
<1>5. Retaining(artifacts, names) = iter[DOMAIN artifacts]
  BY DEF Retaining, FoldLeft, MapThenFoldSet
<1> HIDE DEF iter, step, N, base, acc
<1>6. Stepwise(iter, acc, N, base, step)
  <2>1. iter[{}] = base
    BY <1>4
  <2>2. ASSUME NEW z \in SUBSET (1..N), z # {}, iter[z \ {Max(z)}] \in acc
        PROVE  iter[z] = step[Max(z)][iter[z \ {Max(z)}]]
    <3>1. Body(iter)[z] = One(iter, z)
      BY <1>1, <2>2
    <3>2. step[Max(z)][iter[z \ {Max(z)}]] = One(iter, z)
      BY <1>3, <2>2
    <3> HIDE DEF Body
    <3> QED BY <1>4, <3>1, <3>2
  <2> QED BY <2>1, <2>2 DEF Stepwise
<1>7. \E f \in [0..N -> acc] : Runs(f, N, base, step) /\ iter[1..N] = f[N]
  <2>1. N \in Nat /\ base \in acc /\ step \in [1..N -> [acc -> acc]]
    BY <1>1, <1>2
  <2>2. Stepwise(iter, acc, N, base, step)
    BY <1>6
  <2> HIDE DEF Body
  <2> QED BY <2>1, <2>2, FoldRuns
<1> QED BY <1>1, <1>5, <1>7 DEF N, step, base, acc

\* One sequence after another.
LEMMA Joined ==
    ASSUME NEW S, NEW s \in Seq(S), NEW t \in Seq(S)
    PROVE  /\ s \o t \in Seq(S)
           /\ Len(s) \in Nat /\ Len(t) \in Nat /\ Len(s \o t) = Len(s) + Len(t)
           /\ \A i \in 1..Len(s) : i \in 1..Len(s \o t) /\ (s \o t)[i] = s[i]
           /\ \A i \in 1..Len(t) : Len(s) + i \in 1..Len(s \o t) /\ (s \o t)[Len(s) + i] = t[i]
BY ConcatProperties

\* FlattenSeq puts one sequence after another.
FlattenStep(S, seqs) ==
    [n \in 1..Len(seqs) |-> [out \in Seq(S) |-> out \o seqs[n]]]

FlattenBy(f, S, seqs) ==
    /\ f \in [0..Len(seqs) -> Seq(S)]
    /\ f[0] = <<>>
    /\ \A m \in 0..Len(seqs) : m + 1 \in 0..Len(seqs) => f[m + 1] = f[m] \o seqs[m + 1]
    /\ FlattenSeq(seqs) = f[Len(seqs)]

\* FlattenSeq goes through the sequences.
LEMMA FlattenSteps ==
    ASSUME NEW S, NEW seqs \in Seq(Seq(S))
    PROVE  \E f : FlattenBy(f, S, seqs)
<1> DEFINE N == Len(seqs)
           acc == Seq(S)
           base == <<>>
           step == FlattenStep(S, seqs)
           Body(it) == [i \in 1..Len(seqs) |-> IF i = 1 THEN seqs[i] ELSE it[i - 1] \o seqs[i]]
           flatten == CHOOSE it : it = Body(it)
<1>1. N \in Nat /\ \A n \in 1..N : seqs[n] \in Seq(S)
  OBVIOUS
<1>2. base \in acc /\ step \in [1..N -> [acc -> acc]]
  <2>1. \A n \in 1..N, out \in Seq(S) : out \o seqs[n] \in Seq(S)
    BY <1>1, ConcatProperties
  <2> QED BY <2>1, EmptySeq DEF FlattenStep
<1>3. PICK f \in [0..N -> acc] : Runs(f, N, base, step)
  <2>1. PICK it \in [SUBSET (1..N) -> acc] : Folded(it, N, base, step)
    <3> HIDE DEF step, N, base, acc
    <3> QED BY <1>1, <1>2, FoldExists
  <2>2. Stepwise(it, acc, N, base, step)
    <3>1. {} \in SUBSET (1..N)
      OBVIOUS
    <3> HIDE DEF step, N, base, acc
    <3>2. it[{}] = base
      BY <2>1, <3>1 DEF Folded
    <3>3. \A z \in SUBSET (1..N) : z # {} => it[z] = step[Max(z)][it[z \ {Max(z)}]]
      BY <2>1 DEF Folded
    <3> QED BY <3>2, <3>3 DEF Stepwise
  <2> HIDE DEF step, N, base, acc
  <2> QED BY <1>1, <1>2, <2>2, FoldRuns
<1>4. /\ f[0] = <<>>
      /\ \A m \in 0..N : m + 1 \in 0..N => f[m + 1] = f[m] \o seqs[m + 1]
  <2>1. f[0] = base
    BY <1>3 DEF Runs
  <2>2. ASSUME NEW m \in 0..N, m + 1 \in 0..N PROVE f[m + 1] = f[m] \o seqs[m + 1]
    <3>1. m + 1 \in 1..N /\ (m + 1) - 1 = m /\ f[m] \in Seq(S)
      <4>1. m + 1 \in 1..N /\ (m + 1) - 1 = m
        BY <1>1, <2>2
      <4>2. f[m] \in acc
        <5> HIDE DEF acc, N
        <5> QED BY <1>3
      <4> QED BY <4>1, <4>2
    <3>2. f[m + 1] = step[m + 1][f[m]]
      <4> HIDE DEF step, base, acc
      <4> QED BY <1>3, <3>1 DEF Runs
    <3> QED BY <3>1, <3>2 DEF FlattenStep
  <2> QED BY <2>1, <2>2
<1>5. CASE N = 0
  <2>1. seqs = <<>>
    BY <1>5, EmptySeq
  <2>2. FlattenSeq(seqs) = seqs
    BY <1>5 DEF FlattenSeq
  <2>3. FlattenBy(f, S, seqs)
    BY <1>3, <1>4, <1>5, <2>1, <2>2 DEF FlattenBy
  <2> QED BY <2>3
<1>6. CASE N # 0
  <2>1. N \in 1..N
    BY <1>1, <1>6
  <2> DEFINE it == [i \in 1..N |-> f[i]]
  <2>2. ASSUME NEW i \in 1..N PROVE f[i] = IF i = 1 THEN seqs[i] ELSE f[i - 1] \o seqs[i]
    <3>1. i - 1 \in 0..N /\ (i - 1) + 1 = i /\ i \in 0..N
      BY <1>1, <2>2
    <3>2. f[i] = f[i - 1] \o seqs[i]
      BY <1>4, <3>1
    <3>3. CASE i = 1
      <4>1. f[i - 1] = <<>>
        BY <1>4, <3>3
      <4>2. <<>> \o seqs[i] = seqs[i]
        BY <1>1, ConcatEmptySeq
      <4> QED BY <3>2, <3>3, <4>1, <4>2
    <3> QED BY <3>2, <3>3
  <2>3. it = Body(it)
    <3>1. \A i \in 1..N : i # 1 => i - 1 \in 1..N
      BY <1>1
    <3>2. ASSUME NEW i \in 1..N PROVE it[i] = IF i = 1 THEN seqs[i] ELSE it[i - 1] \o seqs[i]
      BY <2>2, <3>1
    <3> QED BY <3>2
  <2>4. flatten = Body(flatten)
    <3> HIDE DEF Body
    <3> QED BY <2>3
  <2>5. FlattenSeq(seqs) = flatten[N]
    BY <1>6 DEF FlattenSeq
  <2> HIDE DEF flatten
  <2>6. ASSUME NEW i \in 1..N PROVE flatten[i] = IF i = 1 THEN seqs[i] ELSE flatten[i - 1] \o seqs[i]
    <3>1. Body(flatten)[i] = IF i = 1 THEN seqs[i] ELSE flatten[i - 1] \o seqs[i]
      OBVIOUS
    <3> HIDE DEF Body
    <3> QED BY <2>4, <3>1
  <2> DEFINE T == {m \in 0..N : m = 0 \/ flatten[m] = f[m]}
  <2>7. 0 \in T
    BY <1>1
  <2>8. ASSUME NEW m \in 0..N, m + 1 \in 0..N, m \in T PROVE m + 1 \in T
    <3>1. m + 1 \in 1..N /\ (m + 1) - 1 = m /\ (m + 1 = 1 <=> m = 0)
      BY <1>1, <2>8
    <3>2. f[m + 1] = IF m + 1 = 1 THEN seqs[m + 1] ELSE f[(m + 1) - 1] \o seqs[m + 1]
      BY <2>2, <3>1
    <3>3. flatten[m + 1] = IF m + 1 = 1 THEN seqs[m + 1] ELSE flatten[(m + 1) - 1] \o seqs[m + 1]
      BY <2>6, <3>1
    <3>4. flatten[m + 1] = f[m + 1]
      BY <2>8, <3>1, <3>2, <3>3
    <3> QED BY <2>8, <3>4
  <2>9. N \in T
    <3>1. \A m \in 0..N : m + 1 \in 0..N /\ m \in T => m + 1 \in T
      BY <2>8
    <3> HIDE DEF T
    <3>2. \A m \in 0..N : m \in T
      <4> HIDE DEF N
      <4> QED BY <1>1, <2>7, <3>1, UpTo
    <3> QED BY <2>1, <3>2
  <2>10. FlattenSeq(seqs) = f[N]
    BY <1>6, <2>5, <2>9
  <2>11. FlattenBy(f, S, seqs)
    BY <1>3, <1>4, <2>10 DEF FlattenBy
  <2> QED BY <2>11
<1> QED BY <1>5, <1>6

\* What comes of sequences over a set is one.
LEMMA FlattenType ==
    ASSUME NEW S, NEW seqs \in Seq(Seq(S))
    PROVE  FlattenSeq(seqs) \in Seq(S)
<1>1. PICK f : FlattenBy(f, S, seqs)
  BY FlattenSteps
<1>2. Len(seqs) \in 0..Len(seqs)
  <2>1. Len(seqs) \in Nat
    OBVIOUS
  <2> QED BY <2>1
<1> QED BY <1>1, <1>2 DEF FlattenBy

\* Every element is kept.
LEMMA FlattenHas ==
    ASSUME NEW S, NEW seqs \in Seq(Seq(S)), NEW n \in 1..Len(seqs), NEW k \in 1..Len(seqs[n])
    PROVE  \E i \in 1..Len(FlattenSeq(seqs)) : FlattenSeq(seqs)[i] = seqs[n][k]
<1> DEFINE N == Len(seqs)
           x == seqs[n][k]
<1>1. PICK f : FlattenBy(f, S, seqs)
  BY FlattenSteps
<1>2. N \in Nat /\ n \in 1..N /\ seqs[n] \in Seq(S) /\ \A m \in 1..N : seqs[m] \in Seq(S)
  OBVIOUS
<1> DEFINE Has(s) == \E i \in 1..Len(s) : s[i] = x
           T == {m \in 0..N : m >= n => Has(f[m])}
<1>3. 0 \in T
  BY <1>2
<1>4. ASSUME NEW m \in 0..N, m + 1 \in 0..N, m \in T PROVE m + 1 \in T
  <2>1. m \in Nat /\ m + 1 \in 1..N /\ f[m] \in Seq(S) /\ f[m + 1] = f[m] \o seqs[m + 1]
    <3>1. m \in Nat /\ m + 1 \in 1..N
      BY <1>2, <1>4
    <3>2. f[m] \in Seq(S) /\ f[m + 1] = f[m] \o seqs[m + 1]
      BY <1>1, <1>2, <1>4 DEF FlattenBy
    <3> QED BY <3>1, <3>2
  <2>2. seqs[m + 1] \in Seq(S)
    BY <1>2, <2>1
  <2>3. /\ \A i \in 1..Len(f[m]) : i \in 1..Len(f[m + 1]) /\ f[m + 1][i] = f[m][i]
        /\ \A i \in 1..Len(seqs[m + 1]) :
             Len(f[m]) + i \in 1..Len(f[m + 1]) /\ f[m + 1][Len(f[m]) + i] = seqs[m + 1][i]
    <3> DEFINE a == f[m]
               b == seqs[m + 1]
    <3>1. a \in Seq(S) /\ b \in Seq(S) /\ f[m + 1] = a \o b
      BY <2>1, <2>2
    <3> HIDE DEF a, b, T, N, Has, x
    <3>2. /\ \A i \in 1..Len(a) : i \in 1..Len(a \o b) /\ (a \o b)[i] = a[i]
          /\ \A i \in 1..Len(b) : Len(a) + i \in 1..Len(a \o b) /\ (a \o b)[Len(a) + i] = b[i]
      <4>1. ASSUME NEW u \in Seq(S), NEW v \in Seq(S), NEW i \in 1..Len(u)
            PROVE  i \in 1..Len(u \o v) /\ (u \o v)[i] = u[i]
        BY Joined
      <4>2. ASSUME NEW u \in Seq(S), NEW v \in Seq(S), NEW i \in 1..Len(v)
            PROVE  Len(u) + i \in 1..Len(u \o v) /\ (u \o v)[Len(u) + i] = v[i]
        BY Joined
      <4> QED BY <3>1, <4>1, <4>2
    <3>3. /\ \A i \in 1..Len(a) : i \in 1..Len(f[m + 1]) /\ f[m + 1][i] = a[i]
          /\ \A i \in 1..Len(b) : Len(a) + i \in 1..Len(f[m + 1]) /\ f[m + 1][Len(a) + i] = b[i]
      BY <3>1, <3>2
    <3> QED BY <3>3 DEF a, b
  <2>4. CASE m + 1 = n
    <3>1. f[m + 1][Len(f[m]) + k] = x /\ Len(f[m]) + k \in 1..Len(f[m + 1])
      BY <2>3, <2>4
    <3> QED BY <1>4, <3>1
  <2>5. CASE m >= n
    <3>1. PICK i \in 1..Len(f[m]) : f[m][i] = x
      BY <1>4, <2>5
    <3>2. f[m + 1][i] = x /\ i \in 1..Len(f[m + 1])
      BY <2>3, <3>1
    <3> QED BY <1>4, <3>2
  <2>6. CASE ~(m + 1 >= n)
    BY <1>4, <2>6
  <2>7. m + 1 = n \/ m >= n \/ ~(m + 1 >= n)
    BY <1>2, <2>1
  <2> HIDE DEF T
  <2> QED BY <2>4, <2>5, <2>6, <2>7
<1>5. N \in T
  <2>1. \A m \in 0..N : m + 1 \in 0..N /\ m \in T => m + 1 \in T
    BY <1>4
  <2> HIDE DEF T
  <2>2. \A m \in 0..N : m \in T
    <3> HIDE DEF N
    <3> QED BY <1>2, <1>3, <2>1, UpTo
  <2> QED BY <1>2, <2>2
<1>6. Has(f[N])
  BY <1>2, <1>5
<1> QED BY <1>1, <1>6 DEF FlattenBy

\* Sequences of one element each give these.
LEMMA FlattenOnes ==
    ASSUME NEW S, NEW s \in Seq(S), NEW seqs, seqs = [n \in 1..Len(s) |-> <<s[n]>>]
    PROVE  FlattenSeq(seqs) = s
<1> DEFINE N == Len(s)
<1>1. /\ N \in Nat /\ seqs \in Seq(Seq(S)) /\ Len(seqs) = N
      /\ \A n \in 1..N : seqs[n] = <<s[n]>> /\ s[n] \in S
  <2>1. N \in Nat /\ \A n \in 1..N : s[n] \in S /\ <<s[n]>> \in Seq(S)
    OBVIOUS
  <2>2. seqs \in [1..N -> Seq(S)]
    BY <2>1
  <2> QED BY <2>1, <2>2
<1>2. PICK f : FlattenBy(f, S, seqs)
  BY <1>1, FlattenSteps
<1> DEFINE T == {m \in 0..N : Len(f[m]) = m /\ \A k \in 1..m : f[m][k] = s[k]}
<1>3. 0 \in T
  BY <1>1, <1>2 DEF FlattenBy
<1>4. ASSUME NEW m \in 0..N, m + 1 \in 0..N, m \in T PROVE m + 1 \in T
  <2>1. m \in Nat /\ m + 1 \in 1..N /\ f[m] \in Seq(S) /\ f[m + 1] = f[m] \o seqs[m + 1]
    <3>1. m \in Nat /\ m + 1 \in 1..N
      BY <1>1, <1>4
    <3>2. f[m] \in Seq(S) /\ f[m + 1] = f[m] \o seqs[m + 1]
      BY <1>1, <1>2, <1>4 DEF FlattenBy
    <3> QED BY <3>1, <3>2
  <2>2. seqs[m + 1] = <<s[m + 1]>> /\ s[m + 1] \in S
    BY <1>1, <2>1
  <2>3. Len(f[m]) = m /\ \A k \in 1..m : f[m][k] = s[k]
    BY <1>4
  <2> HIDE DEF T, N
  <2>4. f[m + 1] = f[m] \o <<s[m + 1]>>
    BY <2>1, <2>2
  <2>5. /\ Len(f[m + 1]) = m + 1 /\ f[m + 1][m + 1] = s[m + 1]
        /\ \A k \in 1..m : f[m + 1][k] = f[m][k]
    <3>1. f[m] \in Seq(S) /\ <<s[m + 1]>> \in Seq(S) /\ Len(<<s[m + 1]>>) = 1 /\ <<s[m + 1]>>[1] = s[m + 1]
      BY <2>1, <2>2
    <3>2. Len(f[m + 1]) = m + 1
      BY <2>3, <2>4, <3>1, Joined
    <3>3. \A k \in 1..m : f[m + 1][k] = f[m][k]
      BY <2>3, <2>4, <3>1, Joined
    <3>4. f[m + 1][m + 1] = s[m + 1]
      <4>1. 1 \in 1..1
        OBVIOUS
      <4>2. (f[m] \o <<s[m + 1]>>)[Len(f[m]) + 1] = <<s[m + 1]>>[1]
        BY <3>1, <4>1, Joined
      <4> QED BY <2>3, <2>4, <3>1, <4>2
    <3> QED BY <3>2, <3>3, <3>4
  <2>6. \A k \in 1..m + 1 : f[m + 1][k] = s[k]
    <3>1. \A k \in 1..m + 1 : k \in 1..m \/ k = m + 1
      BY <2>1
    <3> QED BY <2>3, <2>5, <3>1
  <2> QED BY <1>4, <2>5, <2>6 DEF T
<1>5. N \in T
  <2>1. \A m \in 0..N : m + 1 \in 0..N /\ m \in T => m + 1 \in T
    BY <1>4
  <2> HIDE DEF T
  <2>2. \A m \in 0..N : m \in T
    <3> HIDE DEF N
    <3> QED BY <1>1, <1>3, <2>1, UpTo
  <2> QED BY <1>1, <2>2
<1>6. FlattenSeq(seqs) = f[N] /\ Len(f[N]) = N /\ \A k \in 1..N : f[N][k] = s[k]
  BY <1>1, <1>2, <1>5 DEF FlattenBy
<1>7. FlattenSeq(seqs) \in Seq(S)
  BY <1>1, FlattenType
<1> HIDE DEF N
<1> QED BY <1>6, <1>7, SeqEqual DEF N

------------------------------------------------------------------------------
(* The types of what is planned *)

\* What resolve_libraries makes of a version.
LEMMA ResolveLibrariesType ==
    ASSUME NEW libraries \in Seq(Library), NEW env
    PROVE  ResolveLibraries(libraries, env) \in Resolved
<1>1. \E f \in [0..Len(libraries) -> Resolved] :
        ResolveLibraries(libraries, env) = f[Len(libraries)]
  BY LibrariesRun
<1>2. Len(libraries) \in 0..Len(libraries)
  <2>1. Len(libraries) \in Nat
    OBVIOUS
  <2> QED BY <2>1
<1> QED BY <1>1, <1>2

\* A sequence made from another one.
LEMMA Mapped ==
    ASSUME NEW S, NEW T, NEW s \in Seq(S), NEW t, t = [n \in DOMAIN s |-> t[n]],
           \A n \in 1..Len(s) : t[n] \in T
    PROVE  t \in Seq(T) /\ Len(t) = Len(s) /\ DOMAIN t = 1..Len(s)
<1>1. DOMAIN s = 1..Len(s) /\ Len(s) \in Nat
  OBVIOUS
<1>2. t \in [1..Len(s) -> T]
  BY <1>1
<1> QED BY <1>1, <1>2

\* The parts of a plan.
Planned(v, env) ==
    LET libraries == ResolveLibraries(v.libraries, env)
        jars == libraries.classpath
        archives == libraries.natives
    IN  [jars     |-> [n \in DOMAIN jars |-> Artifact(jars[n].path, "library", jars[n].sha1)],
         archives |-> [n \in DOMAIN archives |-> Artifact(archives[n], "native", "genuine")]]

Client == Artifact("client.jar", "client", "genuine")

\* Each part of a plan is made of artifacts.
LEMMA PlannedType ==
    ASSUME NEW v \in Version, NEW env
    PROVE  /\ Planned(v, env).jars \in Seq(PlannedArtifact)
           /\ Planned(v, env).archives \in Seq(PlannedArtifact)
           /\ Client \in PlannedArtifact
           /\ If(v.logging, Artifact("logging", "logging", "genuine")) \in Seq(PlannedArtifact)
           /\ If(v.assetIndex, Artifact("indexes", "index", "genuine")) \in Seq(PlannedArtifact)
<1> DEFINE libraries == ResolveLibraries(v.libraries, env)
           jars == libraries.classpath
           archives == libraries.natives
           planned == [n \in DOMAIN jars |-> Artifact(jars[n].path, "library", jars[n].sha1)]
           natives == [n \in DOMAIN archives |-> Artifact(archives[n], "native", "genuine")]
<1>1. v.libraries \in Seq(Library)
  BY PlanningAssumption
<1>2. jars \in Seq(ResolvedJar) /\ archives \in Seq(Name \X Seq(STRING))
  BY <1>1, ResolveLibrariesType DEF Resolved
<1> HIDE DEF libraries
<1>3. planned \in Seq(PlannedArtifact)
  <2> HIDE DEF jars
  <2>1. \A n \in 1..Len(jars) : jars[n].path \in Path /\ jars[n].sha1 \in Digest
    <3>1. \A n \in 1..Len(jars) : jars[n] \in ResolvedJar
      BY <1>2
    <3> QED BY <3>1 DEF ResolvedJar
  <2>2. \A n \in 1..Len(jars) : planned[n] \in PlannedArtifact
    BY <1>2, <2>1 DEF Artifact, PlannedArtifact, Role
  <2>3. planned = [n \in DOMAIN jars |-> planned[n]]
    OBVIOUS
  <2> HIDE DEF planned
  <2> QED BY <1>2, <2>2, <2>3, Mapped
<1>4. natives \in Seq(PlannedArtifact)
  <2> HIDE DEF archives
  <2>1. \A n \in 1..Len(archives) : archives[n] \in Name \X Seq(STRING)
    BY <1>2
  <2>2. \A n \in 1..Len(archives) : natives[n] \in PlannedArtifact
    BY <1>2, <2>1 DEF Artifact, PlannedArtifact, Role, Digest
  <2>3. natives = [n \in DOMAIN archives |-> natives[n]]
    OBVIOUS
  <2> HIDE DEF natives
  <2> QED BY <1>2, <2>2, <2>3, Mapped
<1>5. Planned(v, env) = [jars |-> planned, archives |-> natives]
  BY DEF Planned, libraries
<1>6. /\ Client \in PlannedArtifact
      /\ Artifact("logging", "logging", "genuine") \in PlannedArtifact
      /\ Artifact("indexes", "index", "genuine") \in PlannedArtifact
  BY DEF Client, Artifact, PlannedArtifact, Role, Digest
<1>7. \A a \in PlannedArtifact : <<>> \in Seq(PlannedArtifact) /\ <<a>> \in Seq(PlannedArtifact)
  OBVIOUS
<1> HIDE DEF planned, natives
<1> QED BY <1>3, <1>4, <1>5, <1>6, <1>7 DEF If

\* The plan of a version, in these parts.
Artifacts(v, env) ==
    <<Client>> \o Planned(v, env).jars \o Planned(v, env).archives
    \o If(v.logging, Artifact("logging", "logging", "genuine"))
    \o If(v.assetIndex, Artifact("indexes", "index", "genuine"))

\* plan_for makes these parts into one.
LEMMA PlanForIs ==
    ASSUME NEW v, NEW env, NEW published
    PROVE  PlanFor(v, env, published) =
             [artifacts |-> Artifacts(v, env), java |-> PlanJava(v, env, published),
              arguments |-> Arguments(v, env), mainClass |-> v.mainClass, loader |-> None]
BY DEF PlanFor, Artifacts, Planned, Client

\* Together they are artifacts.
LEMMA ArtifactsType ==
    ASSUME NEW v \in Version, NEW env
    PROVE  Artifacts(v, env) \in Seq(PlannedArtifact)
<1> DEFINE a == Planned(v, env).jars
           b == Planned(v, env).archives
           c == If(v.logging, Artifact("logging", "logging", "genuine"))
           d == If(v.assetIndex, Artifact("indexes", "index", "genuine"))
<1>1. /\ <<Client>> \in Seq(PlannedArtifact) /\ a \in Seq(PlannedArtifact)
      /\ b \in Seq(PlannedArtifact) /\ c \in Seq(PlannedArtifact) /\ d \in Seq(PlannedArtifact)
  <2>1. Client \in PlannedArtifact /\ a \in Seq(PlannedArtifact)
        /\ b \in Seq(PlannedArtifact) /\ c \in Seq(PlannedArtifact) /\ d \in Seq(PlannedArtifact)
    BY PlannedType
  <2> HIDE DEF a, b, c, d
  <2> QED BY <2>1
<1>2. Artifacts(v, env) = <<Client>> \o a \o b \o c \o d
  BY DEF Artifacts
<1> HIDE DEF a, b, c, d
<1> QED BY <1>1, <1>2

\* The arguments of a version are sequences of words.
LEMMA ArgumentsOf ==
    ASSUME NEW v \in Version, NEW env
    PROVE  Arguments(v, env) \in [game : Seq(Seq(Piece)), jvm : Seq(Seq(Piece))]
<1>1. CASE v.arguments = None
  <2>1. v.minecraftArguments \in Seq(Seq(Piece))
    BY <1>1, PlanningAssumption
  <2>2. LegacyJvm \in Seq(Seq(Piece))
    BY PlanningAssumption
  <2> QED BY <1>1, <2>1, <2>2 DEF Arguments
<1>2. CASE v.arguments # None
  <2>1. v.arguments.game \in Seq(Argument) /\ v.arguments.jvm \in Seq(Argument)
    BY <1>2, PlanningAssumption
  <2>2. /\ ResolveArguments(v.arguments.game, env) \in Seq(Seq(Piece))
        /\ ResolveArguments(v.arguments.jvm, env) \in Seq(Seq(Piece))
    BY <2>1, ArgumentsType
  <2> QED BY <1>2, <2>2 DEF Arguments
<1> QED BY <1>1, <1>2

\* What plan_for makes is a plan.
LEMMA PlanForType ==
    ASSUME NEW v \in Version, NEW env, NEW published
    PROVE  PlanFor(v, env, published) \in Plan
<1>1. Artifacts(v, env) \in Seq(PlannedArtifact)
  BY ArtifactsType
<1>2. Arguments(v, env) \in [game : Seq(Seq(Piece)), jvm : Seq(Seq(Piece))]
  BY ArgumentsOf
<1>3. PlanJava(v, env, published) \in [component : STRING \cup {None}, major : Nat,
                                       source : {"mojang", "adoptium"}]
  <2>1. v.java # None => v.java.component \in STRING /\ v.java.major \in Nat
    BY PlanningAssumption
  <2> QED BY <2>1 DEF PlanJava
<1>4. v.mainClass \in STRING
  BY PlanningAssumption
<1> QED BY <1>1, <1>2, <1>3, <1>4, PlanForIs DEF Plan

------------------------------------------------------------------------------
(* Builds of a loader *)

\* The least of some positions.
LEMMA MinIn ==
    ASSUME NEW N \in Nat, NEW s \in SUBSET (1..N), s # {}
    PROVE  Min(s) \in s /\ \A n \in s : Min(s) <= n
<1> DEFINE Less == {p \in Nat \X Nat : p[1] < p[2]}
<1>1. IsWellFoundedOn(Less, Nat)
  BY NatLessThanWellFounded DEF OpToRel
<1>2. s \subseteq Nat
  OBVIOUS
<1>3. PICK x \in s : \A y \in s : <<y, x>> \notin Less
  <2> HIDE DEF Less
  <2> QED BY <1>1, <1>2, WFMin
<1>4. ASSUME NEW y \in s PROVE x <= y
  <2>1. x \in Nat /\ y \in Nat
    BY <1>2
  <2>2. y < x => <<y, x>> \in Less
    BY <2>1
  <2> HIDE DEF Less
  <2> QED BY <1>3, <2>1, <2>2
<1> QED BY <1>4 DEF Min

\* What is listed of an entry are libraries.
LEMMA ListedType ==
    ASSUME NEW entry \in Entry
    PROVE  Listed(entry) \in Seq(LoaderLibrary)
<1>1. /\ entry.loader \in LoaderLibrary /\ entry.hashed \in Seq(LoaderLibrary)
      /\ entry.intermediary \in Seq(LoaderLibrary) /\ entry.common \in Seq(LoaderLibrary)
      /\ entry.client \in Seq(LoaderLibrary)
  BY DEF Entry
<1>2. <<entry.loader>> \in Seq(LoaderLibrary)
  BY <1>1
<1> QED BY <1>1, <1>2, ConcatProperties DEF Listed

\* build_profile keeps names and order, and digests if they are usable.
LEMMA BuildProfileType ==
    ASSUME NEW kind, NEW entry \in Entry, entry.mainClass # None
    PROVE  /\ BuildProfile(kind, entry) \in Profile
           /\ Len(BuildProfile(kind, entry).libraries) = Len(Listed(entry))
           /\ \A n \in 1..Len(Listed(entry)) :
                /\ BuildProfile(kind, entry).libraries[n].name = Listed(entry)[n].name
                /\ BuildProfile(kind, entry).libraries[n].sha1 =
                     IF PublishesUsableDigests(kind) THEN Listed(entry)[n].sha1 ELSE None
<1> DEFINE listed == Listed(entry)
           without == [n \in DOMAIN listed |-> [listed[n] EXCEPT !.sha1 = None]]
           libraries == IF PublishesUsableDigests(kind) THEN listed ELSE without
<1>1. listed \in Seq(LoaderLibrary) /\ DOMAIN listed = 1..Len(listed)
  BY ListedType, LenProperties
<1>2. BuildProfile(kind, entry) =
        [version |-> entry.version, mainClass |-> entry.mainClass, minJava |-> entry.minJava,
         libraries |-> libraries]
  BY DEF BuildProfile
<1> HIDE DEF listed
<1>3. \A n \in 1..Len(listed) : listed[n] \in LoaderLibrary
  BY <1>1
<1>4. \A n \in 1..Len(listed) : /\ without[n] \in LoaderLibrary
                                /\ without[n].name = listed[n].name /\ without[n].sha1 = None
  BY <1>1, <1>3 DEF LoaderLibrary, Digest
<1>5. without \in Seq(LoaderLibrary) /\ Len(without) = Len(listed)
  <2>1. without = [n \in DOMAIN listed |-> without[n]]
    OBVIOUS
  <2> HIDE DEF without
  <2> QED BY <1>1, <1>4, <2>1, Mapped
<1> HIDE DEF without
<1>6. libraries \in Seq(LoaderLibrary) /\ Len(libraries) = Len(listed)
  BY <1>1, <1>5
<1>7. \A n \in 1..Len(listed) :
        /\ libraries[n].name = listed[n].name
        /\ libraries[n].sha1 = IF PublishesUsableDigests(kind) THEN listed[n].sha1 ELSE None
  BY <1>4
<1>8. entry.version \in BuildVersion /\ entry.mainClass \in STRING /\ entry.minJava \in Nat
  BY DEF Entry
<1> HIDE DEF libraries
<1> QED BY <1>2, <1>6, <1>7, <1>8 DEF Profile, listed

\* parse_versions makes a build of each entry, or none at all.
LEMMA ParseVersionsType ==
    ASSUME NEW kind, NEW entries \in Seq(Entry)
    PROVE  /\ ParseVersions(kind, entries) \in Seq(Profile)
           /\ ParseVersions(kind, entries) # <<>> =>
                /\ Len(ParseVersions(kind, entries)) = Len(entries)
                /\ \A n \in 1..Len(entries) :
                     /\ entries[n].mainClass # None
                     /\ ParseVersions(kind, entries)[n] = BuildProfile(kind, entries[n])
<1> DEFINE built == [n \in DOMAIN entries |-> BuildProfile(kind, entries[n])]
<1>1. DOMAIN entries = 1..Len(entries) /\ \A n \in 1..Len(entries) : entries[n] \in Entry
  OBVIOUS
<1>2. CASE \E n \in DOMAIN entries : entries[n].mainClass = None
  BY <1>2, EmptySeq DEF ParseVersions
<1>3. CASE ~ \E n \in DOMAIN entries : entries[n].mainClass = None
  <2>1. \A n \in 1..Len(entries) : built[n] \in Profile /\ built[n] = BuildProfile(kind, entries[n])
    BY <1>1, <1>3, BuildProfileType
  <2>2. built = [n \in DOMAIN entries |-> built[n]]
    OBVIOUS
  <2>3. ParseVersions(kind, entries) = built
    BY <1>3 DEF ParseVersions
  <2> HIDE DEF built
  <2>4. built \in Seq(Profile) /\ Len(built) = Len(entries)
    <3>1. \A n \in 1..Len(entries) : built[n] \in Profile
      BY <2>1
    <3>2. built \in [1..Len(entries) -> Profile] /\ Len(entries) \in Nat
      BY <1>1, <2>2, <3>1
    <3> QED BY <3>2
  <2> QED BY <1>1, <1>3, <2>1, <2>3, <2>4
<1> QED BY <1>2, <1>3

\* best is the newest of the first m builds that are releases, or that are not.
Best(best, m, profiles, stable) ==
    /\ best = None => \A n \in 1..m :
         profiles[n].version # Unparsable => Released(profiles[n].version) # stable
    /\ best # None =>
         /\ \E n \in 1..m : best = profiles[n]
         /\ best.version # Unparsable /\ Released(best.version) = stable
         /\ \A n \in 1..m :
              profiles[n].version # Unparsable /\ Released(profiles[n].version) = stable =>
                ~Newer(profiles[n].version, best.version)

\* One that is looked at and is of that kind.
LEMMA BetterBest ==
    ASSUME NEW profiles \in Seq(Profile), NEW m \in Nat, m + 1 \in 1..Len(profiles), NEW stable,
           NEW best \in Profile \cup {None}, Best(best, m, profiles, stable),
           profiles[m + 1].version # Unparsable, Released(profiles[m + 1].version) = stable
    PROVE  Best(Better(best, profiles[m + 1]), m + 1, profiles, stable)
<1> DEFINE p == profiles[m + 1]
<1>1. p \in Profile /\ p # None
  BY PlanningAssumption
<1>2. /\ \A n \in 1..m : n \in 1..m + 1 /\ n \in 1..Len(profiles)
      /\ m + 1 \in 1..m + 1 /\ \A n \in 1..m + 1 : n \in 1..m \/ n = m + 1
  OBVIOUS
<1>3. \A n \in 1..m + 1 : profiles[n].version # Unparsable => profiles[n].version \in Nat \X Nat
  <2>1. \A n \in 1..m + 1 : profiles[n] \in Profile
    BY <1>2
  <2> QED BY <2>1 DEF Profile, BuildVersion
<1>4. p.version \in Nat \X Nat /\ ~Newer(p.version, p.version)
  <2>1. p.version \in Nat \X Nat
    BY <1>2, <1>3
  <2> HIDE DEF p
  <2> QED BY <2>1 DEF Newer
<1>5. ASSUME NEW v \in Nat \X Nat, NEW w \in Nat \X Nat, NEW u \in Nat \X Nat,
             ~Newer(u, w), Newer(v, w)
      PROVE  ~Newer(u, v)
  BY <1>5 DEF Newer
<1>6. CASE best = None
  <2>1. \A n \in 1..m : profiles[n].version # Unparsable => Released(profiles[n].version) # stable
    BY <1>6 DEF Best
  <2>2. Better(best, p) = p
    BY <1>6 DEF Better
  <2>3. Best(p, m + 1, profiles, stable)
    <3> HIDE DEF Released, Newer
    <3>1. \A n \in 1..m + 1 :
              profiles[n].version # Unparsable /\ Released(profiles[n].version) = stable =>
                ~Newer(profiles[n].version, p.version)
      BY <1>2, <1>4, <2>1
    <3> QED BY <1>1, <1>2, <3>1 DEF Best
  <2> QED BY <2>2, <2>3
<1>7. CASE best # None /\ Newer(p.version, best.version)
  <2>1. Better(best, p) = p
    BY <1>7 DEF Better
  <2>2. /\ best.version \in Nat \X Nat
        /\ \A n \in 1..m :
              profiles[n].version # Unparsable /\ Released(profiles[n].version) = stable =>
                ~Newer(profiles[n].version, best.version)
    <3>1. best \in Profile /\ best.version # Unparsable
      BY <1>7 DEF Best
    <3> QED BY <1>7, <3>1 DEF Best, Profile, BuildVersion
  <2>3. \A n \in 1..m + 1 :
              profiles[n].version # Unparsable /\ Released(profiles[n].version) = stable =>
                ~Newer(profiles[n].version, p.version)
    <3> SUFFICES ASSUME NEW n \in 1..m + 1, profiles[n].version # Unparsable,
                        Released(profiles[n].version) = stable
                 PROVE  ~Newer(profiles[n].version, p.version)
      OBVIOUS
    <3>1. CASE n = m + 1
      BY <1>4, <3>1
    <3>2. CASE n \in 1..m
      <4>1. ~Newer(profiles[n].version, best.version) /\ profiles[n].version \in Nat \X Nat
        BY <1>3, <2>2, <3>2
      <4> HIDE DEF p
      <4> QED BY <1>4, <1>5, <1>7, <2>2, <4>1
    <3> QED BY <1>2, <3>1, <3>2
  <2>4. Best(p, m + 1, profiles, stable)
    BY <1>1, <1>2, <2>3 DEF Best
  <2> QED BY <2>1, <2>4
<1>8. CASE best # None /\ ~Newer(p.version, best.version)
  <2>1. Better(best, p) = best
    BY <1>8 DEF Better
  <2>2. /\ \E n \in 1..m : best = profiles[n]
        /\ best.version # Unparsable /\ Released(best.version) = stable
        /\ \A n \in 1..m :
              profiles[n].version # Unparsable /\ Released(profiles[n].version) = stable =>
                ~Newer(profiles[n].version, best.version)
    BY <1>8 DEF Best
  <2>3. Best(best, m + 1, profiles, stable)
    <3>1. \E n \in 1..m + 1 : best = profiles[n]
      BY <1>2, <2>2
    <3>2. \A n \in 1..m + 1 :
              profiles[n].version # Unparsable /\ Released(profiles[n].version) = stable =>
                ~Newer(profiles[n].version, best.version)
      BY <1>2, <1>8, <2>2
    <3> QED BY <1>8, <2>2, <3>1, <3>2 DEF Best
  <2> QED BY <2>1, <2>3
<1> QED BY <1>6, <1>7, <1>8

\* One that is not.
LEMMA OtherBest ==
    ASSUME NEW profiles, NEW m \in Nat, NEW stable, NEW best, Best(best, m, profiles, stable),
           profiles[m + 1].version # Unparsable => Released(profiles[m + 1].version) # stable
    PROVE  Best(best, m + 1, profiles, stable)
<1>1. (\A n \in 1..m : n \in 1..m + 1) /\ \A n \in 1..m + 1 : n \in 1..m \/ n = m + 1
  OBVIOUS
<1>2. CASE best = None
  BY <1>1, <1>2 DEF Best
<1>3. CASE best # None
  <2>1. \E n \in 1..m + 1 : best = profiles[n]
    BY <1>1, <1>3 DEF Best
  <2>2. \A n \in 1..m + 1 :
              profiles[n].version # Unparsable /\ Released(profiles[n].version) = stable =>
                ~Newer(profiles[n].version, best.version)
    BY <1>1, <1>3 DEF Best
  <2> QED BY <1>3, <2>1, <2>2 DEF Best
<1> QED BY <1>2, <1>3

\* The slots hold the newest release and the newest prerelease.
LEMMA SlotsBest ==
    ASSUME NEW profiles \in Seq(Profile)
    PROVE  /\ Slots(profiles) \in SlotsType
           /\ Best(Slots(profiles).stable, Len(profiles), profiles, TRUE)
           /\ Best(Slots(profiles).prerelease, Len(profiles), profiles, FALSE)
<1> DEFINE N == Len(profiles)
           base == [stable |-> None, prerelease |-> None]
<1>1. N \in Nat /\ N \in 0..N
  OBVIOUS
<1>2. PICK f \in [0..N -> SlotsType] :
        Runs(f, N, base, SlotsStep(profiles)) /\ Slots(profiles) = f[N]
  BY SlotsRun
<1> DEFINE Good(m) == /\ Best(f[m].stable, m, profiles, TRUE)
                      /\ Best(f[m].prerelease, m, profiles, FALSE)
           T == {m \in 0..N : Good(m)}
<1>3. 0 \in T
  <2>1. f[0].stable = None /\ f[0].prerelease = None
    BY <1>2 DEF Runs
  <2> QED BY <1>1, <2>1 DEF Best
<1>4. ASSUME NEW m \in 0..N, m + 1 \in 0..N, m \in T PROVE m + 1 \in T
  <2> DEFINE p == profiles[m + 1]
  <2>1. m \in Nat /\ m + 1 \in 1..N /\ (m + 1) - 1 = m
    BY <1>1, <1>4
  <2>2. f[m] \in SlotsType /\ p \in Profile
    BY <1>2, <2>1
  <2>3. f[m + 1] = Look(f[m], p)
    <3>1. f[m + 1] = SlotsStep(profiles)[m + 1][f[m]]
      BY <1>2, <2>1 DEF Runs
    <3> QED BY <2>1, <2>2, <3>1 DEF SlotsStep
  <2>4. Good(m)
    BY <1>4
  <2>5. f[m].stable \in Profile \cup {None} /\ f[m].prerelease \in Profile \cup {None}
    BY <2>2 DEF SlotsType
  <2>6. CASE p.version = Unparsable
    <3>1. f[m + 1] = f[m]
      BY <2>3, <2>6 DEF Look
    <3>2. Good(m + 1)
      <4> HIDE DEF N
      <4> QED BY <2>1, <2>4, <2>6, <3>1, OtherBest
    <3> QED BY <1>4, <3>2
  <2>7. CASE p.version # Unparsable /\ Released(p.version)
    <3>1. f[m + 1].stable = Better(f[m].stable, p) /\ f[m + 1].prerelease = f[m].prerelease
      BY <2>2, <2>3, <2>7 DEF Look, SlotsType
    <3>2. Released(p.version) = TRUE
      BY <2>7 DEF Released
    <3>3. Best(Better(f[m].stable, p), m + 1, profiles, TRUE)
      BY <2>1, <2>4, <2>5, <2>7, <3>2, BetterBest
    <3>4. Best(f[m].prerelease, m + 1, profiles, FALSE)
      BY <2>1, <2>4, <3>2, OtherBest
    <3> QED BY <1>4, <3>1, <3>3, <3>4
  <2>8. CASE p.version # Unparsable /\ ~Released(p.version)
    <3>1. f[m + 1].prerelease = Better(f[m].prerelease, p) /\ f[m + 1].stable = f[m].stable
      BY <2>2, <2>3, <2>8 DEF Look, SlotsType
    <3>2. Released(p.version) = FALSE
      BY <2>8 DEF Released
    <3>3. Best(Better(f[m].prerelease, p), m + 1, profiles, FALSE)
      BY <2>1, <2>4, <2>5, <2>8, <3>2, BetterBest
    <3>4. Best(f[m].stable, m + 1, profiles, TRUE)
      BY <2>1, <2>4, <3>2, OtherBest
    <3> QED BY <1>4, <3>1, <3>3, <3>4
  <2> QED BY <2>6, <2>7, <2>8
<1>5. N \in T
  <2>1. \A m \in 0..N : m + 1 \in 0..N /\ m \in T => m + 1 \in T
    BY <1>4
  <2> HIDE DEF T
  <2>2. \A m \in 0..N : m \in T
    <3> HIDE DEF N
    <3> QED BY <1>1, <1>3, <2>1, UpTo
  <2> QED BY <1>1, <2>2
<1>6. f[N] \in SlotsType
  BY <1>1, <1>2
<1> QED BY <1>2, <1>5, <1>6

\* The build that is wanted, or the newest.
LEMMA NewestIs ==
    ASSUME NEW profiles \in Seq(Profile), profiles # <<>>
    PROVE  /\ \E n \in 1..Len(profiles) : Newest(profiles) = profiles[n]
           /\ Newest(profiles).version # Unparsable =>
                \A n \in 1..Len(profiles) : profiles[n].version # Unparsable =>
                  /\ Released(profiles[n].version) => Released(Newest(profiles).version)
                  /\ Released(profiles[n].version) = Released(Newest(profiles).version) =>
                       ~Newer(profiles[n].version, Newest(profiles).version)
<1> DEFINE slots == Slots(profiles)
           N == Len(profiles)
           newest == Newest(profiles)
<1>1. /\ Best(slots.stable, N, profiles, TRUE)
      /\ Best(slots.prerelease, N, profiles, FALSE)
  BY SlotsBest
<1>2. 1 \in 1..N /\ \A v : Released(v) \in BOOLEAN
  BY EmptySeq DEF Released
<1> HIDE DEF slots
<1>3. CASE slots.stable # None
  <2>1. newest = slots.stable
    BY <1>3 DEF Newest, slots
  <2> HIDE DEF newest
  <2>2. /\ \E n \in 1..N : newest = profiles[n]
        /\ Released(newest.version) = TRUE
        /\ \A n \in 1..N : profiles[n].version # Unparsable /\ Released(profiles[n].version) = TRUE
                             => ~Newer(profiles[n].version, newest.version)
    BY <1>1, <1>3, <2>1 DEF Best
  <2>3. \A n \in 1..N : profiles[n].version # Unparsable =>
          /\ Released(profiles[n].version) => Released(newest.version)
          /\ Released(profiles[n].version) = Released(newest.version) =>
               ~Newer(profiles[n].version, newest.version)
    BY <2>2
  <2> QED BY <2>2, <2>3 DEF newest
<1>4. CASE slots.stable = None /\ slots.prerelease # None
  <2>1. newest = slots.prerelease
    BY <1>4 DEF Newest, slots
  <2> HIDE DEF newest
  <2>2. /\ \E n \in 1..N : newest = profiles[n]
        /\ Released(newest.version) = FALSE
        /\ \A n \in 1..N : profiles[n].version # Unparsable /\ Released(profiles[n].version) = FALSE
                             => ~Newer(profiles[n].version, newest.version)
    BY <1>1, <1>4, <2>1 DEF Best
  <2>3. \A n \in 1..N : profiles[n].version # Unparsable => Released(profiles[n].version) # TRUE
    BY <1>1, <1>4 DEF Best
  <2>4. \A n \in 1..N : profiles[n].version # Unparsable =>
          /\ Released(profiles[n].version) => Released(newest.version)
          /\ Released(profiles[n].version) = Released(newest.version) =>
               ~Newer(profiles[n].version, newest.version)
    <3>1. \A n \in 1..N : profiles[n].version # Unparsable => ~Released(profiles[n].version)
      BY <1>2, <2>3
    <3> QED BY <2>2, <3>1
  <2> QED BY <2>2, <2>4 DEF newest
<1>5. CASE slots.stable = None /\ slots.prerelease = None
  <2>1. newest = profiles[1]
    BY <1>5 DEF Newest, slots
  <2>2. \A n \in 1..N : profiles[n].version # Unparsable =>
          Released(profiles[n].version) # TRUE /\ Released(profiles[n].version) # FALSE
    BY <1>1, <1>5 DEF Best
  <2>3. \A n \in 1..N : profiles[n].version = Unparsable
    <3>1. \A n \in 1..N : Released(profiles[n].version) = TRUE \/ Released(profiles[n].version) = FALSE
      BY <1>2
    <3> QED BY <2>2, <3>1
  <2> HIDE DEF newest
  <2> QED BY <1>2, <2>1, <2>3 DEF newest
<1> QED BY <1>3, <1>4, <1>5

\* What select returns is listed; it is what was wanted, or the newest.
LEMMA Selected ==
    ASSUME NEW profiles \in Seq(Profile), NEW wanted, NEW chosen,
           chosen = SelectBuild(profiles, wanted), chosen # None
    PROVE  /\ chosen \in Profile /\ profiles # <<>>
           /\ \E n \in 1..Len(profiles) : chosen = profiles[n]
           /\ wanted \in {None, chosen.version}
           /\ wanted = None /\ chosen.version # Unparsable =>
                \A n \in 1..Len(profiles) : profiles[n].version # Unparsable =>
                  /\ Released(profiles[n].version) => Released(chosen.version)
                  /\ Released(profiles[n].version) = Released(chosen.version) =>
                       ~Newer(profiles[n].version, chosen.version)
<1>1. profiles # <<>>
  BY DEF SelectBuild
<1>2. \A n \in 1..Len(profiles) : profiles[n] \in Profile
  OBVIOUS
<1>3. CASE wanted = None
  <2>1. chosen = Newest(profiles)
    BY <1>1, <1>3 DEF SelectBuild
  <2>2. \E n \in 1..Len(profiles) : chosen = profiles[n]
    BY <1>1, <2>1, NewestIs
  <2>3. chosen.version # Unparsable =>
          \A n \in 1..Len(profiles) : profiles[n].version # Unparsable =>
            /\ Released(profiles[n].version) => Released(chosen.version)
            /\ Released(profiles[n].version) = Released(chosen.version) =>
                 ~Newer(profiles[n].version, chosen.version)
    BY <1>1, <2>1, NewestIs
  <2> QED BY <1>1, <1>2, <1>3, <2>2, <2>3
<1>4. CASE wanted # None
  <2> DEFINE good == {n \in 1..Len(profiles) : profiles[n].version = wanted}
             n == SelectInSeq(profiles, LAMBDA p : p.version = wanted)
  <2>1. chosen = IF n = 0 THEN None ELSE profiles[n]
    BY <1>1, <1>4 DEF SelectBuild
  <2>2. n = IF good # {} THEN Min(good) ELSE 0
    BY DEF SelectInSeq
  <2>3. n # 0
    BY <2>1
  <2>4. n \in good
    <3>1. good \in SUBSET (1..Len(profiles)) /\ Len(profiles) \in Nat
      OBVIOUS
    <3>2. good # {} /\ n = Min(good)
      BY <2>2, <2>3
    <3> HIDE DEF good, n
    <3> QED BY <3>1, <3>2, MinIn
  <2>5. n \in 1..Len(profiles) /\ chosen = profiles[n] /\ chosen.version = wanted
    BY <2>1, <2>3, <2>4
  <2> HIDE DEF n
  <2> QED BY <1>1, <1>2, <1>4, <2>5
<1> QED BY <1>3, <1>4

\* The libraries of a build in order.
LEMMA InOrderType ==
    ASSUME NEW S, NEW libraries \in Seq(S), NEW order \in Seq(LoaderLibrary)
    PROVE  InOrder(libraries, order) \in Seq(S)
<1> DEFINE At(n) == Chosen(libraries, {k \in DOMAIN libraries :
                       SelectInSeq(order, LAMBDA l : l.name = libraries[k].name) = n})
           seqs == [n \in DOMAIN order |-> At(n)]
<1>1. \A n : At(n) \in Seq(S)
  BY ChosenType
<1>2. InOrder(libraries, order) = FlattenSeq(seqs)
  BY DEF InOrder
<1> HIDE DEF At
<1>3. seqs \in Seq(Seq(S))
  <2>1. seqs \in [1..Len(order) -> Seq(S)] /\ Len(order) \in Nat
    BY <1>1
  <2> QED BY <2>1
<1> HIDE DEF seqs
<1> QED BY <1>2, <1>3, FlattenType

\* Each of them has a place in it, if its name is one of the build's.
LEMMA InOrderHas ==
    ASSUME NEW libraries \in Seq(LoaderLibrary), NEW order \in Seq(LoaderLibrary),
           NEW k \in 1..Len(libraries), NEW m \in 1..Len(order), order[m].name = libraries[k].name
    PROVE  \E i \in 1..Len(InOrder(libraries, order)) : InOrder(libraries, order)[i] = libraries[k]
<1> DEFINE Position(j) == SelectInSeq(order, LAMBDA l : l.name = libraries[j].name)
           Those(n) == {j \in DOMAIN libraries : Position(j) = n}
           At(n) == Chosen(libraries, Those(n))
           seqs == [n \in DOMAIN order |-> At(n)]
           n == Position(k)
<1>1. \A j : At(j) \in Seq(LoaderLibrary)
  BY ChosenType
<1>2. InOrder(libraries, order) = FlattenSeq(seqs)
  BY DEF InOrder
<1>3. n \in 1..Len(order)
  <2> DEFINE good == {j \in 1..Len(order) : order[j].name = libraries[k].name}
  <2>1. n = IF good # {} THEN Min(good) ELSE 0
    BY DEF SelectInSeq
  <2>2. good \in SUBSET (1..Len(order)) /\ Len(order) \in Nat /\ good # {}
    OBVIOUS
  <2>3. Min(good) \in good
    <3> HIDE DEF good
    <3> QED BY <2>2, MinIn
  <2> HIDE DEF n
  <2> QED BY <2>1, <2>2, <2>3
<1>4. k \in Those(n)
  OBVIOUS
<1> HIDE DEF Those, n
<1>5. seqs \in Seq(Seq(LoaderLibrary)) /\ Len(seqs) = Len(order) /\ seqs[n] = At(n)
  <2> HIDE DEF At
  <2>1. seqs \in [1..Len(order) -> Seq(LoaderLibrary)] /\ Len(order) \in Nat
    BY <1>1
  <2> QED BY <1>3, <2>1
<1>6. \E i \in 1..Len(At(n)) : At(n)[i] = libraries[k]
  <2>1. PICK e : Places(e, Chosen(libraries, Those(n)), libraries, Len(libraries), Those(n))
    BY ChosenPlaces
  <2> QED BY <1>4, <2>1 DEF Places
<1> HIDE DEF seqs, At
<1>7. PICK i \in 1..Len(seqs[n]) : seqs[n][i] = libraries[k]
  BY <1>5, <1>6
<1>8. \E j \in 1..Len(FlattenSeq(seqs)) : FlattenSeq(seqs)[j] = seqs[n][i]
  BY <1>3, <1>5, <1>7, FlattenHas
<1> QED BY <1>2, <1>7, <1>8

------------------------------------------------------------------------------
(* A build's libraries and those of the version *)

\* Those that stay: not a library, or one of a name that is not taken before.
Staying(artifacts, names) ==
    {n \in 1..Len(artifacts) :
       artifacts[n].role = "library" =>
         /\ ArtifactKey(artifacts[n].path) \notin names
         /\ \A k \in 1..(n - 1) : artifacts[k].role = "library" =>
              ArtifactKey(artifacts[k].path) # ArtifactKey(artifacts[n].path)}

\* retain keeps those that stay.
LEMMA RetainedIs ==
    ASSUME NEW artifacts \in Seq(PlannedArtifact), NEW names
    PROVE  Retained(artifacts, names) = Chosen(artifacts, Staying(artifacts, names))
<1> DEFINE N == Len(artifacts)
           K == KeptType(artifacts, names)
           base == [kept |-> <<>>, seen |-> names]
           Taken(m) == names \cup {ArtifactKey(artifacts[k].path) :
                                     k \in {j \in 1..m : artifacts[j].role = "library"}}
<1>1. N \in Nat /\ N \in 0..N
  OBVIOUS
<1>2. PICK f \in [0..N -> K] :
        Runs(f, N, base, KeptStep(artifacts, names)) /\ Retaining(artifacts, names) = f[N]
  <2>1. \E f \in [0..Len(artifacts) -> KeptType(artifacts, names)] :
          /\ Runs(f, Len(artifacts), [kept |-> <<>>, seen |-> names], KeptStep(artifacts, names))
          /\ Retaining(artifacts, names) = f[Len(artifacts)]
    BY RetainingRun
  <2> QED BY <2>1
<1>3. PICK g : ChosenBy(g, PlannedArtifact, artifacts, Staying(artifacts, names))
  BY ChosenSteps
<1> DEFINE T == {m \in 0..N : f[m].kept = g[m] /\ f[m].seen = Taken(m)}
<1>4. 0 \in T
  <2>1. f[0] = base /\ g[0] = <<>>
    BY <1>2, <1>3 DEF Runs, ChosenBy
  <2>2. f[0].kept = <<>> /\ f[0].seen = names
    BY <2>1
  <2>3. Taken(0) = names
    <3>1. {j \in 1..0 : artifacts[j].role = "library"} = {}
      OBVIOUS
    <3> QED BY <3>1
  <2> HIDE DEF Taken
  <2> QED BY <1>1, <2>1, <2>2, <2>3
<1>5. ASSUME NEW m \in 0..N, m + 1 \in 0..N, m \in T PROVE m + 1 \in T
  <2> DEFINE a == artifacts[m + 1]
  <2>1. m \in Nat /\ m + 1 \in 1..N /\ (m + 1) - 1 = m /\ 1..((m + 1) - 1) = 1..m
    BY <1>1, <1>5
  <2>2. f[m] \in K
    BY <1>2, <1>5
  <2>3. f[m + 1] = Keep(f[m], a)
    <3>1. f[m + 1] = KeptStep(artifacts, names)[m + 1][f[m]]
      BY <1>2, <2>1 DEF Runs
    <3> QED BY <2>1, <2>2, <3>1 DEF KeptStep
  <2>4. f[m].kept = g[m] /\ f[m].seen = Taken(m)
    BY <1>5
  <2>5. g[m + 1] = IF m + 1 \in Staying(artifacts, names) THEN Append(g[m], a) ELSE g[m]
    BY <1>3, <1>5 DEF ChosenBy
  <2>6. f[m] = [kept |-> f[m].kept, seen |-> f[m].seen]
    BY <2>2 DEF KeptType
  <2>7. ArtifactKey(a.path) \notin Taken(m) <=>
          /\ ArtifactKey(a.path) \notin names
          /\ \A k \in 1..m : artifacts[k].role = "library" =>
               ArtifactKey(artifacts[k].path) # ArtifactKey(a.path)
    <3> HIDE DEF a
    <3> QED OBVIOUS
  <2>8. m + 1 \in Staying(artifacts, names) <=>
          (a.role = "library" => ArtifactKey(a.path) \notin Taken(m))
    <3> HIDE DEF Taken
    <3> QED BY <2>1, <2>7 DEF Staying
  <2>9. CASE a.role # "library"
    <3>1. f[m + 1].kept = Append(f[m].kept, a) /\ f[m + 1].seen = f[m].seen
      <4> HIDE DEF a
      <4>1. f[m + 1] = [f[m] EXCEPT !.kept = Append(f[m].kept, a)]
        BY <2>3, <2>9 DEF Keep
      <4> QED BY <2>6, <4>1
    <3>2. Taken(m + 1) = Taken(m)
      <4>1. {j \in 1..m + 1 : artifacts[j].role = "library"} = {j \in 1..m : artifacts[j].role = "library"}
        BY <2>1, <2>9
      <4> QED BY <4>1
    <3> HIDE DEF Taken, a
    <3> QED BY <1>5, <2>4, <2>5, <2>8, <2>9, <3>1, <3>2
  <2>10. CASE a.role = "library"
    <3>1. Taken(m + 1) = Taken(m) \cup {ArtifactKey(a.path)}
      <4>1. {j \in 1..m + 1 : artifacts[j].role = "library"} =
              {j \in 1..m : artifacts[j].role = "library"} \cup {m + 1}
        BY <2>1, <2>10
      <4> QED BY <4>1
    <3> HIDE DEF Taken, a
    <3>2. CASE ArtifactKey(a.path) \in Taken(m)
      <4>1. f[m + 1] = f[m]
        BY <2>3, <2>4, <2>10, <3>2 DEF Keep
      <4> QED BY <1>5, <2>4, <2>5, <2>8, <2>10, <3>1, <3>2, <4>1
    <3>3. CASE ArtifactKey(a.path) \notin Taken(m)
      <4>1. f[m + 1] = [kept |-> Append(f[m].kept, a), seen |-> f[m].seen \cup {ArtifactKey(a.path)}]
        BY <2>3, <2>4, <2>10, <3>3 DEF Keep
      <4>2. f[m + 1].kept = Append(f[m].kept, a) /\ f[m + 1].seen = f[m].seen \cup {ArtifactKey(a.path)}
        BY <4>1
      <4> QED BY <1>5, <2>4, <2>5, <2>8, <2>10, <3>1, <3>3, <4>2
    <3> QED BY <3>2, <3>3
  <2> QED BY <2>9, <2>10
<1>6. N \in T
  <2>1. \A m \in 0..N : m + 1 \in 0..N /\ m \in T => m + 1 \in T
    BY <1>5
  <2> HIDE DEF T
  <2>2. \A m \in 0..N : m \in T
    <3> HIDE DEF N
    <3> QED BY <1>1, <1>4, <2>1, UpTo
  <2> QED BY <1>1, <2>2
<1> QED BY <1>2, <1>3, <1>6 DEF Retained, ChosenBy

\* The artifacts of a role.
OfRole(artifacts, role) == Chosen(artifacts, {n \in DOMAIN artifacts : artifacts[n].role = role})

\* Those of one sequence after another.
LEMMA OfRoleConcat ==
    ASSUME NEW s \in Seq(PlannedArtifact), NEW t \in Seq(PlannedArtifact), NEW role
    PROVE  OfRole(s \o t, role) = OfRole(s, role) \o OfRole(t, role)
<1> DEFINE st == s \o t
           here == {n \in DOMAIN st : st[n].role = role}
           there == {n \in DOMAIN t : t[n].role = role}
<1>1. /\ st \in Seq(PlannedArtifact) /\ DOMAIN st = 1..Len(st) /\ DOMAIN t = 1..Len(t)
      /\ DOMAIN s = 1..Len(s) /\ Len(s) \in Nat
  BY ConcatProperties, LenProperties
<1>2. /\ \A i \in 1..Len(s) : i \in 1..Len(st) /\ st[i] = s[i]
      /\ \A i \in 1..Len(t) : Len(s) + i \in 1..Len(st) /\ st[Len(s) + i] = t[i]
  BY Joined
<1> HIDE DEF st
<1>3. \A n \in 1..Len(t) : n \in there <=> Len(s) + n \in here
  BY <1>1, <1>2
<1>4. Chosen(st, here) = Chosen(s, here) \o Chosen(t, there)
  <2> HIDE DEF here, there
  <2> QED BY <1>3, ChosenConcat DEF st
<1>5. Chosen(s, here) = OfRole(s, role)
  <2> DEFINE own == {n \in DOMAIN s : s[n].role = role}
  <2>1. \A n \in 1..Len(s) : n \in here <=> n \in own
    BY <1>1, <1>2
  <2> HIDE DEF here, own
  <2>2. Chosen(s, here) = Chosen(s, own)
    BY <2>1, ChosenSame
  <2> QED BY <2>2 DEF OfRole, own
<1> QED BY <1>4, <1>5 DEF OfRole, st

\* All of them, if each is of the role.
LEMMA OfRoleAll ==
    ASSUME NEW s \in Seq(PlannedArtifact), NEW role, \A n \in 1..Len(s) : s[n].role = role
    PROVE  OfRole(s, role) = s
<1>1. \A n \in 1..Len(s) : n \in {k \in DOMAIN s : s[k].role = role}
  OBVIOUS
<1> QED BY <1>1, ChosenAll DEF OfRole

\* None of them, if none is.
LEMMA OfRoleNone ==
    ASSUME NEW s \in Seq(PlannedArtifact), NEW role, \A n \in 1..Len(s) : s[n].role # role
    PROVE  OfRole(s, role) = <<>>
<1>1. \A n \in 1..Len(s) : n \notin {k \in DOMAIN s : s[k].role = role}
  OBVIOUS
<1> QED BY <1>1, ChosenNone DEF OfRole

\* They are artifacts.
LEMMA OfRoleType ==
    ASSUME NEW s \in Seq(PlannedArtifact), NEW role
    PROVE  OfRole(s, role) \in Seq(PlannedArtifact)
BY ChosenType DEF OfRole

\* The artifacts of a build.
OfBuild(libraries) ==
    [n \in DOMAIN libraries |-> Artifact(ToPath(libraries[n].name), "library", libraries[n].sha1)]

Names(libraries) == {DedupKey(libraries[n].name) : n \in DOMAIN libraries}

\* Each of the build's libraries is an artifact at its path, with its digest.
LEMMA OfBuildType ==
    ASSUME NEW libraries \in Seq(LoaderLibrary),
           \A n \in 1..Len(libraries) : libraries[n].name # Malformed
    PROVE  /\ OfBuild(libraries) \in Seq(PlannedArtifact) /\ Len(OfBuild(libraries)) = Len(libraries)
           /\ \A n \in 1..Len(libraries) :
                /\ OfBuild(libraries)[n].path = ToPath(libraries[n].name)
                /\ OfBuild(libraries)[n].role = "library"
                /\ OfBuild(libraries)[n].sha1 = libraries[n].sha1
<1> DEFINE planned == OfBuild(libraries)
<1>1. DOMAIN libraries = 1..Len(libraries) /\ Len(libraries) \in Nat
  OBVIOUS
<1>2. ASSUME NEW n \in 1..Len(libraries)
      PROVE  ToPath(libraries[n].name) \in Path /\ libraries[n].sha1 \in Digest
  <2>1. libraries[n] \in LoaderLibrary /\ libraries[n].name # Malformed
    OBVIOUS
  <2>2. libraries[n].name \in Coordinates /\ libraries[n].sha1 \in Digest
    BY <2>1 DEF LoaderLibrary, Name
  <2> QED BY <2>2, ToPathType
<1>3. \A n \in 1..Len(libraries) :
         planned[n] = [path |-> ToPath(libraries[n].name), role |-> "library",
                       sha1 |-> libraries[n].sha1]
  BY <1>1 DEF OfBuild, Artifact
<1>4. ASSUME NEW n \in 1..Len(libraries) PROVE planned[n] \in PlannedArtifact
  <2> HIDE DEF planned
  <2>1. planned[n] = [path |-> ToPath(libraries[n].name), role |-> "library",
                      sha1 |-> libraries[n].sha1]
    BY <1>3
  <2>2. ToPath(libraries[n].name) \in Path /\ libraries[n].sha1 \in Digest
    BY <1>2
  <2> QED BY <2>1, <2>2 DEF PlannedArtifact, Role
<1>5. planned = [n \in 1..Len(libraries) |-> planned[n]]
  BY <1>1 DEF OfBuild
<1> HIDE DEF planned
<1>6. planned \in [1..Len(libraries) -> PlannedArtifact]
  BY <1>4, <1>5
<1>7. planned \in Seq(PlannedArtifact) /\ Len(planned) = Len(libraries)
  BY <1>1, <1>6
<1>8. \A n \in 1..Len(libraries) :
        /\ planned[n].path = ToPath(libraries[n].name)
        /\ planned[n].role = "library" /\ planned[n].sha1 = libraries[n].sha1
  <2> SUFFICES ASSUME NEW n \in 1..Len(libraries)
               PROVE  /\ planned[n].path = ToPath(libraries[n].name)
                      /\ planned[n].role = "library" /\ planned[n].sha1 = libraries[n].sha1
    OBVIOUS
  <2> DEFINE path == ToPath(libraries[n].name)
  <2> HIDE DEF path
  <2>1. planned[n] = [path |-> path, role |-> "library", sha1 |-> libraries[n].sha1]
    BY <1>3 DEF path
  <2>2. planned[n].path = path /\ planned[n].role = "library" /\ planned[n].sha1 = libraries[n].sha1
    BY <2>1
  <2> QED BY <2>2 DEF path
<1> QED BY <1>7, <1>8 DEF planned

\* What is retained are artifacts.
LEMMA RetainedType ==
    ASSUME NEW artifacts \in Seq(PlannedArtifact), NEW names
    PROVE  Retained(artifacts, names) \in Seq(PlannedArtifact)
BY RetainedIs, ChosenType

\* A plan that a build is merged into: its libraries come before those of the version.
Split(s, t, p, profile, libraries) ==
    /\ s \in Seq(PlannedArtifact) /\ t \in Seq(PlannedArtifact)
    /\ Retained(p.artifacts, Names(libraries)) = s \o t
    /\ \A n \in 1..Len(s) : s[n].role # "library"
    /\ Merged(p, profile, libraries).artifacts = s \o OfBuild(libraries) \o t

\* Apart from its artifacts a merged plan takes of the build its main class, its version
\* and its demand on Java.
LEMMA MergedIs ==
    ASSUME NEW p \in Plan, NEW profile \in Profile, NEW libraries \in Seq(LoaderLibrary)
    PROVE  /\ \E s, t : Split(s, t, p, profile, libraries)
           /\ Merged(p, profile, libraries) =
                [artifacts |-> Merged(p, profile, libraries).artifacts,
                 java |-> [component |-> p.java.component, source |-> p.java.source,
                           major |-> LaterJava(p.java.major, profile.minJava)],
                 arguments |-> p.arguments, mainClass |-> profile.mainClass,
                 loader |-> profile.version]
<1> DEFINE planned == OfBuild(libraries)
           kept == Retained(p.artifacts, Names(libraries))
           first == SelectInSeq(kept, LAMBDA a : a.role = "library")
           at == IF first = 0 THEN Len(kept) ELSE first - 1
           s == SubSeq(kept, 1, at)
           t == SubSeq(kept, at + 1, Len(kept))
<1>1. Merged(p, profile, libraries) =
        [p EXCEPT !.artifacts = s \o planned \o t, !.mainClass = profile.mainClass,
                  !.loader = profile.version,
                  !.java.major = LaterJava(p.java.major, profile.minJava)]
  BY DEF Merged, OfBuild, Names
<1>2. kept \in Seq(PlannedArtifact) /\ Len(kept) \in Nat
  <2>1. kept \in Seq(PlannedArtifact)
    BY RetainedType DEF Plan
  <2> HIDE DEF kept
  <2> QED BY <2>1
<1> HIDE DEF kept
<1>3. /\ first = 0 /\ (\A n \in 1..Len(kept) : kept[n].role # "library")
      \/ /\ first \in 1..Len(kept)
         /\ \A n \in 1..Len(kept) : kept[n].role = "library" => first <= n
  <2> DEFINE good == {n \in 1..Len(kept) : kept[n].role = "library"}
  <2>1. first = IF good # {} THEN Min(good) ELSE 0
    BY DEF SelectInSeq
  <2>2. good \in SUBSET (1..Len(kept))
    OBVIOUS
  <2>3. CASE good = {}
    BY <2>1, <2>3
  <2>4. CASE good # {}
    <3>1. Min(good) \in good /\ \A n \in good : Min(good) <= n
      <4> HIDE DEF good
      <4> QED BY <1>2, <2>2, <2>4, MinIn
    <3> HIDE DEF first
    <3> QED BY <2>1, <2>4, <3>1
  <2> QED BY <2>3, <2>4
<1> HIDE DEF first
<1>4. at \in 0..Len(kept) /\ \A n \in 1..at : n \in 1..Len(kept) /\ kept[n].role # "library"
  BY <1>2, <1>3
<1> HIDE DEF at
<1>5. s \in Seq(PlannedArtifact) /\ Len(s) = at /\ \A n \in 1..at : s[n] = kept[n]
  BY <1>2, <1>4, SubSeqProperties
<1>6. t \in Seq(PlannedArtifact)
  BY <1>2, <1>4, SubSeqProperties
<1>7. kept = s \o t
  <2>1. 1 \in 1..Len(kept) + 1 /\ at \in (1 - 1)..Len(kept) /\ Len(kept) \in at..Len(kept)
    BY <1>2, <1>4
  <2>2. SubSeq(kept, 1, at) \o SubSeq(kept, at + 1, Len(kept)) = SubSeq(kept, 1, Len(kept))
    BY <1>2, <2>1, ConcatAdjacentSubSeq
  <2>3. SubSeq(kept, 1, Len(kept)) = kept
    BY <1>2, SubSeqFull
  <2> QED BY <2>2, <2>3
<1> HIDE DEF s, t, planned
<1>8. Merged(p, profile, libraries) =
        [artifacts |-> s \o planned \o t,
         java |-> [component |-> p.java.component, source |-> p.java.source,
                   major |-> LaterJava(p.java.major, profile.minJava)],
         arguments |-> p.arguments, mainClass |-> profile.mainClass,
         loader |-> profile.version]
  <2> DEFINE x == s \o planned \o t
             major == LaterJava(p.java.major, profile.minJava)
  <2> HIDE DEF x, major
  <2>1. Merged(p, profile, libraries) =
          [p EXCEPT !.artifacts = x, !.mainClass = profile.mainClass,
                    !.loader = profile.version, !.java.major = major]
    BY <1>1 DEF x, major
  <2>2. p \in [artifacts : Seq(PlannedArtifact),
               java : [component : STRING \cup {None}, major : Nat, source : {"mojang", "adoptium"}],
               arguments : [game : Seq(Seq(Piece)), jvm : Seq(Seq(Piece))],
               mainClass : STRING, loader : BuildVersion \cup {None}]
    BY DEF Plan
  <2>3. Merged(p, profile, libraries) =
          [artifacts |-> x,
           java |-> [component |-> p.java.component, source |-> p.java.source, major |-> major],
           arguments |-> p.arguments, mainClass |-> profile.mainClass,
           loader |-> profile.version]
    <3> DEFINE java == [p.java EXCEPT !.major = major]
    <3>1. java = [component |-> p.java.component, source |-> p.java.source, major |-> major]
      BY <2>2
    <3>2. Merged(p, profile, libraries) =
            [p EXCEPT !.artifacts = x, !.mainClass = profile.mainClass,
                      !.loader = profile.version, !.java = java]
      BY <2>1, <2>2
    <3> HIDE DEF java
    <3>3. Merged(p, profile, libraries) =
            [artifacts |-> x, java |-> java, arguments |-> p.arguments,
             mainClass |-> profile.mainClass, loader |-> profile.version]
      BY <2>2, <3>2
    <3> QED BY <3>1, <3>3
  <2> QED BY <2>3 DEF x, major
<1>9. Merged(p, profile, libraries).artifacts = s \o planned \o t
  BY <1>8
<1>10. Split(s, t, p, profile, libraries)
  BY <1>4, <1>5, <1>6, <1>7, <1>9 DEF Split, kept, planned
<1> QED BY <1>8, <1>9, <1>10

\* A merged plan is a plan.
LEMMA MergedType ==
    ASSUME NEW p \in Plan, NEW profile \in Profile, NEW libraries \in Seq(LoaderLibrary),
           \A n \in 1..Len(libraries) : libraries[n].name # Malformed
    PROVE  Merged(p, profile, libraries) \in Plan
<1> DEFINE m == Merged(p, profile, libraries)
<1>1. PICK s, t : Split(s, t, p, profile, libraries)
  BY MergedIs
<1>2. OfBuild(libraries) \in Seq(PlannedArtifact)
  BY OfBuildType
<1>3. m.artifacts \in Seq(PlannedArtifact)
  <2> DEFINE b == OfBuild(libraries)
  <2> HIDE DEF b
  <2>1. s \o b \o t \in Seq(PlannedArtifact)
    BY <1>1, <1>2 DEF Split, b
  <2> QED BY <1>1, <2>1 DEF Split, b
<1>4. m = [artifacts |-> m.artifacts,
           java |-> [component |-> p.java.component, source |-> p.java.source,
                     major |-> LaterJava(p.java.major, profile.minJava)],
           arguments |-> p.arguments, mainClass |-> profile.mainClass,
           loader |-> profile.version]
  BY MergedIs
<1>5. /\ p.java.component \in STRING \cup {None} /\ p.java.source \in {"mojang", "adoptium"}
      /\ LaterJava(p.java.major, profile.minJava) \in Nat
      /\ p.arguments \in [game : Seq(Seq(Piece)), jvm : Seq(Seq(Piece))]
      /\ profile.mainClass \in STRING /\ profile.version \in BuildVersion
  BY DEF Plan, Profile, LaterJava
<1> HIDE DEF m
<1>6. m \in Plan
  BY <1>3, <1>4, <1>5 DEF Plan
<1> QED BY <1>6 DEF m

\* The artifacts of a merged plan.
MergedParts(all, kept, libraries) ==
    /\ OfRole(all, "library") = OfBuild(libraries) \o OfRole(kept, "library")
    /\ \A role : role # "library" => OfRole(all, role) = OfRole(kept, role)
    /\ \A n \in 1..Len(libraries) : \E k \in 1..Len(all) : all[k] = OfBuild(libraries)[n]

\* Merging puts the build before the libraries that stay and leaves other roles alone.
LEMMA MergedArtifacts ==
    ASSUME NEW p \in Plan, NEW profile \in Profile, NEW libraries \in Seq(LoaderLibrary),
           \A n \in 1..Len(libraries) : libraries[n].name # Malformed
    PROVE  MergedParts(Merged(p, profile, libraries).artifacts,
                       Retained(p.artifacts, Names(libraries)), libraries)
<1> DEFINE b == OfBuild(libraries)
           kept == Retained(p.artifacts, Names(libraries))
           all == Merged(p, profile, libraries).artifacts
<1>1. PICK s, t : Split(s, t, p, profile, libraries)
  BY MergedIs
<1>2. /\ b \in Seq(PlannedArtifact) /\ Len(b) = Len(libraries)
      /\ \A n \in 1..Len(libraries) : b[n].role = "library"
  BY OfBuildType
<1> HIDE DEF b
<1>3. /\ s \in Seq(PlannedArtifact) /\ t \in Seq(PlannedArtifact) /\ kept = s \o t
      /\ \A n \in 1..Len(s) : s[n].role # "library"
      /\ all = (s \o b) \o t
  BY <1>1 DEF Split, b
<1>4. s \o b \in Seq(PlannedArtifact) /\ \A u \in Seq(PlannedArtifact) : <<>> \o u = u /\ u \o <<>> = u
  BY <1>2, <1>3, ConcatProperties, ConcatEmptySeq
<1>5. ASSUME NEW role
      PROVE  /\ OfRole(all, role) = (OfRole(s, role) \o OfRole(b, role)) \o OfRole(t, role)
             /\ OfRole(kept, role) = OfRole(s, role) \o OfRole(t, role)
             /\ OfRole(s, role) \in Seq(PlannedArtifact) /\ OfRole(t, role) \in Seq(PlannedArtifact)
  <2>1. OfRole((s \o b) \o t, role) = OfRole(s \o b, role) \o OfRole(t, role)
    BY <1>3, <1>4, OfRoleConcat
  <2>2. OfRole(s \o b, role) = OfRole(s, role) \o OfRole(b, role)
    BY <1>2, <1>3, OfRoleConcat
  <2>3. OfRole(s \o t, role) = OfRole(s, role) \o OfRole(t, role)
    BY <1>3, OfRoleConcat
  <2>4. OfRole(s, role) \in Seq(PlannedArtifact) /\ OfRole(t, role) \in Seq(PlannedArtifact)
    BY <1>3, OfRoleType
  <2> QED BY <1>3, <2>1, <2>2, <2>3, <2>4
<1>6. OfRole(all, "library") = b \o OfRole(kept, "library")
  <2>1. OfRole(s, "library") = <<>>
    BY <1>3, OfRoleNone
  <2>2. OfRole(b, "library") = b
    BY <1>2, OfRoleAll
  <2>3. OfRole(t, "library") \in Seq(PlannedArtifact)
    BY <1>5
  <2>4. OfRole(all, "library") = (<<>> \o b) \o OfRole(t, "library")
    BY <1>5, <2>1, <2>2
  <2>5. OfRole(kept, "library") = <<>> \o OfRole(t, "library")
    BY <1>5, <2>1
  <2> QED BY <1>2, <1>4, <2>3, <2>4, <2>5
<1>7. ASSUME NEW role, role # "library" PROVE OfRole(all, role) = OfRole(kept, role)
  <2>1. OfRole(b, role) = <<>>
    <3>1. \A n \in 1..Len(b) : b[n].role # role
      BY <1>2, <1>7
    <3> QED BY <1>2, <3>1, OfRoleNone
  <2>2. OfRole(s, role) \in Seq(PlannedArtifact)
    BY <1>5
  <2>3. OfRole(all, role) = (OfRole(s, role) \o <<>>) \o OfRole(t, role)
    BY <1>5, <2>1
  <2>4. OfRole(kept, role) = OfRole(s, role) \o OfRole(t, role)
    BY <1>5
  <2> QED BY <1>4, <2>2, <2>3, <2>4
<1> DEFINE sb == s \o b
<1>8. /\ \A i \in 1..Len(s) : i \in 1..Len(sb) /\ sb[i] = s[i]
      /\ \A i \in 1..Len(b) : Len(s) + i \in 1..Len(sb) /\ sb[Len(s) + i] = b[i]
  BY <1>2, <1>3, Joined
<1>9. /\ \A i \in 1..Len(sb) : i \in 1..Len(all) /\ all[i] = sb[i]
      /\ \A i \in 1..Len(t) : Len(sb) + i \in 1..Len(all) /\ all[Len(sb) + i] = t[i]
  BY <1>3, <1>4, Joined
<1> HIDE DEF sb
<1>10. \A n \in 1..Len(libraries) : \E k \in 1..Len(all) : all[k] = b[n]
  BY <1>2, <1>8, <1>9
<1> QED BY <1>6, <1>7, <1>10 DEF b, MergedParts, all, kept

------------------------------------------------------------------------------
(* Fetching the digests of a build *)

\* What a library comes back as.
LEMMA ChecksumsIs ==
    ASSUME NEW library \in LoaderLibrary, NEW outcome \in Checksums(library)
    PROVE  /\ outcome \in LoaderLibrary \cup {None}
           /\ outcome # None =>
                /\ outcome.name = library.name
                /\ outcome.sha1 = IF library.sha1 = None THEN "genuine" ELSE library.sha1
<1>1. [library EXCEPT !.sha1 = "genuine"] \in LoaderLibrary
  BY DEF LoaderLibrary, Digest
<1>2. /\ [library EXCEPT !.sha1 = "genuine"].name = library.name
      /\ [library EXCEPT !.sha1 = "genuine"].sha1 = "genuine"
  BY DEF LoaderLibrary
<1> QED BY <1>1, <1>2 DEF Checksums

\* source says which library came back as which: each of those that were started and
\* are not under way has, once.
Sources(source, arr, fl, libraries, started) ==
    /\ source \in [1..Len(arr) -> (1..started) \ fl]
    /\ \A n, k \in 1..Len(arr) : source[n] = source[k] => n = k
    /\ \A m \in (1..started) \ fl : \E n \in 1..Len(arr) : source[n] = m
    /\ \A n \in 1..Len(arr) : arr[n] \in Checksums(libraries[source[n]])

Counted(arr, fl, libraries, started) ==
    /\ arr \in Seq(LoaderLibrary \cup {None}) /\ IsFiniteSet(fl)
    /\ started = Len(arr) + Cardinality(fl)
    /\ fl \subseteq 1..started /\ started <= Len(libraries)
    /\ Cardinality(fl) <= Concurrency
    /\ Cardinality(fl) < Concurrency => started = Len(libraries)

Fetching(arr, fl, libraries) ==
    \E started \in Nat : /\ Counted(arr, fl, libraries, started)
                         /\ \E source : Sources(source, arr, fl, libraries, started)

\* So when as many are started as there is room for.
LEMMA FetchingBegins ==
    ASSUME NEW libraries \in Seq(LoaderLibrary)
    PROVE  Fetching(<<>>, Started(libraries, 0, 0), libraries)
<1> DEFINE L == Len(libraries)
           first == IF L <= Concurrency THEN L ELSE Concurrency
           fl == Started(libraries, 0, 0)
           arr == <<>>
<1>1. L \in Nat /\ Concurrency \in Nat \ {0} /\ DOMAIN libraries = 1..L
  BY PlanningAssumption
<1>2. first \in Nat /\ first <= L /\ first <= Concurrency /\ (first < Concurrency => first = L)
  <2> HIDE DEF L
  <2>1. CASE L <= Concurrency
    BY <1>1, <2>1
  <2>2. CASE ~(L <= Concurrency)
    BY <1>1, <2>2
  <2> QED BY <2>1, <2>2
<1>3. fl = 1..first
  BY <1>1 DEF Started
<1> HIDE DEF fl, first
<1>4. IsFiniteSet(1..first) /\ Cardinality(1..first) = first
  <2>1. IsFiniteSet(1..first) /\ Cardinality(1..first) = IF 1 > first THEN 0 ELSE first - 1 + 1
    BY <1>2, FS_Interval
  <2> QED BY <1>2, <2>1
<1>5. Counted(arr, fl, libraries, first)
  <2>1. arr \in Seq(LoaderLibrary \cup {None}) /\ Len(arr) = 0
    OBVIOUS
  <2> HIDE DEF arr, L
  <2> QED BY <1>2, <1>3, <1>4, <2>1 DEF Counted, L
<1>6. Sources([n \in {} |-> n], arr, fl, libraries, first)
  <2>1. 1..Len(arr) = {} /\ (1..first) \ fl = {}
    BY <1>3
  <2> HIDE DEF arr
  <2> QED BY <2>1 DEF Sources
<1> QED BY <1>2, <1>5, <1>6 DEF Fetching, fl

\* So when one comes back and another may start.
LEMMA FetchingGoesOn ==
    ASSUME NEW libraries \in Seq(LoaderLibrary), NEW arr, NEW fl, Fetching(arr, fl, libraries),
           NEW n \in fl, NEW outcome \in Checksums(libraries[n])
    PROVE  Fetching(Append(arr, outcome),
                    (fl \ {n}) \cup Started(libraries, Len(arr) + Cardinality(fl), Cardinality(fl) - 1),
                    libraries)
<1> DEFINE L == Len(libraries)
           C == Cardinality(fl)
           A == Len(arr)
           more == Started(libraries, A + C, C - 1)
           left == fl \ {n}
           next == left \cup more
           longer == Append(arr, outcome)
<1>1. PICK started \in Nat : /\ Counted(arr, fl, libraries, started)
                             /\ \E source : Sources(source, arr, fl, libraries, started)
  BY DEF Fetching
<1>2. PICK source : Sources(source, arr, fl, libraries, started)
  BY <1>1
<1>3. /\ L \in Nat /\ A \in Nat /\ Concurrency \in Nat \ {0} /\ DOMAIN libraries = 1..L
      /\ arr \in Seq(LoaderLibrary \cup {None}) /\ IsFiniteSet(fl) /\ C \in Nat
      /\ started = A + C /\ fl \subseteq 1..started /\ started <= L
      /\ C <= Concurrency /\ (C < Concurrency => started = L)
  <2>1. C \in Nat
    BY <1>1, FS_CardinalityType DEF Counted
  <2> QED BY <1>1, <2>1, PlanningAssumption, LenProperties DEF Counted
<1>4. IsFiniteSet(left) /\ Cardinality(left) = C - 1 /\ C - 1 \in Nat
  <2>1. IsFiniteSet(left) /\ Cardinality(left) = C - 1
    BY <1>3, FS_RemoveElement
  <2>2. Cardinality(left) \in Nat
    BY <2>1, FS_CardinalityType
  <2> QED BY <2>1, <2>2
<1>5. n \in 1..started /\ n \in 1..L /\ libraries[n] \in LoaderLibrary
  BY <1>3
<1>6. outcome \in LoaderLibrary \cup {None}
  BY <1>5, ChecksumsIs
<1>7. /\ longer \in Seq(LoaderLibrary \cup {None}) /\ Len(longer) = A + 1
      /\ \A k \in 1..A : longer[k] = arr[k]
      /\ longer[A + 1] = outcome
  BY <1>3, <1>6, AppendProperties
<1> DEFINE origin == [k \in 1..A + 1 |-> IF k = A + 1 THEN n ELSE source[k]]
<1>8. /\ \A k \in 1..A : /\ k \in 1..A + 1 /\ origin[k] = source[k] /\ source[k] \in (1..started) \ fl
                         /\ arr[k] \in Checksums(libraries[source[k]])
      /\ A + 1 \in 1..A + 1 /\ origin[A + 1] = n
      /\ \A k \in 1..A + 1 : k \in 1..A \/ k = A + 1
      /\ origin = [k \in 1..A + 1 |-> origin[k]]
  <2>1. \A k \in 1..A : k \in 1..A + 1 /\ k # A + 1
    BY <1>3
  <2>2. \A k \in 1..A : source[k] \in (1..started) \ fl /\ arr[k] \in Checksums(libraries[source[k]])
    BY <1>2 DEF Sources
  <2>3. A + 1 \in 1..A + 1 /\ \A k \in 1..A + 1 : k \in 1..A \/ k = A + 1
    BY <1>3
  <2> HIDE DEF A
  <2> QED BY <2>1, <2>2, <2>3
<1> HIDE DEF origin
<1>9. ASSUME NEW top, (1..top) \ next = ((1..started) \ fl) \cup {n}
      PROVE  Sources(origin, longer, next, libraries, top)
  <2> HIDE DEF A, next, longer
  <2>1. origin \in [1..A + 1 -> (1..top) \ next]
    BY <1>8, <1>9
  <2>2. ASSUME NEW j \in 1..A + 1, NEW k \in 1..A + 1, origin[j] = origin[k] PROVE j = k
    <3>1. CASE j \in 1..A /\ k \in 1..A
      BY <1>2, <1>8, <2>2, <3>1 DEF Sources, A
    <3>2. CASE j \in 1..A /\ k = A + 1
      BY <1>8, <2>2, <3>2
    <3>3. CASE j = A + 1 /\ k \in 1..A
      BY <1>8, <2>2, <3>3
    <3> QED BY <1>8, <3>1, <3>2, <3>3
  <2>3. ASSUME NEW m \in (1..top) \ next PROVE \E k \in 1..A + 1 : origin[k] = m
    <3>1. CASE m = n
      BY <1>8, <3>1
    <3>2. CASE m \in (1..started) \ fl
      <4>1. PICK k \in 1..A : source[k] = m
        BY <1>2, <3>2 DEF Sources, A
      <4> QED BY <1>8, <4>1
    <3> QED BY <1>9, <3>1, <3>2
  <2>4. ASSUME NEW k \in 1..A + 1 PROVE longer[k] \in Checksums(libraries[origin[k]])
    <3>1. CASE k \in 1..A
      BY <1>7, <1>8, <3>1
    <3>2. CASE k = A + 1
      BY <1>7, <1>8, <3>2
    <3> QED BY <1>8, <3>1, <3>2
  <2> QED BY <1>7, <2>1, <2>2, <2>3, <2>4 DEF Sources
<1>10. CASE started = L
  <2>1. more = {}
    BY <1>3, <1>10 DEF Started
  <2>2. next = left
    BY <2>1
  <2>3. Counted(longer, next, libraries, started)
    <3>1. left \subseteq 1..started /\ started = (A + 1) + (C - 1) /\ C - 1 <= Concurrency
      BY <1>3, <1>4
    <3> HIDE DEF left, next, longer, A, C, L
    <3> QED BY <1>3, <1>4, <1>7, <1>10, <2>2, <3>1 DEF Counted, L
  <2>4. (1..started) \ next = ((1..started) \ fl) \cup {n}
    BY <1>5, <2>2
  <2>5. Sources(origin, longer, next, libraries, started)
    BY <1>9, <2>4
  <2> HIDE DEF next, longer
  <2>6. Fetching(longer, next, libraries)
    BY <2>3, <2>5 DEF Fetching
  <2> QED BY <2>6 DEF next, longer
<1>11. CASE started # L
  <2>1. C = Concurrency /\ started + 1 <= L /\ started + 1 \in Nat
    <3>1. /\ C \in Nat /\ Concurrency \in Nat /\ C <= Concurrency /\ ~(C < Concurrency)
          /\ L \in Nat /\ started <= L /\ started # L
      BY <1>3, <1>11
    <3>2. \A c, d \in Nat : c <= d /\ ~(c < d) => c = d
      OBVIOUS
    <3>3. \A l, t \in Nat : t <= l /\ t # l => t + 1 <= l /\ t + 1 \in Nat
      OBVIOUS
    <3> HIDE DEF C, L
    <3> QED BY <3>1, <3>2, <3>3
  <2>2. more = {started + 1}
    <3>1. more = {m \in 1..L : m > started /\ m <= started + Concurrency - (C - 1)}
      BY <1>3 DEF Started
    <3>2. C \in Nat /\ C = Concurrency /\ L \in Nat /\ started + 1 <= L
      BY <1>3, <2>1
    <3> HIDE DEF more, C, L
    <3>3. \A m \in 1..L : m > started /\ m <= started + Concurrency - (C - 1) <=> m = started + 1
      BY <3>2
    <3>4. started + 1 \in 1..L
      BY <3>2
    <3> QED BY <3>1, <3>3, <3>4
  <2>3. started + 1 \notin left /\ next = left \cup {started + 1}
    BY <1>3, <2>2
  <2>4. IsFiniteSet(next) /\ Cardinality(next) = C
    <3>1. IsFiniteSet(left \cup {started + 1}) /\ Cardinality(left \cup {started + 1}) = (C - 1) + 1
      BY <1>4, <2>3, FS_AddElement
    <3>2. (C - 1) + 1 = C
      BY <1>3
    <3> HIDE DEF left, next, C
    <3> QED BY <2>3, <3>1, <3>2
  <2>5. Counted(longer, next, libraries, started + 1)
    <3>1. next \subseteq 1..(started + 1)
      <4>1. left \subseteq 1..started /\ 1..started \subseteq 1..(started + 1)
            /\ started + 1 \in 1..(started + 1)
        BY <1>3
      <4> HIDE DEF left, next
      <4> QED BY <2>3, <4>1
    <3>2. started + 1 = (A + 1) + C
      <4>1. started = A + C /\ A \in Nat /\ C \in Nat
        BY <1>3
      <4> HIDE DEF A, C
      <4> QED BY <4>1
    <3>3. /\ longer \in Seq(LoaderLibrary \cup {None}) /\ IsFiniteSet(next)
          /\ Len(longer) = A + 1 /\ Cardinality(next) = C
      BY <1>7, <2>4
    <3>4. C <= Concurrency /\ ~(C < Concurrency) /\ started + 1 <= Len(libraries)
      <4>1. \A d \in Nat : d <= d /\ ~(d < d)
        OBVIOUS
      <4>2. C = Concurrency /\ Concurrency \in Nat /\ started + 1 <= L
        BY <1>3, <2>1
      <4> HIDE DEF C
      <4> QED BY <4>1, <4>2
    <3> HIDE DEF left, next, longer, A, C, L
    <3> QED BY <3>1, <3>2, <3>3, <3>4 DEF Counted
  <2>6. (1..(started + 1)) \ next = ((1..started) \ fl) \cup {n}
    <3>1. 1..(started + 1) = (1..started) \cup {started + 1} /\ started + 1 \notin 1..started
      OBVIOUS
    <3> HIDE DEF next
    <3> QED BY <1>5, <2>3, <3>1
  <2>7. Sources(origin, longer, next, libraries, started + 1)
    BY <1>9, <2>6
  <2> HIDE DEF next, longer
  <2>8. Fetching(longer, next, libraries)
    BY <2>1, <2>5, <2>7 DEF Fetching
  <2> QED BY <2>8 DEF next, longer
<1> QED BY <1>10, <1>11

------------------------------------------------------------------------------
(* The inductive invariant *)

Progress ==
    /\ machine \in Machine /\ pc \in Pc
    /\ pc = "idle" => version = None /\ plan = None
    /\ pc \in {"idle", "loader"} => build = None
    /\ pc = "checksums" => build # None

\* The plan is that of the version, with the build merged into it once it is known.
PlanInv ==
    pc # "idle" =>
        /\ version \in Version /\ version.client
        /\ \E published \in BOOLEAN :
             plan = IF Finished /\ build # None
                    THEN Merged(PlanFor(version, machine.env, published), build,
                                InOrder(arrived, build.libraries))
                    ELSE PlanFor(version, machine.env, published)

\* The build is one that a loader's service lists.
Asked(listing, wanted) ==
    /\ asked = [kind |-> listing.kind, entries |-> listing.entries, wanted |-> wanted]
    /\ build = SelectBuild(ParseVersions(listing.kind, listing.entries), wanted)

BuildInv ==
    /\ build = None => arrived = <<>> /\ flight = {} /\ asked = None
    /\ build # None =>
         /\ \E listing \in Listing, wanted \in Wanted : Asked(listing, wanted)
         /\ Fetching(arrived, flight, build.libraries)

\* Nothing is merged before every digest is known.
MergedInv ==
    Finished /\ build # None =>
        /\ flight = {}
        /\ \A n \in 1..Len(arrived) : arrived[n] # None /\ arrived[n].name # Malformed

\* A game was started from the lockfile that is there.
StartedFrom(text) ==
    /\ run = [code |-> "started", java |-> SystemJava(text.java.major),
              command |-> Command(text), classpath |-> Classpath(text.artifacts)]
    /\ run.java # 0
    /\ Missing(text.arguments.jvm \o text.arguments.game, Known) = {}

RunInv ==
    /\ lock = IF pc = "installed" THEN plan ELSE None
    /\ run # None => pc = "installed"
    /\ run # None /\ run.code = "started" => StartedFrom(lock)

PlanningInv == Progress /\ PlanInv /\ BuildInv /\ MergedInv /\ RunInv

\* It holds in the beginning.
LEMMA StartPlanning == Init => PlanningInv
  BY DEF Init, PlanningInv, Progress, PlanInv, BuildInv, MergedInv, RunInv, Pc, Finished

\* What a build is.
LEMMA BuildType ==
    ASSUME PlanningInv, build # None
    PROVE  build \in Profile /\ build.libraries \in Seq(LoaderLibrary)
<1>1. PICK listing \in Listing, wanted \in Wanted : Asked(listing, wanted)
  BY DEF PlanningInv, BuildInv
<1>2. listing.entries \in Seq(Entry)
  BY PlanningAssumption
<1>3. build \in Profile
  BY <1>1, <1>2, ParseVersionsType, Selected DEF Asked
<1> QED BY <1>3 DEF Profile

\* Whether a Java is there is up to the machine.
LEMMA SameJava ==
    ASSUME NEW required, machine' = machine
    PROVE  SystemJava(required)' = SystemJava(required)
  BY DEF SystemJava, SelectInSeq

\* Each step keeps it.
LEMMA StepPlanning == ASSUME PlanningInv, [Next]_vars PROVE PlanningInv'
<1>0. Progress /\ PlanInv /\ BuildInv /\ MergedInv /\ RunInv
  BY DEF PlanningInv
<1>1. CASE Resolve
  <2>1. PICK v \in Version, published \in BOOLEAN :
           v.client /\ version' = v /\ plan' = PlanFor(v, machine.env, published)
    BY <1>1 DEF Resolve
  <2>2. /\ pc = "idle" /\ pc' \in {"loader", "install"}
        /\ UNCHANGED <<machine, asked, build, flight, arrived, lock, run>>
    BY <1>1 DEF Resolve
  <2>3. build = None /\ build' = None /\ machine' = machine /\ lock = None /\ run = None
    BY <1>0, <2>2 DEF Progress, RunInv
  <2>4. PlanInv'
    BY <2>1, <2>3 DEF PlanInv
  <2>5. Progress'
    BY <1>0, <2>2, <2>3 DEF Progress, Pc
  <2>6. BuildInv' /\ MergedInv' /\ RunInv'
    BY <1>0, <2>2, <2>3 DEF BuildInv, MergedInv, RunInv
  <2> QED BY <2>4, <2>5, <2>6 DEF PlanningInv
<1>2. CASE ChooseBuild
  <2>1. PICK listing \in Listing, wanted \in Wanted :
           /\ SelectBuild(ParseVersions(listing.kind, listing.entries), wanted) # None
           /\ asked' = [kind |-> listing.kind, entries |-> listing.entries, wanted |-> wanted]
           /\ build' = SelectBuild(ParseVersions(listing.kind, listing.entries), wanted)
           /\ flight' = Started(build'.libraries, 0, 0)
    BY <1>2 DEF ChooseBuild
  <2>2. /\ pc = "loader" /\ pc' = "checksums" /\ ~Finished' /\ ~Finished
        /\ UNCHANGED <<machine, version, arrived, plan, lock, run>>
    BY <1>2 DEF ChooseBuild, Finished
  <2>3. build = None /\ arrived = <<>> /\ lock = None /\ run = None
    BY <1>0, <2>2 DEF Progress, BuildInv, RunInv
  <2>4. build' \in Profile
    <3>1. listing.entries \in Seq(Entry)
      BY PlanningAssumption
    <3> QED BY <2>1, <3>1, ParseVersionsType, Selected
  <2>5. Fetching(arrived', flight', build'.libraries)
    <3>1. build'.libraries \in Seq(LoaderLibrary)
      BY <2>4 DEF Profile
    <3> QED BY <2>1, <2>2, <2>3, <3>1, FetchingBegins
  <2>6. Asked(listing, wanted)' /\ build' # None
    BY <2>1 DEF Asked
  <2>7. BuildInv'
    BY <2>5, <2>6 DEF BuildInv
  <2>8. Progress' /\ RunInv'
    BY <1>0, <2>2, <2>3, <2>6 DEF Progress, RunInv, Pc
  <2>9. MergedInv'
    BY <2>2 DEF MergedInv
  <2>10. PlanInv'
    <3>1. PICK published \in BOOLEAN : plan = PlanFor(version, machine.env, published)
      BY <1>0, <2>2 DEF PlanInv
    <3>2. plan' = plan /\ version' = version /\ machine' = machine
      BY <2>2
    <3>3. plan' = PlanFor(version', machine'.env, published)
      BY <3>1, <3>2
    <3>4. version' \in Version /\ version'.client
      BY <1>0, <2>2 DEF PlanInv
    <3>5. plan' = IF Finished' /\ build' # None
                  THEN Merged(PlanFor(version', machine'.env, published), build',
                              InOrder(arrived', build'.libraries))
                  ELSE PlanFor(version', machine'.env, published)
      BY <2>2, <3>3
    <3> QED BY <3>4, <3>5 DEF PlanInv
  <2> QED BY <2>7, <2>8, <2>9, <2>10 DEF PlanningInv
<1>3. CASE Checksum
  <2>a. PICK n \in flight : \E outcome \in Checksums(build.libraries[n]) :
           /\ arrived' = Append(arrived, outcome)
           /\ flight' = (flight \ {n}) \cup
                Started(build.libraries, Len(arrived) + Cardinality(flight), Cardinality(flight) - 1)
    BY <1>3 DEF Checksum
  <2>1. PICK outcome \in Checksums(build.libraries[n]) :
           /\ arrived' = Append(arrived, outcome)
           /\ flight' = (flight \ {n}) \cup
                Started(build.libraries, Len(arrived) + Cardinality(flight), Cardinality(flight) - 1)
    BY <2>a
  <2>2. /\ pc = "checksums" /\ ~Finished /\ ~Finished'
        /\ UNCHANGED <<machine, pc, version, asked, build, plan, lock, run>>
    BY <1>3 DEF Checksum, Finished
  <2>3. build # None /\ build.libraries \in Seq(LoaderLibrary)
    BY <1>0, <2>2, BuildType DEF Progress
  <2>4. Fetching(arrived', flight', build'.libraries)
    <3>1. Fetching(arrived, flight, build.libraries)
      BY <1>0, <2>3 DEF BuildInv
    <3>2. Fetching(arrived', flight', build.libraries)
      BY <2>1, <2>3, <3>1, FetchingGoesOn
    <3> QED BY <2>2, <3>2
  <2>5. BuildInv'
    BY <1>0, <2>2, <2>3, <2>4 DEF BuildInv, Asked
  <2>6. Progress' /\ MergedInv' /\ PlanInv'
    BY <1>0, <2>2 DEF Progress, MergedInv, PlanInv
  <2>7. RunInv'
    BY <1>0, <2>2 DEF RunInv
  <2> QED BY <2>5, <2>6, <2>7 DEF PlanningInv
<1>4. CASE Apply
  <2>1. /\ pc = "checksums" /\ flight = {} /\ pc' = "install" /\ ~Finished
        /\ \A n \in DOMAIN arrived : arrived[n] # None /\ arrived[n].name # Malformed
        /\ plan' = Merged(plan, build, InOrder(arrived, build.libraries))
        /\ UNCHANGED <<machine, version, asked, build, flight, arrived, lock, run>>
    BY <1>4 DEF Apply, Finished
  <2>2. build # None /\ lock = None /\ run = None
    BY <1>0, <2>1 DEF Progress, RunInv
  <2>3. PlanInv'
    <3>1. PICK published \in BOOLEAN : plan = PlanFor(version, machine.env, published)
      BY <1>0, <2>1 DEF PlanInv
    <3>2. plan' = Merged(PlanFor(version', machine'.env, published), build',
                         InOrder(arrived', build'.libraries))
      BY <2>1, <3>1
    <3>3. /\ version' \in Version /\ version'.client
          /\ plan' = IF Finished' /\ build' # None
                     THEN Merged(PlanFor(version', machine'.env, published), build',
                                 InOrder(arrived', build'.libraries))
                     ELSE PlanFor(version', machine'.env, published)
      BY <1>0, <2>1, <2>2, <3>2 DEF PlanInv, Finished
    <3> QED BY <3>3 DEF PlanInv
  <2>4. MergedInv'
    <3>1. arrived \in Seq(LoaderLibrary \cup {None})
      BY <1>0, <2>2 DEF BuildInv, Fetching, Counted
    <3>2. DOMAIN arrived = 1..Len(arrived)
      BY <3>1
    <3> QED BY <2>1, <3>2 DEF MergedInv
  <2>5. BuildInv'
    BY <1>0, <2>1 DEF BuildInv, Asked
  <2>6. Progress' /\ RunInv'
    BY <1>0, <2>1, <2>2 DEF Progress, RunInv, Pc
  <2> QED BY <2>3, <2>4, <2>5, <2>6 DEF PlanningInv
<1>5. CASE Install
  <2>1. /\ pc = "install" /\ lock' = plan /\ pc' = "installed" /\ Finished /\ Finished'
        /\ UNCHANGED <<machine, version, asked, build, flight, arrived, plan, run>>
    BY <1>5 DEF Install, Finished
  <2>2. run = None
    BY <1>0, <2>1 DEF RunInv
  <2>3. PlanInv'
    BY <1>0, <2>1 DEF PlanInv
  <2>4. Progress' /\ MergedInv' /\ RunInv'
    BY <1>0, <2>1, <2>2 DEF Progress, MergedInv, RunInv, Pc
  <2>5. BuildInv'
    BY <1>0, <2>1 DEF BuildInv, Asked
  <2> QED BY <2>3, <2>4, <2>5 DEF PlanningInv
<1>6. CASE Fail
  <2>1. /\ pc # "idle" /\ pc # "installed" /\ pc' = "idle" /\ ~Finished'
        /\ version' = None /\ asked' = None /\ build' = None
        /\ flight' = {} /\ arrived' = <<>> /\ plan' = None
        /\ UNCHANGED <<machine, lock, run>>
    BY <1>6 DEF Fail, Finished
  <2>2. lock = None /\ run = None
    BY <1>0, <2>1 DEF RunInv
  <2> QED BY <1>0, <2>1, <2>2 DEF PlanningInv, Progress, PlanInv, BuildInv, MergedInv, RunInv, Pc
<1>7. CASE Launch
  <2>1. /\ pc = "installed"
        /\ UNCHANGED <<machine, pc, version, asked, build, flight, arrived, plan, lock>>
    BY <1>7 DEF Launch
  <2>2. Progress' /\ PlanInv' /\ MergedInv'
    BY <1>0, <2>1 DEF Progress, PlanInv, MergedInv, Finished
  <2>3. BuildInv'
    BY <1>0, <2>1 DEF BuildInv, Asked
  <2>4. ASSUME run'.code = "started" PROVE StartedFrom(lock)'
    <3>1. /\ SystemJava(lock.java.major) # 0
          /\ Missing(lock.arguments.jvm \o lock.arguments.game, Known) = {}
          /\ run' = [code |-> "started", java |-> SystemJava(lock.java.major),
                     command |-> Command(lock), classpath |-> Classpath(lock.artifacts)]
      BY <1>7, <2>4 DEF Launch, Refused
    <3>2. SystemJava(lock.java.major)' = SystemJava(lock.java.major)
      BY <2>1, SameJava
    <3>3. Command(lock)' = Command(lock) /\ Classpath(lock.artifacts)' = Classpath(lock.artifacts)
      BY <2>1
    <3>4. lock' = lock
      BY <2>1
    <3> QED BY <3>1, <3>2, <3>3, <3>4 DEF StartedFrom
  <2>5. RunInv'
    BY <1>0, <2>1, <2>4 DEF RunInv
  <2> QED BY <2>2, <2>3, <2>5 DEF PlanningInv
<1>8. CASE UNCHANGED vars
  <2>1. UNCHANGED <<machine, pc, version, asked, build, flight, arrived, plan, lock, run>>
    BY <1>8 DEF vars
  <2>2. Progress' /\ PlanInv' /\ MergedInv'
    BY <1>0, <2>1 DEF Progress, PlanInv, MergedInv, Finished
  <2>3. BuildInv'
    BY <1>0, <2>1 DEF BuildInv, Asked
  <2>4. ASSUME StartedFrom(lock) PROVE StartedFrom(lock)'
    <3>1. lock' = lock /\ run' = run
      BY <2>1
    <3>2. SystemJava(lock.java.major)' = SystemJava(lock.java.major)
      BY <2>1, SameJava
    <3> QED BY <2>4, <3>1, <3>2 DEF StartedFrom
  <2>5. RunInv'
    BY <1>0, <2>1, <2>4 DEF RunInv
  <2> QED BY <2>2, <2>3, <2>5 DEF PlanningInv
<1> QED BY <1>1, <1>2, <1>3, <1>4, <1>5, <1>6, <1>7, <1>8 DEF Next

\* It is an invariant.
LEMMA PlanningHolds == Spec => []PlanningInv
<1>1. PlanningInv /\ [Next]_vars => PlanningInv'
  BY StepPlanning
<1> QED BY <1>1, StartPlanning, PTL DEF Spec

------------------------------------------------------------------------------
(* Types *)

Sound == {library \in LoaderLibrary : library.name # Malformed}

\* Libraries that came back well are libraries.
LEMMA SoundSeq ==
    ASSUME NEW s \in Seq(Sound)
    PROVE  /\ s \in Seq(LoaderLibrary)
           /\ \A n \in 1..Len(s) : s[n] \in LoaderLibrary /\ s[n].name # Malformed
<1>1. \A n \in 1..Len(s) : s[n] \in Sound
  OBVIOUS
<1>2. s \in [1..Len(s) -> LoaderLibrary] /\ Len(s) \in Nat
  <2>1. s = [n \in 1..Len(s) |-> s[n]] /\ Len(s) \in Nat
    OBVIOUS
  <2> QED BY <1>1, <2>1 DEF Sound
<1>3. s \in Seq(LoaderLibrary)
  BY <1>2
<1> QED BY <1>1, <1>3 DEF Sound

\* Once a build is merged, each of its libraries has come back, once, with a digest.
LEMMA Gathered ==
    ASSUME PlanningInv, Finished, build # None
    PROVE  /\ build \in Profile /\ build.libraries \in Seq(LoaderLibrary)
           /\ arrived \in Seq(Sound) /\ Len(arrived) = Len(build.libraries)
           /\ InOrder(arrived, build.libraries) \in Seq(Sound)
           /\ \E source : Sources(source, arrived, {}, build.libraries, Len(build.libraries))
           /\ \E published \in BOOLEAN :
                plan = Merged(PlanFor(version, machine.env, published), build,
                              InOrder(arrived, build.libraries))
<1>1. build \in Profile /\ build.libraries \in Seq(LoaderLibrary)
  BY BuildType
<1>2. flight = {} /\ \A n \in 1..Len(arrived) : arrived[n] # None /\ arrived[n].name # Malformed
  BY DEF PlanningInv, MergedInv
<1>3. PICK started \in Nat : /\ Counted(arrived, flight, build.libraries, started)
                             /\ \E source : Sources(source, arrived, flight, build.libraries, started)
  BY DEF PlanningInv, BuildInv, Fetching
<1>4. Cardinality({}) = 0 /\ 0 < Concurrency
  BY PlanningAssumption, FS_EmptySet
<1>5. started = Len(build.libraries)
  BY <1>2, <1>3, <1>4 DEF Counted
<1>6. arrived \in Seq(LoaderLibrary \cup {None}) /\ Len(arrived) = started
  <2>1. arrived \in Seq(LoaderLibrary \cup {None}) /\ started = Len(arrived) + 0
    BY <1>2, <1>3, <1>4 DEF Counted
  <2>2. Len(arrived) \in Nat
    BY <2>1, LenProperties
  <2> QED BY <2>1, <2>2
<1>7. arrived \in Seq(Sound)
  <2>1. \A n \in 1..Len(arrived) : arrived[n] \in Sound
    BY <1>2, <1>6 DEF Sound
  <2>2. arrived = [n \in 1..Len(arrived) |-> arrived[n]] /\ Len(arrived) \in Nat
    BY <1>6
  <2>3. arrived \in [1..Len(arrived) -> Sound]
    BY <2>1, <2>2
  <2> QED BY <2>2, <2>3
<1>8. InOrder(arrived, build.libraries) \in Seq(Sound)
  BY <1>1, <1>7, InOrderType
<1>9. \E published \in BOOLEAN :
        plan = Merged(PlanFor(version, machine.env, published), build,
                      InOrder(arrived, build.libraries))
  BY DEF PlanningInv, PlanInv, Finished
<1> QED BY <1>1, <1>2, <1>3, <1>5, <1>6, <1>7, <1>8, <1>9

\* The plan is one, from the moment there is one.
LEMMA PlanTyped ==
    ASSUME PlanningInv, pc # "idle"
    PROVE  plan \in Plan
<1>1. version \in Version
  BY DEF PlanningInv, PlanInv
<1>2. CASE Finished /\ build # None
  <2>1. PICK published \in BOOLEAN :
          plan = Merged(PlanFor(version, machine.env, published), build,
                        InOrder(arrived, build.libraries))
    BY <1>2, Gathered
  <2>2. PlanFor(version, machine.env, published) \in Plan /\ build \in Profile
    BY <1>1, <1>2, PlanForType, Gathered
  <2> DEFINE libraries == InOrder(arrived, build.libraries)
  <2>3. /\ libraries \in Seq(LoaderLibrary)
        /\ \A n \in 1..Len(libraries) : libraries[n].name # Malformed
    <3>1. libraries \in Seq(Sound)
      BY <1>2, Gathered
    <3> QED BY <3>1, SoundSeq
  <2> HIDE DEF libraries
  <2>4. Merged(PlanFor(version, machine.env, published), build, libraries) \in Plan
    BY <2>2, <2>3, MergedType
  <2> QED BY <2>1, <2>4 DEF libraries
<1>3. CASE ~(Finished /\ build # None)
  <2>1. PICK published \in BOOLEAN : plan = PlanFor(version, machine.env, published)
    BY <1>3 DEF PlanningInv, PlanInv
  <2> QED BY <1>1, <2>1, PlanForType
<1> QED BY <1>2, <1>3

\* The types follow from the invariant.
LEMMA TypesFollow == PlanningInv => TypeOK
<1> SUFFICES ASSUME PlanningInv PROVE TypeOK
  OBVIOUS
<1>1. machine \in Machine /\ version \in Version \cup {None} /\ pc \in Pc
  BY DEF PlanningInv, Progress, PlanInv
<1>2. ASSUME pc = "checksums"
      PROVE  /\ flight \subseteq DOMAIN build.libraries /\ Cardinality(flight) <= Concurrency
             /\ Len(arrived) + Cardinality(flight) <= Len(build.libraries)
             /\ flight = {} => Len(arrived) = Len(build.libraries)
             /\ \A n \in DOMAIN arrived : arrived[n] \in LoaderLibrary \cup {None}
  <2>1. build # None
    BY <1>2 DEF PlanningInv, Progress
  <2>2. PICK started \in Nat : Counted(arrived, flight, build.libraries, started)
    BY <2>1 DEF PlanningInv, BuildInv, Fetching
  <2>3. build.libraries \in Seq(LoaderLibrary)
    BY <2>1, BuildType
  <2>4. Len(build.libraries) \in Nat /\ DOMAIN build.libraries = 1..Len(build.libraries)
    BY <2>3
  <2>5. /\ arrived \in Seq(LoaderLibrary \cup {None}) /\ flight \subseteq 1..started
        /\ started = Len(arrived) + Cardinality(flight) /\ started <= Len(build.libraries)
        /\ Cardinality(flight) <= Concurrency
        /\ Cardinality(flight) < Concurrency => started = Len(build.libraries)
    BY <2>2 DEF Counted
  <2>6. flight \subseteq DOMAIN build.libraries
    BY <2>4, <2>5
  <2>7. ASSUME flight = {} PROVE Len(arrived) = Len(build.libraries)
    <3>1. Cardinality({}) = 0 /\ 0 < Concurrency
      BY PlanningAssumption, FS_EmptySet
    <3>2. Len(arrived) \in Nat
      BY <2>5, LenProperties
    <3> QED BY <2>5, <2>7, <3>1, <3>2
  <2>8. \A n \in DOMAIN arrived : arrived[n] \in LoaderLibrary \cup {None}
    BY <2>5
  <2> QED BY <2>5, <2>6, <2>7, <2>8
<1>3. plan # None => plan \in Plan
  BY PlanTyped DEF PlanningInv, Progress
<1>4. plan # None => \A n \in DOMAIN plan.artifacts :
                        plan.artifacts[n].role \in Role /\ plan.artifacts[n].sha1 \in Digest
  <2> SUFFICES ASSUME plan # None, NEW n \in DOMAIN plan.artifacts
               PROVE  plan.artifacts[n].role \in Role /\ plan.artifacts[n].sha1 \in Digest
    OBVIOUS
  <2>1. plan.artifacts \in Seq(PlannedArtifact)
    BY <1>3 DEF Plan
  <2>2. plan.artifacts[n] \in PlannedArtifact
    BY <2>1
  <2> QED BY <2>2 DEF PlannedArtifact
<1>5. (lock # None) = (pc = "installed")
  <2>1. pc = "installed" => plan # None
    BY PlanTyped, PlanningAssumption
  <2> QED BY <2>1 DEF PlanningInv, RunInv
<1>6. run # None => lock # None
  BY <1>5 DEF PlanningInv, RunInv
<1> QED BY <1>1, <1>2, <1>4, <1>5, <1>6 DEF TypeOK

\* What is planned has its types, and as many digests are fetched at once as there is
\* room for, none of them twice and none too few.
THEOREM PlanningTypes == Spec => []TypeOK
  BY TypesFollow, PlanningHolds, PTL

------------------------------------------------------------------------------
(* What stays of a plan when a build is merged *)

\* Those of a sequence that are in a set.
ChosenIn(c, G) == Chosen(c, {n \in DOMAIN c : c[n] \in G})

\* One more at the end.
LEMMA ChosenAppend ==
    ASSUME NEW S, NEW c \in Seq(S), NEW x \in S, NEW G
    PROVE  ChosenIn(Append(c, x), G) =
             IF x \in G THEN Append(ChosenIn(c, G), x) ELSE ChosenIn(c, G)
<1> DEFINE one == <<x>>
           others == {n \in {1} : x \in G}
           positions == {n \in DOMAIN Append(c, x) : Append(c, x)[n] \in G}
           before == {n \in DOMAIN c : c[n] \in G}
<1>0. ASSUME NEW t \in Seq(S), NEW p, NEW q, \A n \in 1..Len(t) : n \in q <=> Len(c) + n \in p
      PROVE  Chosen(c \o t, p) = Chosen(c, p) \o Chosen(t, q)
  BY <1>0, ChosenConcat
<1>1. /\ one \in Seq(S) /\ Len(one) = 1 /\ \A n \in 1..Len(one) : n = 1
      /\ Append(c, x) = c \o one /\ Len(c) \in Nat /\ DOMAIN c = 1..Len(c)
  <2>1. Append(c, x) \in Seq(S) /\ c \o one \in Seq(S) /\ Len(Append(c, x)) = Len(c \o one)
    BY AppendProperties, ConcatProperties
  <2>2. \A i \in 1..Len(Append(c, x)) : Append(c, x)[i] = (c \o one)[i]
    OBVIOUS
  <2>3. Append(c, x) = c \o one
    BY <2>1, <2>2, SeqEqual
  <2> QED BY <2>3
<1>2. /\ DOMAIN Append(c, x) = 1..Len(c) + 1 /\ Append(c, x)[Len(c) + 1] = x
      /\ \A n \in 1..Len(c) : n \in 1..Len(c) + 1 /\ Append(c, x)[n] = c[n]
      /\ Len(c) + 1 \in 1..Len(c) + 1
  BY AppendProperties
<1>3. \A n \in 1..Len(one) : n \in others <=> Len(c) + n \in positions
  BY <1>1, <1>2
<1>4. \A n \in 1..Len(c) : n \in positions <=> n \in before
  BY <1>1, <1>2
<1>5. Chosen(c, before) \in Seq(S)
  BY ChosenType
<1>6. CASE x \in G
  <2>1. \A n \in 1..Len(one) : n \in others
    BY <1>1, <1>6
  <2> HIDE DEF one, others, before, positions
  <2>2. Chosen(c \o one, positions) = Chosen(c, positions) \o Chosen(one, others)
    BY <1>0, <1>1, <1>3
  <2>3. Chosen(c, positions) = Chosen(c, before)
    BY <1>4, ChosenSame
  <2>4. Chosen(one, others) = one
    BY <1>1, <2>1, ChosenAll
  <2>5. Chosen(c, before) \o one = Append(Chosen(c, before), x)
    <3>1. ASSUME NEW d \in Seq(S) PROVE d \o one = Append(d, x)
      <4>1. Append(d, x) \in Seq(S) /\ d \o one \in Seq(S) /\ Len(Append(d, x)) = Len(d \o one)
        BY AppendProperties, ConcatProperties DEF one
      <4>2. \A i \in 1..Len(Append(d, x)) : Append(d, x)[i] = (d \o one)[i]
        BY DEF one
      <4> QED BY <4>1, <4>2, SeqEqual
    <3> QED BY <1>5, <3>1
  <2> QED BY <1>1, <1>6, <2>2, <2>3, <2>4, <2>5 DEF ChosenIn, before, positions
<1>7. CASE x \notin G
  <2>1. \A n \in 1..Len(one) : n \notin others
    BY <1>7
  <2> HIDE DEF one, others, before, positions
  <2>2. Chosen(c \o one, positions) = Chosen(c, positions) \o Chosen(one, others)
    BY <1>0, <1>1, <1>3
  <2>3. Chosen(c, positions) = Chosen(c, before)
    BY <1>4, ChosenSame
  <2>4. Chosen(one, others) = <<>>
    BY <1>1, <2>1, ChosenNone
  <2>5. Chosen(c, before) \o <<>> = Chosen(c, before)
    BY <1>5, ConcatEmptySeq
  <2> QED BY <1>1, <1>7, <2>2, <2>3, <2>4, <2>5 DEF ChosenIn, before, positions
<1> QED BY <1>6, <1>7

\* Choosing by position and then by what they are is choosing at once.
LEMMA ChosenTwice ==
    ASSUME NEW S, NEW s \in Seq(S), NEW positions, NEW G,
           NEW c, c = Chosen(s, positions)
    PROVE  ChosenIn(c, G) = Chosen(s, {n \in positions : s[n] \in G})
<1> DEFINE N == Len(s)
           both == {n \in positions : s[n] \in G}
<1>0. ASSUME NEW d \in Seq(S), NEW x \in S
      PROVE  ChosenIn(Append(d, x), G) = IF x \in G THEN Append(ChosenIn(d, G), x)
                                         ELSE ChosenIn(d, G)
  BY ChosenAppend
<1>1. N \in Nat /\ \A n \in 1..N : s[n] \in S
  OBVIOUS
<1>2. PICK f : ChosenBy(f, S, s, positions)
  BY ChosenSteps
<1>3. PICK g : ChosenBy(g, S, s, both)
  BY ChosenSteps
<1> DEFINE T == {m \in 0..N : ChosenIn(f[m], G) = g[m]}
<1>4. 0 \in T
  <2>1. f[0] = <<>> /\ g[0] = <<>>
    BY <1>2, <1>3 DEF ChosenBy
  <2>2. f[0] \in Seq(S) /\ Len(f[0]) = 0
    BY <1>1, <1>2, <2>1 DEF ChosenBy
  <2>3. ChosenIn(f[0], G) = <<>>
    <3> DEFINE none == {n \in DOMAIN f[0] : f[0][n] \in G}
    <3>1. \A n \in 1..Len(f[0]) : n \notin none
      BY <2>2
    <3> HIDE DEF none
    <3>2. Chosen(f[0], none) = <<>>
      BY <2>2, <3>1, ChosenNone
    <3> QED BY <3>2 DEF ChosenIn, none
  <2> HIDE DEF N
  <2> QED BY <1>1, <2>1, <2>3
<1>5. ASSUME NEW m \in 0..N, m + 1 \in 0..N, m \in T PROVE m + 1 \in T
  <2>1. f[m] \in Seq(S) /\ m + 1 \in 1..N /\ s[m + 1] \in S
    BY <1>1, <1>2, <1>5 DEF ChosenBy
  <2>2. f[m + 1] = IF m + 1 \in positions THEN Append(f[m], s[m + 1]) ELSE f[m]
    BY <1>2, <1>5 DEF ChosenBy
  <2>3. g[m + 1] = IF m + 1 \in both THEN Append(g[m], s[m + 1]) ELSE g[m]
    BY <1>3, <1>5 DEF ChosenBy
  <2>4. ChosenIn(f[m], G) = g[m]
    BY <1>5
  <2>5. ChosenIn(Append(f[m], s[m + 1]), G) = IF s[m + 1] \in G THEN Append(ChosenIn(f[m], G), s[m + 1])
                                       ELSE ChosenIn(f[m], G)
    BY <1>0, <2>1
  <2>6. m + 1 \in both <=> m + 1 \in positions /\ s[m + 1] \in G
    OBVIOUS
  <2> HIDE DEF both, N
  <2>7. ChosenIn(f[m + 1], G) = g[m + 1]
    BY <2>2, <2>3, <2>4, <2>5, <2>6
  <2> QED BY <1>5, <2>7
<1>6. N \in T
  <2>1. \A m \in 0..N : m + 1 \in 0..N /\ m \in T => m + 1 \in T
    BY <1>5
  <2> HIDE DEF T, N
  <2>2. \A m \in 0..N : m \in T
    BY <1>1, <1>4, <2>1, UpTo
  <2> QED BY <1>1, <2>2
<1>7. c = f[N] /\ Chosen(s, both) = g[N] /\ ChosenIn(f[N], G) = g[N]
  BY <1>2, <1>3, <1>6 DEF ChosenBy
<1> HIDE DEF both, N
<1>8. ChosenIn(c, G) = Chosen(s, both)
  BY <1>7
<1> QED BY <1>8 DEF both

\* To choose a role is to choose what is in a set.
LEMMA OfRoleIn ==
    ASSUME NEW s \in Seq(PlannedArtifact), NEW role
    PROVE  OfRole(s, role) = ChosenIn(s, {a \in PlannedArtifact : a.role = role})
<1> DEFINE G == {a \in PlannedArtifact : a.role = role}
           here == {n \in DOMAIN s : s[n].role = role}
           there == {n \in DOMAIN s : s[n] \in G}
<1>1. \A n \in 1..Len(s) : n \in here <=> n \in there
  OBVIOUS
<1> HIDE DEF here, there, G
<1>2. Chosen(s, here) = Chosen(s, there)
  BY <1>1, ChosenSame
<1> QED BY <1>2 DEF OfRole, ChosenIn, here, there, G

\* Whatever is no library stays; of the libraries those that are to.
LEMMA RetainedRole ==
    ASSUME NEW artifacts \in Seq(PlannedArtifact), NEW names, NEW role
    PROVE  /\ OfRole(Retained(artifacts, names), role) =
                Chosen(artifacts, {n \in Staying(artifacts, names) : artifacts[n].role = role})
           /\ role # "library" => OfRole(Retained(artifacts, names), role) = OfRole(artifacts, role)
<1> DEFINE G == {a \in PlannedArtifact : a.role = role}
           stay == Staying(artifacts, names)
           kept == Chosen(artifacts, stay)
           both == {n \in stay : artifacts[n] \in G}
           those == {n \in stay : artifacts[n].role = role}
           own == {n \in DOMAIN artifacts : artifacts[n].role = role}
<1>1. Retained(artifacts, names) = kept /\ kept \in Seq(PlannedArtifact)
  BY RetainedIs, ChosenType
<1>2. \A n \in stay : n \in 1..Len(artifacts)
  BY DEF Staying
<1>3. \A n \in 1..Len(artifacts) : n \in both <=> n \in those
  OBVIOUS
<1>4. role # "library" => \A n \in 1..Len(artifacts) : n \in those <=> n \in own
  BY DEF Staying
<1> HIDE DEF kept, G, stay
<1>5. OfRole(kept, role) = ChosenIn(kept, G)
  BY <1>1, OfRoleIn DEF G
<1>6. ChosenIn(kept, G) = Chosen(artifacts, both)
  BY ChosenTwice DEF kept
<1> HIDE DEF both, those, own
<1>7. Chosen(artifacts, both) = Chosen(artifacts, those)
  BY <1>3, ChosenSame
<1>8. role # "library" => Chosen(artifacts, those) = Chosen(artifacts, own)
  BY <1>4, ChosenSame
<1>9. Chosen(artifacts, own) = OfRole(artifacts, role)
  BY DEF OfRole, own
<1> QED BY <1>1, <1>5, <1>6, <1>7, <1>8, <1>9 DEF those, stay

\* One client, its libraries and its natives.
LEMMA ArtifactsRoles ==
    ASSUME NEW v \in Version, NEW env
    PROVE  /\ OfRole(Artifacts(v, env), "client") = <<Client>>
           /\ OfRole(Artifacts(v, env), "library") = Planned(v, env).jars
           /\ OfRole(Artifacts(v, env), "native") = Planned(v, env).archives
<1> DEFINE a == <<Client>>
           b == Planned(v, env).jars
           c == Planned(v, env).archives
           d == If(v.logging, Artifact("logging", "logging", "genuine"))
           e == If(v.assetIndex, Artifact("indexes", "index", "genuine"))
<1>1. /\ a \in Seq(PlannedArtifact) /\ b \in Seq(PlannedArtifact) /\ c \in Seq(PlannedArtifact)
      /\ d \in Seq(PlannedArtifact) /\ e \in Seq(PlannedArtifact)
  BY PlannedType
<1>2. \A n \in 1..Len(a) : a[n].role = "client"
  BY DEF Client, Artifact
<1>3. \A n \in 1..Len(b) : b[n].role = "library"
  <2>1. Len(b) \in Nat /\ DOMAIN b = 1..Len(b)
    BY <1>1
  <2>2. \A n \in DOMAIN b : b[n].role = "library"
    BY DEF Planned, Artifact
  <2> HIDE DEF b
  <2> QED BY <2>1, <2>2
<1>4. \A n \in 1..Len(c) : c[n].role = "native"
  <2>1. Len(c) \in Nat /\ DOMAIN c = 1..Len(c)
    BY <1>1
  <2>2. \A n \in DOMAIN c : c[n].role = "native"
    BY DEF Planned, Artifact
  <2> HIDE DEF c
  <2> QED BY <2>1, <2>2
<1>5. \A n \in 1..Len(d) : d[n].role = "logging"
  BY DEF If, Artifact
<1>6. \A n \in 1..Len(e) : e[n].role = "index"
  BY DEF If, Artifact
<1>7. Artifacts(v, env) = a \o b \o c \o d \o e
  BY DEF Artifacts
<1> HIDE DEF a, b, c, d, e
<1> DEFINE none == <<>>
<1>8. ASSUME NEW s \in Seq(PlannedArtifact)
      PROVE  s \o none = s /\ none \o s = s
  BY ConcatEmptySeq
<1>9. none \in Seq(PlannedArtifact) /\ none \o none = none
  BY <1>8
<1> HIDE DEF none
<1> DEFINE ab == a \o b
           abc == ab \o c
           abcd == abc \o d
<1>10. ab \in Seq(PlannedArtifact) /\ abc \in Seq(PlannedArtifact) /\ abcd \in Seq(PlannedArtifact)
  BY <1>1, ConcatProperties
<1>11. ASSUME NEW role
       PROVE  OfRole(Artifacts(v, env), role) =
                OfRole(a, role) \o OfRole(b, role) \o OfRole(c, role)
                \o OfRole(d, role) \o OfRole(e, role)
  <2>1. a \in Seq(PlannedArtifact) /\ b \in Seq(PlannedArtifact)
    BY <1>1
  <2>2. OfRole(ab, role) = OfRole(a, role) \o OfRole(b, role)
    BY <2>1, OfRoleConcat
  <2> HIDE DEF ab
  <2>3. ab \in Seq(PlannedArtifact) /\ c \in Seq(PlannedArtifact)
    BY <1>1, <1>10
  <2>4. OfRole(abc, role) = OfRole(ab, role) \o OfRole(c, role)
    BY <2>3, OfRoleConcat
  <2> HIDE DEF abc
  <2>5. abc \in Seq(PlannedArtifact) /\ d \in Seq(PlannedArtifact)
    BY <1>1, <1>10
  <2>6. OfRole(abcd, role) = OfRole(abc, role) \o OfRole(d, role)
    BY <2>5, OfRoleConcat
  <2> HIDE DEF abcd
  <2>7. abcd \in Seq(PlannedArtifact) /\ e \in Seq(PlannedArtifact)
    BY <1>1, <1>10
  <2>8. OfRole(abcd \o e, role) = OfRole(abcd, role) \o OfRole(e, role)
    BY <2>7, OfRoleConcat
  <2> QED BY <1>7, <2>2, <2>4, <2>6, <2>8 DEF ab, abc, abcd
<1>12. OfRole(Artifacts(v, env), "client") = a
  <2>1. OfRole(a, "client") = a
    BY <1>1, <1>2, OfRoleAll
  <2>2. /\ OfRole(b, "client") = none /\ OfRole(c, "client") = none
        /\ OfRole(d, "client") = none /\ OfRole(e, "client") = none
    BY <1>1, <1>3, <1>4, <1>5, <1>6, OfRoleNone DEF none
  <2>3. OfRole(Artifacts(v, env), "client") = a \o none \o none \o none \o none
    BY <1>11, <2>1, <2>2
  <2>4. a \o none \o none \o none \o none = a
    <3>1. a \in Seq(PlannedArtifact)
      BY <1>1
    <3> QED BY <1>8, <1>9, <3>1
  <2> QED BY <2>3, <2>4
<1>13. OfRole(Artifacts(v, env), "library") = b
  <2>1. OfRole(b, "library") = b
    BY <1>1, <1>3, OfRoleAll
  <2>2. /\ OfRole(a, "library") = none /\ OfRole(c, "library") = none
        /\ OfRole(d, "library") = none /\ OfRole(e, "library") = none
    BY <1>1, <1>2, <1>4, <1>5, <1>6, OfRoleNone DEF none
  <2>3. OfRole(Artifacts(v, env), "library") = none \o b \o none \o none \o none
    BY <1>11, <2>1, <2>2
  <2>4. none \o b \o none \o none \o none = b
    <3>1. b \in Seq(PlannedArtifact)
      BY <1>1
    <3> QED BY <1>8, <1>9, <3>1
  <2> QED BY <2>3, <2>4
<1>14. OfRole(Artifacts(v, env), "native") = c
  <2>1. OfRole(c, "native") = c
    BY <1>1, <1>4, OfRoleAll
  <2>2. /\ OfRole(a, "native") = none /\ OfRole(b, "native") = none
        /\ OfRole(d, "native") = none /\ OfRole(e, "native") = none
    BY <1>1, <1>2, <1>3, <1>5, <1>6, OfRoleNone DEF none
  <2>3. OfRole(Artifacts(v, env), "native") = none \o none \o c \o none \o none
    BY <1>11, <2>1, <2>2
  <2>4. none \o none \o c \o none \o none = c
    <3>1. c \in Seq(PlannedArtifact)
      BY <1>1
    <3> QED BY <1>8, <1>9, <3>1
  <2> QED BY <2>3, <2>4
<1> QED BY <1>12, <1>13, <1>14 DEF a, b, c

------------------------------------------------------------------------------
(* What is launched *)

\* The libraries that are merged, and what the plan is made of then.
LEMMA Merging ==
    ASSUME PlanningInv, Finished, build # None,
           NEW libraries, libraries = InOrder(arrived, build.libraries)
    PROVE  /\ libraries \in Seq(LoaderLibrary) /\ version \in Version
           /\ \A n \in 1..Len(libraries) : libraries[n].name # Malformed
           /\ OfRole(plan.artifacts, "library") =
                OfBuild(libraries)
                \o OfRole(Retained(Artifacts(version, machine.env), Names(libraries)), "library")
           /\ \A role : role # "library" =>
                OfRole(plan.artifacts, role) = OfRole(Artifacts(version, machine.env), role)
           /\ \A n \in 1..Len(libraries) :
                \E k \in 1..Len(plan.artifacts) : plan.artifacts[k] = OfBuild(libraries)[n]
<1>1. PICK published \in BOOLEAN :
        plan = Merged(PlanFor(version, machine.env, published), build, libraries)
  BY Gathered
<1> DEFINE p == PlanFor(version, machine.env, published)
           kept == Retained(p.artifacts, Names(libraries))
           all == Merged(p, build, libraries).artifacts
<1>2. version \in Version
  BY DEF PlanningInv, PlanInv, Finished
<1>3. /\ libraries \in Seq(LoaderLibrary) /\ build \in Profile
      /\ \A n \in 1..Len(libraries) : libraries[n].name # Malformed
  BY Gathered, SoundSeq
<1>4. p \in Plan /\ p.artifacts = Artifacts(version, machine.env)
  BY <1>2, PlanForType, PlanForIs
<1>5. Artifacts(version, machine.env) \in Seq(PlannedArtifact)
  BY <1>2, ArtifactsType
<1>6. plan.artifacts = all
  BY <1>1
<1> HIDE DEF p
<1>7. /\ OfRole(all, "library") = OfBuild(libraries) \o OfRole(kept, "library")
      /\ \A role : role # "library" => OfRole(all, role) = OfRole(kept, role)
      /\ \A n \in 1..Len(libraries) : \E k \in 1..Len(all) : all[k] = OfBuild(libraries)[n]
  <2>1. p \in Plan /\ build \in Profile /\ libraries \in Seq(LoaderLibrary)
    BY <1>3, <1>4
  <2>2. \A n \in 1..Len(libraries) : libraries[n].name # Malformed
    BY <1>3
  <2>3. MergedParts(all, kept, libraries)
    BY <2>1, <2>2, MergedArtifacts
  <2> HIDE DEF kept, all
  <2> QED BY <2>3 DEF MergedParts
<1> HIDE DEF all
<1>8. \A role : role # "library" => OfRole(kept, role) = OfRole(Artifacts(version, machine.env), role)
  <2> DEFINE arts == Artifacts(version, machine.env)
             names == Names(libraries)
  <2>1. kept = Retained(arts, names) /\ arts \in Seq(PlannedArtifact)
    BY <1>4, <1>5
  <2> HIDE DEF arts, kept, names
  <2>2. \A role : role # "library" => OfRole(Retained(arts, names), role) = OfRole(arts, role)
    BY <2>1, RetainedRole
  <2> QED BY <2>1, <2>2 DEF arts
<1> QED BY <1>2, <1>3, <1>4, <1>6, <1>7, <1>8

\* Without a build the plan is that of the version.
LEMMA Unmerged ==
    ASSUME PlanningInv, Finished, build = None
    PROVE  version \in Version /\ plan.artifacts = Artifacts(version, machine.env)
<1>1. version \in Version
  BY DEF PlanningInv, PlanInv, Finished
<1>2. PICK published \in BOOLEAN : plan = PlanFor(version, machine.env, published)
  BY DEF PlanningInv, PlanInv, Finished
<1> QED BY <1>1, <1>2, PlanForIs

\* There is one client, and the natives of the version.
LEMMA OneClient ==
    ASSUME PlanningInv, Finished
    PROVE  /\ OfRole(plan.artifacts, "client") = <<Client>>
           /\ OfRole(plan.artifacts, "native") = Planned(version, machine.env).archives
<1>1. CASE build = None
  BY <1>1, Unmerged, ArtifactsRoles
<1>2. CASE build # None
  <2> DEFINE libraries == InOrder(arrived, build.libraries)
  <2>1. /\ version \in Version
        /\ \A role : role # "library" =>
             OfRole(plan.artifacts, role) = OfRole(Artifacts(version, machine.env), role)
    BY <1>2, Merging
  <2> QED BY <2>1, ArtifactsRoles
<1> QED BY <1>1, <1>2

\* The plan's Java suits the version and the build.
LEMMA JavaSuits ==
    ASSUME PlanningInv, Finished
    PROVE  /\ plan.java.major \in Nat
           /\ version.java # None => version.java.major \in Nat /\ plan.java.major >= version.java.major
           /\ build # None => build.minJava \in Nat /\ plan.java.major >= build.minJava
<1>1. version \in Version
  BY DEF PlanningInv, PlanInv, Finished
<1>2. ASSUME NEW published
      PROVE  LET p == PlanFor(version, machine.env, published) IN
             /\ p \in Plan /\ p.java.major \in Nat
             /\ version.java # None => p.java.major = version.java.major
  <2>1. PlanFor(version, machine.env, published) \in Plan
    BY <1>1, PlanForType
  <2>2. PlanFor(version, machine.env, published).java.major =
          IF version.java = None THEN 8 ELSE version.java.major
    BY PlanForIs DEF PlanJava
  <2>3. PlanFor(version, machine.env, published).java.major \in Nat
    BY <2>1 DEF Plan
  <2> QED BY <2>1, <2>2, <2>3
<1>3. CASE build = None
  <2>1. PICK published \in BOOLEAN : plan = PlanFor(version, machine.env, published)
    BY <1>3 DEF PlanningInv, PlanInv, Finished
  <2>2. plan.java.major \in Nat /\ (version.java # None => plan.java.major = version.java.major)
    BY <1>2, <2>1
  <2> QED BY <1>3, <2>2
<1>4. CASE build # None
  <2> DEFINE libraries == InOrder(arrived, build.libraries)
  <2>1. PICK published \in BOOLEAN :
          plan = Merged(PlanFor(version, machine.env, published), build, libraries)
    BY <1>4, Gathered
  <2> DEFINE p == PlanFor(version, machine.env, published)
  <2>2. libraries \in Seq(LoaderLibrary) /\ build \in Profile
    BY <1>4, Gathered, SoundSeq
  <2>3. p \in Plan /\ p.java.major \in Nat /\ (version.java # None => p.java.major = version.java.major)
    BY <1>2
  <2> HIDE DEF p, libraries
  <2>4. Merged(p, build, libraries) =
          [artifacts |-> Merged(p, build, libraries).artifacts,
           java |-> [component |-> p.java.component, source |-> p.java.source,
                     major |-> LaterJava(p.java.major, build.minJava)],
           arguments |-> p.arguments, mainClass |-> build.mainClass,
           loader |-> build.version]
    BY <2>2, <2>3, MergedIs
  <2>5. plan.java.major = LaterJava(p.java.major, build.minJava)
    <3>1. Merged(p, build, libraries).java.major = LaterJava(p.java.major, build.minJava)
      BY <2>4
    <3> QED BY <2>1, <3>1 DEF p
  <2>6. build.minJava \in Nat
    BY <2>2 DEF Profile
  <2>7. \A a, b \in Nat : LaterJava(a, b) \in Nat /\ LaterJava(a, b) >= a /\ LaterJava(a, b) >= b
    BY DEF LaterJava
  <2> QED BY <2>3, <2>5, <2>6, <2>7
<1> QED BY <1>3, <1>4

\* The major version that is read is a number.
LEMMA JavaMajorType ==
    ASSUME NEW reported \in Seq(Nat)
    PROVE  JavaMajor(reported) \in Nat
<1>1. Len(reported) \in Nat /\ \A n \in 1..Len(reported) : reported[n] \in Nat
  OBVIOUS
<1>2. Len(reported) = 0 => reported = <<>>
  BY EmptySeq
<1>3. \A n \in Nat : (n # 0 => 1 \in 1..n) /\ (n # 0 /\ n # 1 => 2 \in 1..n)
  OBVIOUS
<1>4. /\ Len(reported) # 0 => 1 \in 1..Len(reported)
      /\ Len(reported) # 0 /\ Len(reported) # 1 => 2 \in 1..Len(reported)
  BY <1>1, <1>3
<1> QED BY <1>1, <1>2, <1>4 DEF JavaMajor

\* A Java that is found is recent enough.
LEMMA SystemJavaSuits ==
    ASSUME machine \in Machine, NEW required, SystemJava(required) # 0
    PROVE  SystemJava(required) \in Nat /\ SystemJava(required) >= required
<1> DEFINE majors == [n \in DOMAIN machine.java |-> JavaMajor(machine.java[n])]
           good == {n \in 1..Len(majors) : majors[n] > 0 /\ majors[n] >= required}
           n == SelectInSeq(majors, LAMBDA major : major > 0 /\ major >= required)
<1>1. SystemJava(required) = IF n = 0 THEN 0 ELSE majors[n]
  BY DEF SystemJava
<1>2. n = IF good # {} THEN Min(good) ELSE 0
  BY DEF SelectInSeq
<1>3. majors \in Seq(Nat)
  <2>1. machine.java \in Seq(Seq(Nat))
    BY PlanningAssumption
  <2>2. Len(machine.java) \in Nat /\ majors \in [1..Len(machine.java) -> Nat]
    BY <2>1, JavaMajorType
  <2> HIDE DEF majors
  <2> QED BY <2>2
<1>4. good # {} => Min(good) \in good
  <2>1. good \in SUBSET (1..Len(majors)) /\ Len(majors) \in Nat
    BY <1>3
  <2> HIDE DEF good, majors
  <2> QED BY <2>1, MinIn
<1>5. n # 0 => n \in good
  <2> HIDE DEF n, good
  <2> QED BY <1>2, <1>4
<1> HIDE DEF n, majors
<1> QED BY <1>1, <1>3, <1>5

\* Words with nothing left to fill in.
Text == STRING \cup {"-Xms512M", "-Xmx4096M", "-Dlog4j.configurationFile=", "path"}

CleanWord == Seq({"text", "value"} \X Text)

\* If each placeholder is known, none is left.
LEMMA SubstituteClean ==
    ASSUME NEW arguments \in Seq(Seq(Piece)), NEW known,
           \A n \in 1..Len(arguments) : \A k \in 1..Len(arguments[n]) :
             arguments[n][k][1] = "hole" => arguments[n][k][2] \in known
    PROVE  Substitute(arguments, known) \in Seq(CleanWord)
<1> DEFINE Filled(piece) == IF piece[1] = "hole" /\ piece[2] \in known
                            THEN <<"value", piece[2]>> ELSE piece
           Word(n) == [k \in DOMAIN arguments[n] |-> Filled(arguments[n][k])]
<1>1. Substitute(arguments, known) = [n \in DOMAIN arguments |-> Word(n)]
  BY DEF Substitute
<1>2. DOMAIN arguments = 1..Len(arguments) /\ Len(arguments) \in Nat
  OBVIOUS
<1>3. ASSUME NEW n \in 1..Len(arguments) PROVE Word(n) \in CleanWord
  <2> DEFINE w == arguments[n]
  <2>1. w \in Seq(Piece)
    OBVIOUS
  <2>2. \A k \in 1..Len(w) : w[k][1] = "hole" => w[k][2] \in known
    OBVIOUS
  <2> HIDE DEF w
  <2>3. DOMAIN w = 1..Len(w) /\ Len(w) \in Nat
    BY <2>1
  <2>4. ASSUME NEW k \in 1..Len(w) PROVE Filled(w[k]) \in {"text", "value"} \X Text
    <3>1. w[k] \in Piece
      BY <2>1
    <3>2. /\ w[k] = <<w[k][1], w[k][2]>> /\ w[k][2] \in STRING
          /\ w[k][1] \in {"text", "hole", "value"}
      BY <3>1 DEF Piece
    <3>3. w[k][2] \in Text
      BY <3>2 DEF Text
    <3>4. CASE w[k][1] = "hole"
      <4>1. w[k][2] \in known
        BY <2>2, <3>4
      <4>2. \A p : p[1] = "hole" /\ p[2] \in known => Filled(p) = <<"value", p[2]>>
        OBVIOUS
      <4> HIDE DEF Filled
      <4>3. Filled(w[k]) = <<"value", w[k][2]>>
        BY <3>4, <4>1, <4>2
      <4> QED BY <3>3, <4>3
    <3>5. CASE w[k][1] # "hole"
      <4>1. Filled(w[k]) = w[k] /\ w[k][1] \in {"text", "value"}
        BY <3>2, <3>5
      <4> QED BY <3>2, <3>3, <4>1
    <3> QED BY <3>4, <3>5
  <2>5. [k \in 1..Len(w) |-> Filled(w[k])] \in [1..Len(w) -> {"text", "value"} \X Text]
    <3> HIDE DEF Filled
    <3> QED BY <2>4
  <2>6. Word(n) = [k \in 1..Len(w) |-> Filled(w[k])]
    <3> HIDE DEF Filled
    <3> QED BY <2>3 DEF w
  <2> HIDE DEF Word
  <2>7. Word(n) \in [1..Len(w) -> {"text", "value"} \X Text] /\ Len(w) \in Nat
    BY <2>3, <2>5, <2>6
  <2> QED BY <2>7 DEF CleanWord
<1> HIDE DEF Word
<1>4. [n \in 1..Len(arguments) |-> Word(n)] \in [1..Len(arguments) -> CleanWord]
  BY <1>3
<1>5. Substitute(arguments, known) \in [1..Len(arguments) -> CleanWord]
  BY <1>1, <1>2, <1>4
<1> DEFINE filled == Substitute(arguments, known)
           n == Len(arguments)
<1>6. n \in Nat /\ filled \in [1..n -> CleanWord]
  BY <1>2, <1>5
<1>7. ASSUME NEW S, NEW m \in Nat, NEW f \in [1..m -> S] PROVE f \in Seq(S)
  BY SeqDef
<1> HIDE DEF filled, n
<1>8. filled \in Seq(CleanWord)
  BY <1>6, <1>7
<1> QED BY <1>8 DEF filled

\* If nothing is missing, each placeholder is known.
LEMMA NoneMissing ==
    ASSUME NEW arguments \in Seq(Seq(Piece)), NEW known, Missing(arguments, known) = {},
           NEW n \in 1..Len(arguments), NEW k \in 1..Len(arguments[n]),
           arguments[n][k][1] = "hole"
    PROVE  arguments[n][k][2] \in known
<1> DEFINE piece == arguments[n][k]
           all == UNION {Range(argument) : argument \in Range(arguments)}
<1>1. arguments[n] \in Seq(Piece) /\ n \in DOMAIN arguments
  OBVIOUS
<1>2. k \in DOMAIN arguments[n]
  BY <1>1
<1>3. arguments[n] \in Range(arguments) /\ piece \in Range(arguments[n])
  BY <1>1, <1>2 DEF Range
<1>4. piece \in all
  BY <1>3
<1> HIDE DEF all, piece
<1>5. piece[1] = "hole"
  BY DEF piece
<1>6. ASSUME piece[2] \notin known PROVE FALSE
  <2>1. piece \in {p \in all : p[1] = "hole" /\ p[2] \notin known}
    BY <1>4, <1>5, <1>6
  <2>2. piece[2] \in Missing(arguments, known)
    BY <2>1 DEF Missing, all
  <2> QED BY <2>2
<1> QED BY <1>6 DEF piece

\* If none is missing in both parts of a command line, none is left in either.
LEMMA NoneMissingParts ==
    ASSUME NEW jvm \in Seq(Seq(Piece)), NEW game \in Seq(Seq(Piece)), NEW known,
           Missing(jvm \o game, known) = {}
    PROVE  /\ Substitute(jvm, known) \in Seq(CleanWord)
           /\ Substitute(game, known) \in Seq(CleanWord)
<1> DEFINE all == jvm \o game
<1>1. /\ all \in Seq(Seq(Piece))
      /\ \A i \in 1..Len(jvm) : i \in 1..Len(all) /\ all[i] = jvm[i]
      /\ \A i \in 1..Len(game) : Len(jvm) + i \in 1..Len(all) /\ all[Len(jvm) + i] = game[i]
  BY Joined
<1>2. Missing(all, known) = {}
  OBVIOUS
<1> HIDE DEF all
<1>3. \A n \in 1..Len(all) : \A k \in 1..Len(all[n]) :
        all[n][k][1] = "hole" => all[n][k][2] \in known
  BY <1>1, <1>2, NoneMissing
<1>4. \A n \in 1..Len(jvm) : \A k \in 1..Len(jvm[n]) :
        jvm[n][k][1] = "hole" => jvm[n][k][2] \in known
  <2> SUFFICES ASSUME NEW n \in 1..Len(jvm), NEW k \in 1..Len(jvm[n]), jvm[n][k][1] = "hole"
               PROVE  jvm[n][k][2] \in known
    OBVIOUS
  <2>1. n \in 1..Len(all) /\ all[n] = jvm[n]
    BY <1>1
  <2> QED BY <1>3, <2>1
<1>5. \A n \in 1..Len(game) : \A k \in 1..Len(game[n]) :
        game[n][k][1] = "hole" => game[n][k][2] \in known
  <2> SUFFICES ASSUME NEW n \in 1..Len(game), NEW k \in 1..Len(game[n]), game[n][k][1] = "hole"
               PROVE  game[n][k][2] \in known
    OBVIOUS
  <2>1. Len(jvm) + n \in 1..Len(all) /\ all[Len(jvm) + n] = game[n]
    BY <1>1
  <2> QED BY <1>3, <2>1
<1> QED BY <1>4, <1>5, SubstituteClean

\* None is left in a command line for which nothing is missing.
LEMMA CommandClean ==
    ASSUME NEW text \in Plan, Missing(text.arguments.jvm \o text.arguments.game, Known) = {}
    PROVE  Command(text) \in Seq(CleanWord)
<1> DEFINE a == Substitute(text.arguments.jvm, Known)
           c == IF \E n \in DOMAIN text.artifacts : text.artifacts[n].role = "logging"
                THEN Substitute(Logging, Known \cup {"path"}) ELSE <<>>
           d == << << <<"text", text.mainClass>> >> >>
           e == Substitute(text.arguments.game, Known)
<1>1. a \in Seq(CleanWord) /\ e \in Seq(CleanWord)
  <2>1. text.arguments.jvm \in Seq(Seq(Piece)) /\ text.arguments.game \in Seq(Seq(Piece))
    BY DEF Plan
  <2> QED BY <2>1, NoneMissingParts
<1>2. Memory \in Seq(CleanWord)
  BY DEF Memory, CleanWord, Text
<1>3. Extra \in Seq(CleanWord)
  <2>1. Extra \in Seq(Seq({"text"} \X STRING))
    BY PlanningAssumption
  <2>2. ASSUME NEW w \in Seq({"text"} \X STRING) PROVE w \in CleanWord
    <3>1. \A k \in 1..Len(w) : w[k] \in {"text", "value"} \X Text
      BY DEF Text
    <3>2. w = [k \in 1..Len(w) |-> w[k]] /\ Len(w) \in Nat
      OBVIOUS
    <3>3. w \in [1..Len(w) -> {"text", "value"} \X Text]
      BY <3>1, <3>2
    <3> QED BY <3>2, <3>3 DEF CleanWord
  <2>3. \A n \in 1..Len(Extra) : Extra[n] \in CleanWord
    BY <2>1, <2>2
  <2>4. Extra = [n \in 1..Len(Extra) |-> Extra[n]] /\ Len(Extra) \in Nat
    BY <2>1
  <2>5. Extra \in [1..Len(Extra) -> CleanWord]
    BY <2>3, <2>4
  <2> QED BY <2>4, <2>5
<1>4. c \in Seq(CleanWord)
  <2>1. <<>> \in Seq(CleanWord)
    OBVIOUS
  <2>2. Substitute(Logging, Known \cup {"path"}) =
          << << <<"text", "-Dlog4j.configurationFile=">>, <<"value", "path">> >> >>
    BY DEF Substitute, Logging
  <2>3. << << <<"text", "-Dlog4j.configurationFile=">>, <<"value", "path">> >> >> \in Seq(CleanWord)
    BY DEF CleanWord, Text
  <2> QED BY <2>1, <2>2, <2>3
<1>5. d \in Seq(CleanWord)
  <2>1. text.mainClass \in STRING
    BY DEF Plan
  <2> QED BY <2>1 DEF CleanWord, Text
<1>6. Command(text) = a \o Memory \o Extra \o c \o d \o e
  BY DEF Command
<1> HIDE DEF a, c, d, e
<1>7. a \o Memory \o Extra \in Seq(CleanWord)
  BY <1>1, <1>2, <1>3, ConcatProperties
<1> DEFINE abb == a \o Memory \o Extra
<1> HIDE DEF abb
<1>8. abb \o c \o d \o e \in Seq(CleanWord)
  BY <1>1, <1>4, <1>5, <1>7, ConcatProperties DEF abb
<1> QED BY <1>6, <1>8 DEF abb

\* What the invariant says of a game that was started.
LEMMA LaunchFollows == PlanningInv => LaunchSound
<1> SUFFICES ASSUME PlanningInv, run # None, run.code = "started"
             PROVE  /\ version.java # None => run.java >= version.java.major
                    /\ build # None => run.java >= build.minJava
                    /\ \A n \in DOMAIN run.command : \A k \in DOMAIN run.command[n] :
                         run.command[n][k][1] # "hole"
                    /\ \E n \in DOMAIN run.classpath : run.classpath[n].role = "client"
  BY DEF LaunchSound
<1>1. pc = "installed" /\ lock = plan /\ Finished /\ machine \in Machine /\ StartedFrom(plan)
  BY DEF PlanningInv, RunInv, Progress, Finished
<1>2. plan \in Plan
  BY <1>1, PlanTyped
<1>3. /\ run.java = SystemJava(plan.java.major) /\ run.java # 0
      /\ run.command = Command(plan) /\ run.classpath = Classpath(plan.artifacts)
      /\ Missing(plan.arguments.jvm \o plan.arguments.game, Known) = {}
  BY <1>1 DEF StartedFrom
<1>4. run.java \in Nat /\ run.java >= plan.java.major
  BY <1>1, <1>3, SystemJavaSuits
<1>5. plan.java.major \in Nat
  BY <1>1, JavaSuits
<1>6. /\ version.java # None => run.java >= version.java.major
      /\ build # None => run.java >= build.minJava
  BY <1>1, <1>4, <1>5, JavaSuits
<1>7. \A n \in DOMAIN run.command : \A k \in DOMAIN run.command[n] : run.command[n][k][1] # "hole"
  <2>1. run.command \in Seq(CleanWord)
    BY <1>2, <1>3, CommandClean
  <2> SUFFICES ASSUME NEW n \in DOMAIN run.command, NEW k \in DOMAIN run.command[n]
               PROVE  run.command[n][k][1] # "hole"
    OBVIOUS
  <2>2. run.command[n] \in Seq({"text", "value"} \X Text)
    BY <2>1 DEF CleanWord
  <2>3. run.command[n][k] \in {"text", "value"} \X Text
    BY <2>2
  <2> QED BY <2>3
<1>8. \E n \in DOMAIN run.classpath : run.classpath[n].role = "client"
  <2> DEFINE libraries == OfRole(plan.artifacts, "library")
             client == <<Client>>
  <2>1. Classpath(plan.artifacts) = libraries \o OfRole(plan.artifacts, "client")
    BY DEF Classpath, OfRole
  <2>2. OfRole(plan.artifacts, "client") = client
    BY <1>1, OneClient
  <2>3. libraries \in Seq(PlannedArtifact) /\ client \in Seq(PlannedArtifact)
    <3>1. plan.artifacts \in Seq(PlannedArtifact)
      BY <1>2 DEF Plan
    <3>2. version \in Version
      BY <1>1 DEF PlanningInv, PlanInv
    <3>3. Client \in PlannedArtifact
      BY <3>2, PlannedType
    <3> QED BY <3>1, <3>3, OfRoleType
  <2>4. Len(client) = 1 /\ client[1].role = "client" /\ 1 \in 1..Len(client)
    BY DEF Client, Artifact
  <2> HIDE DEF libraries, client
  <2>5. /\ libraries \o client \in Seq(PlannedArtifact)
        /\ Len(libraries) + 1 \in 1..Len(libraries \o client)
        /\ (libraries \o client)[Len(libraries) + 1] = client[1]
    <3>1. /\ libraries \o client \in Seq(PlannedArtifact)
          /\ \A i \in 1..Len(client) : /\ Len(libraries) + i \in 1..Len(libraries \o client)
                                       /\ (libraries \o client)[Len(libraries) + i] = client[i]
      BY <2>3, Joined
    <3> QED BY <2>4, <3>1
  <2>6. run.classpath = libraries \o client
    BY <1>3, <2>1, <2>2
  <2> QED BY <2>4, <2>5, <2>6
<1> QED BY <1>6, <1>7, <1>8

\* Whatever is started suits its version and its build, has no placeholder left and
\* has the client.
THEOREM LaunchesSound == Spec => []LaunchSound
  BY LaunchFollows, PlanningHolds, PTL

------------------------------------------------------------------------------
(* The build that is merged *)

\* It is one of those that are listed.
LEMMA BuildListed ==
    ASSUME PlanningInv, build # None
    PROVE  \E listing \in Listing : \E n \in 1..Len(listing.entries) :
             /\ listing.entries \in Seq(Entry) /\ listing.entries[n].mainClass # None
             /\ build = BuildProfile(listing.kind, listing.entries[n])
<1>1. PICK listing \in Listing, wanted \in Wanted : Asked(listing, wanted)
  BY DEF PlanningInv, BuildInv
<1> DEFINE profiles == ParseVersions(listing.kind, listing.entries)
<1>2. listing.entries \in Seq(Entry)
  BY PlanningAssumption
<1>3. profiles \in Seq(Profile)
  BY <1>2, ParseVersionsType
<1>4. profiles # <<>> => /\ Len(profiles) = Len(listing.entries)
                         /\ \A n \in 1..Len(listing.entries) :
                              /\ listing.entries[n].mainClass # None
                              /\ profiles[n] = BuildProfile(listing.kind, listing.entries[n])
  BY <1>2, ParseVersionsType
<1>5. build = SelectBuild(profiles, wanted)
  BY <1>1 DEF Asked
<1> HIDE DEF profiles
<1>6. profiles # <<>> /\ \E n \in 1..Len(profiles) : build = profiles[n]
  BY <1>3, <1>5, Selected
<1> QED BY <1>2, <1>4, <1>6

\* A digest of it is right, or yet to be fetched.
LEMMA BuildUsable ==
    ASSUME PlanningInv, build # None, DigestsUsable, NEW m \in 1..Len(build.libraries)
    PROVE  build.libraries[m].sha1 \in {"genuine", None}
<1>1. PICK listing \in Listing : \E n \in 1..Len(listing.entries) :
          /\ listing.entries \in Seq(Entry) /\ listing.entries[n].mainClass # None
          /\ build = BuildProfile(listing.kind, listing.entries[n])
  BY BuildListed
<1>2. PICK n \in 1..Len(listing.entries) :
          /\ listing.entries \in Seq(Entry) /\ listing.entries[n].mainClass # None
          /\ build = BuildProfile(listing.kind, listing.entries[n])
  BY <1>1
<1> DEFINE entry == listing.entries[n]
<1>3. entry \in Entry /\ entry.mainClass # None /\ build = BuildProfile(listing.kind, entry)
  BY <1>2
<1>4. PublishesUsableDigests(listing.kind) =>
        \A k \in 1..Len(Listed(entry)) : Listed(entry)[k].sha1 # "stale"
  <2>1. n \in DOMAIN listing.entries
    BY <1>2
  <2>2. entry \in Entry
    BY <1>3
  <2>3. DOMAIN Listed(entry) = 1..Len(Listed(entry))
    BY <2>2, ListedType
  <2> QED BY <2>1, <2>3 DEF DigestsUsable
<1> HIDE DEF entry
<1>5. /\ Len(build.libraries) = Len(Listed(entry))
      /\ build.libraries[m].sha1 =
           IF PublishesUsableDigests(listing.kind) THEN Listed(entry)[m].sha1 ELSE None
  BY <1>3, BuildProfileType
<1>6. Listed(entry)[m] \in LoaderLibrary
  BY <1>3, <1>5, ListedType
<1> QED BY <1>4, <1>5, <1>6 DEF LoaderLibrary, Digest

\* Each of its libraries is in the plan, with the digest of what is served.
LEMMA BuildPinned ==
    ASSUME PlanningInv, Finished, build # None, DigestsUsable, NEW m \in 1..Len(build.libraries)
    PROVE  \E k \in 1..Len(plan.artifacts) :
             /\ plan.artifacts[k].role = "library"
             /\ plan.artifacts[k].path = ToPath(build.libraries[m].name)
             /\ plan.artifacts[k].sha1 = "genuine"
<1> DEFINE libraries == InOrder(arrived, build.libraries)
<1>1. /\ build.libraries \in Seq(LoaderLibrary)
      /\ arrived \in Seq(Sound) /\ Len(arrived) = Len(build.libraries)
  BY Gathered
<1>2. arrived \in Seq(LoaderLibrary) /\ \A n \in 1..Len(arrived) : arrived[n] # None
  <2>1. None \notin LoaderLibrary
    BY PlanningAssumption
  <2> QED BY <1>1, <2>1, SoundSeq
<1>3. PICK source : Sources(source, arrived, {}, build.libraries, Len(build.libraries))
  BY Gathered
<1>4. PICK n \in 1..Len(arrived) : source[n] = m
  BY <1>3 DEF Sources
<1>5. arrived[n] \in Checksums(build.libraries[m]) /\ build.libraries[m] \in LoaderLibrary
  <2>1. \A j \in 1..Len(arrived) : arrived[j] \in Checksums(build.libraries[source[j]])
    BY <1>3 DEF Sources
  <2>2. build.libraries[m] \in LoaderLibrary
    BY <1>1
  <2> QED BY <1>4, <2>1, <2>2
<1>6. arrived[n].name = build.libraries[m].name /\ arrived[n].sha1 = "genuine"
  <2>1. build.libraries[m].sha1 \in {"genuine", None}
    BY BuildUsable
  <2> QED BY <1>2, <1>5, <2>1, ChecksumsIs
<1>7. PICK i \in 1..Len(libraries) : libraries[i] = arrived[n]
  BY <1>1, <1>2, <1>6, InOrderHas
<1>8. /\ libraries \in Seq(LoaderLibrary) /\ \A j \in 1..Len(libraries) : libraries[j].name # Malformed
      /\ \A j \in 1..Len(libraries) :
           \E k \in 1..Len(plan.artifacts) : plan.artifacts[k] = OfBuild(libraries)[j]
  BY Merging
<1> HIDE DEF libraries
<1>9. PICK k \in 1..Len(plan.artifacts) : plan.artifacts[k] = OfBuild(libraries)[i]
  BY <1>8
<1>10. /\ OfBuild(libraries)[i].path = ToPath(libraries[i].name)
       /\ OfBuild(libraries)[i].role = "library"
       /\ OfBuild(libraries)[i].sha1 = libraries[i].sha1
  BY <1>8, OfBuildType
<1> QED BY <1>6, <1>7, <1>9, <1>10

\* It is the one that was wanted, or the newest.
LEMMA BuildWanted ==
    ASSUME PlanningInv, build # None
    PROVE  /\ asked.wanted \in {None, build.version}
           /\ asked.wanted = None /\ build.version # Unparsable =>
                \A n \in DOMAIN asked.entries :
                  asked.entries[n].version # Unparsable =>
                    /\ Released(asked.entries[n].version) => Released(build.version)
                    /\ Released(asked.entries[n].version) = Released(build.version) =>
                         ~Newer(asked.entries[n].version, build.version)
<1>1. PICK listing \in Listing, wanted \in Wanted : Asked(listing, wanted)
  BY DEF PlanningInv, BuildInv
<1> DEFINE profiles == ParseVersions(listing.kind, listing.entries)
<1>2. listing.entries \in Seq(Entry)
  BY PlanningAssumption
<1>3. profiles \in Seq(Profile)
  BY <1>2, ParseVersionsType
<1>4. profiles # <<>> => /\ Len(profiles) = Len(listing.entries)
                         /\ \A n \in 1..Len(listing.entries) :
                              /\ listing.entries[n].mainClass # None
                              /\ profiles[n] = BuildProfile(listing.kind, listing.entries[n])
  BY <1>2, ParseVersionsType
<1>5. build = SelectBuild(profiles, wanted)
  BY <1>1 DEF Asked
<1> HIDE DEF profiles
<1>6. /\ profiles # <<>> /\ wanted \in {None, build.version}
      /\ wanted = None /\ build.version # Unparsable =>
           \A n \in 1..Len(profiles) : profiles[n].version # Unparsable =>
             /\ Released(profiles[n].version) => Released(build.version)
             /\ Released(profiles[n].version) = Released(build.version) =>
                  ~Newer(profiles[n].version, build.version)
  BY <1>3, <1>5, Selected
<1>7. \A n \in 1..Len(listing.entries) : profiles[n].version = listing.entries[n].version
  <2>1. \A kind, entry : BuildProfile(kind, entry).version = entry.version
    BY DEF BuildProfile
  <2> QED BY <1>4, <1>6, <2>1
<1>8. asked.wanted = wanted /\ asked.entries = listing.entries
  BY <1>1 DEF Asked
<1>9. DOMAIN asked.entries = 1..Len(listing.entries) /\ Len(profiles) = Len(listing.entries)
  BY <1>2, <1>4, <1>6, <1>8
<1> QED BY <1>6, <1>7, <1>8, <1>9

\* What the invariant says of a build.
LEMMA BuildFollows == ASSUME DigestsUsable PROVE PlanningInv => LoaderSound
<1> SUFFICES ASSUME PlanningInv, Finished, build # None PROVE LoaderSound
  BY DEF LoaderSound
<1>1. DOMAIN build.libraries = 1..Len(build.libraries)
  BY BuildType
<1>2. DOMAIN plan.artifacts = 1..Len(plan.artifacts)
  <2>1. pc # "idle"
    BY DEF Finished
  <2>2. plan.artifacts \in Seq(PlannedArtifact)
    BY <2>1, PlanTyped DEF Plan
  <2> QED BY <2>2
<1>3. \A m \in 1..Len(build.libraries) : \E k \in 1..Len(plan.artifacts) :
        /\ plan.artifacts[k].role = "library"
        /\ plan.artifacts[k].path = ToPath(build.libraries[m].name)
        /\ plan.artifacts[k].sha1 = "genuine"
  BY BuildPinned
<1> QED BY <1>1, <1>2, <1>3, BuildWanted DEF LoaderSound

\* The plan has the build that was asked for, or the newest, and each of its files is
\* pinned to what is served, if the digests that are believed are right.
THEOREM LoaderPinned == ASSUME DigestsUsable PROVE Spec => []LoaderSound
BY BuildFollows, PlanningHolds, PTL

------------------------------------------------------------------------------
(* The libraries of a version *)

\* The jars so far: each of another name, and those are the names that were seen.
JarsOf(classpath, seen) ==
    /\ \A i \in 1..Len(classpath) :
         classpath[i].path.ext = "jar" /\ Identity(classpath[i].path) \in seen
    /\ \A i, k \in 1..Len(classpath) :
         Identity(classpath[i].path) = Identity(classpath[k].path) => i = k
    /\ \A key \in seen : \E i \in 1..Len(classpath) : Identity(classpath[i].path) = key

\* One more, of a name that was not seen.
LEMMA JarsMore ==
    ASSUME NEW classpath \in Seq(ResolvedJar), NEW seen, JarsOf(classpath, seen),
           NEW entry \in ResolvedJar, entry.path.ext = "jar", Identity(entry.path) \notin seen
    PROVE  JarsOf(Append(classpath, entry), seen \cup {Identity(entry.path)})
<1> DEFINE more == Append(classpath, entry)
           N == Len(classpath)
<1>1. N \in Nat
  OBVIOUS
<1>2. Len(more) = N + 1 /\ more[N + 1] = entry /\ \A i \in 1..N : more[i] = classpath[i]
  BY AppendProperties
<1>3. \A i \in 1..(N + 1) : i \in 1..N \/ i = N + 1
  BY <1>1
<1>4. N + 1 \in 1..(N + 1) /\ \A i \in 1..N : i \in 1..(N + 1)
  BY <1>1
<1> HIDE DEF more, N
<1>5. /\ \A i \in 1..N : classpath[i].path.ext = "jar" /\ Identity(classpath[i].path) \in seen
      /\ \A i, k \in 1..N : Identity(classpath[i].path) = Identity(classpath[k].path) => i = k
      /\ \A key \in seen : \E i \in 1..N : Identity(classpath[i].path) = key
  BY DEF JarsOf, N
<1>6. \A i \in 1..(N + 1) :
        more[i].path.ext = "jar" /\ Identity(more[i].path) \in seen \cup {Identity(entry.path)}
  BY <1>2, <1>3, <1>5
<1>7. ASSUME NEW i \in 1..(N + 1), NEW k \in 1..(N + 1),
             Identity(more[i].path) = Identity(more[k].path)
      PROVE  i = k
  BY <1>2, <1>3, <1>5, <1>7
<1>8. \A key \in seen \cup {Identity(entry.path)} :
        \E i \in 1..(N + 1) : Identity(more[i].path) = key
  <2>1. \A key \in seen : \E i \in 1..(N + 1) : Identity(more[i].path) = key
    BY <1>2, <1>4, <1>5
  <2>2. \E i \in 1..(N + 1) : Identity(more[i].path) = Identity(entry.path)
    BY <1>2, <1>4
  <2> QED BY <2>1, <2>2
<1> QED BY <1>2, <1>6, <1>7, <1>8 DEF JarsOf, more

\* The jar of a library, if it has one, is of its name.
LEMMA BringsNamed ==
    ASSUME NEW library \in Library, NamedWell(library)
    PROVE  /\ Brings(library) # None <=> HasJar(library)
           /\ HasJar(library) => /\ Brings(library) \in ResolvedJar
                                 /\ Brings(library).path.ext = "jar"
                                 /\ Identity(Brings(library).path) = Key(library.name)
                                 /\ Key(library.name) = DedupKey(library.name)
<1>1. Brings(library) \in ResolvedJar \cup {None} /\ None \notin ResolvedJar
  BY BringsType, PlanningAssumption
<1>2. CASE ~HasJar(library)
  <2>1. Brings(library) = None
    BY <1>2 DEF HasJar, Brings, ResolveArtifact, ResolveFromMaven
  <2> QED BY <1>2, <2>1
<1>3. CASE HasJar(library)
  <2>1. /\ library.name \in Coordinates /\ library.name.ext = "jar"
        /\ library.artifact # None /\ library.artifact.path # None =>
             /\ Identity(library.artifact.path) = DedupKey(library.name)
             /\ library.artifact.path.ext = "jar"
    BY <1>3 DEF NamedWell
  <2>2. library.name # Malformed /\ Key(library.name) = DedupKey(library.name)
    BY <2>1, PlanningAssumption DEF Key
  <2>3. /\ ToPath(library.name).ext = "jar"
        /\ Identity(ToPath(library.name)) = DedupKey(library.name)
    BY <2>1 DEF ToPath, Identity, DedupKey
  <2>4. ToPath(library.name) \in Path
    BY <2>1, ToPathType
  <2>5. library.artifact # None => library.artifact.path \in Path \cup {None}
    BY DEF Library
  <2> DEFINE Jar(path, sha1) == [path |-> path, sha1 |-> sha1]
  <2>6. \A path \in Path, sha1 \in Digest :
          Jar(path, sha1) # None /\ Jar(path, sha1).path = path
    BY <1>1 DEF ResolvedJar
  <2>7. \E path \in Path, sha1 \in Digest :
          /\ Brings(library) = Jar(path, sha1)
          /\ path.ext = "jar" /\ Identity(path) = DedupKey(library.name)
    <3>1. CASE library.artifact # None /\ library.artifact.path # None
      <4>1. ResolveArtifact(library) = Jar(library.artifact.path, "genuine")
        BY <3>1 DEF ResolveArtifact
      <4>2. library.artifact.path \in Path /\ "genuine" \in Digest
        BY <2>5, <3>1 DEF Digest
      <4>3. Brings(library) = Jar(library.artifact.path, "genuine")
        BY <2>6, <4>1, <4>2 DEF Brings
      <4> QED BY <2>1, <3>1, <4>2, <4>3
    <3>2. CASE library.artifact # None /\ library.artifact.path = None
      <4>1. ResolveArtifact(library) = Jar(ToPath(library.name), "genuine")
        BY <2>2, <3>2 DEF ResolveArtifact
      <4>2. "genuine" \in Digest
        BY DEF Digest
      <4>3. Brings(library) = Jar(ToPath(library.name), "genuine")
        BY <2>4, <2>6, <4>1, <4>2 DEF Brings
      <4> QED BY <2>3, <2>4, <4>2, <4>3
    <3>3. CASE library.artifact = None
      <4>1. ResolveArtifact(library) = None /\ library.url # None
        BY <1>3, <3>3 DEF ResolveArtifact, HasJar
      <4>2. Brings(library) = Jar(ToPath(library.name), None)
        BY <2>2, <4>1 DEF Brings, ResolveFromMaven
      <4>3. None \in Digest
        BY DEF Digest
      <4> QED BY <2>3, <2>4, <4>2, <4>3
    <3> QED BY <3>1, <3>2, <3>3
  <2> HIDE DEF Jar
  <2> QED BY <1>1, <1>3, <2>2, <2>6, <2>7
<1> QED BY <1>2, <1>3

\* What was resolved has what a library is there for.
Has(resolved, library, env) ==
    IsApplicable(library, env) =>
      /\ HasJar(library) => DedupKey(library.name) \in resolved.seen
      /\ NativeClassifier(library, env) \in library.classifiers =>
           \E k \in 1..Len(resolved.natives) :
             resolved.natives[k] = <<library.name, NativeClassifier(library, env)>>

\* One more library: it is there then, and so are those that were.
LEMMA AddedHas ==
    ASSUME NEW resolved \in Resolved, NEW library \in Library, NamedWell(library), NEW env,
           JarsOf(resolved.classpath, resolved.seen),
           NEW added, added = AddLibrary(resolved, library, env)
    PROVE  /\ JarsOf(added.classpath, added.seen) /\ Has(added, library, env)
           /\ \A other : Has(resolved, other, env) => Has(added, other, env)
<1> DEFINE classifier == NativeClassifier(library, env)
           fresh == Brings(library) # None /\ Key(library.name) \notin resolved.seen
<1>1. /\ resolved.natives \in Seq(Name \X Seq(STRING)) /\ resolved.classpath \in Seq(ResolvedJar)
      /\ library.name \in Name /\ library.classifiers \in SUBSET Seq(STRING)
  BY DEF Resolved, Library
<1>2. /\ added.natives = IF classifier \in library.classifiers
                         THEN Append(resolved.natives, <<library.name, classifier>>)
                         ELSE resolved.natives
      /\ added.classpath = IF fresh THEN Append(resolved.classpath, Brings(library))
                           ELSE resolved.classpath
      /\ added.seen = IF fresh THEN resolved.seen \cup {Key(library.name)} ELSE resolved.seen
  BY DEF AddLibrary, Brings
<1>3. /\ Brings(library) # None <=> HasJar(library)
      /\ HasJar(library) => /\ Brings(library) \in ResolvedJar
                            /\ Brings(library).path.ext = "jar"
                            /\ Identity(Brings(library).path) = Key(library.name)
                            /\ Key(library.name) = DedupKey(library.name)
  BY BringsNamed
<1> HIDE DEF classifier
<1>4. JarsOf(added.classpath, added.seen)
  <2>1. CASE fresh
    <3>1. JarsOf(Append(resolved.classpath, Brings(library)),
                 resolved.seen \cup {Identity(Brings(library).path)})
      BY <1>1, <1>3, <2>1, JarsMore
    <3> QED BY <1>2, <1>3, <2>1, <3>1
  <2>2. CASE ~fresh
    BY <1>2, <2>2
  <2> QED BY <2>1, <2>2
<1>5. HasJar(library) => DedupKey(library.name) \in added.seen
  BY <1>2, <1>3
<1>6. resolved.seen \subseteq added.seen
  BY <1>2
<1>7. /\ classifier \in library.classifiers =>
           \E k \in 1..Len(added.natives) : added.natives[k] = <<library.name, classifier>>
      /\ \A k \in 1..Len(resolved.natives) :
           k \in 1..Len(added.natives) /\ added.natives[k] = resolved.natives[k]
  <2> DEFINE natives == resolved.natives
             archive == <<library.name, classifier>>
             N == Len(natives)
  <2>1. CASE classifier \in library.classifiers
    <3>1. archive \in Name \X Seq(STRING) /\ natives \in Seq(Name \X Seq(STRING))
      BY <1>1, <2>1
    <3>2. added.natives = Append(natives, archive)
      BY <1>2, <2>1
    <3>3. N \in Nat
      BY <1>1
    <3> HIDE DEF natives, archive
    <3>4. /\ Len(Append(natives, archive)) = N + 1 /\ Append(natives, archive)[N + 1] = archive
          /\ \A k \in 1..N : Append(natives, archive)[k] = natives[k]
      BY <3>1, AppendProperties
    <3>5. N + 1 \in 1..(N + 1) /\ \A k \in 1..N : k \in 1..(N + 1)
      BY <3>3
    <3> QED BY <3>2, <3>4, <3>5 DEF natives, archive
  <2>2. CASE classifier \notin library.classifiers
    BY <1>2, <2>2
  <2> QED BY <2>1, <2>2
<1>8. Has(added, library, env)
  BY <1>5, <1>7 DEF Has, classifier
<1>9. ASSUME NEW other, Has(resolved, other, env) PROVE Has(added, other, env)
  <2> SUFFICES ASSUME IsApplicable(other, env)
               PROVE  /\ HasJar(other) => DedupKey(other.name) \in added.seen
                      /\ NativeClassifier(other, env) \in other.classifiers =>
                           \E k \in 1..Len(added.natives) :
                             added.natives[k] = <<other.name, NativeClassifier(other, env)>>
    BY DEF Has
  <2>1. /\ HasJar(other) => DedupKey(other.name) \in resolved.seen
        /\ NativeClassifier(other, env) \in other.classifiers =>
             \E k \in 1..Len(resolved.natives) :
               resolved.natives[k] = <<other.name, NativeClassifier(other, env)>>
    BY <1>9 DEF Has
  <2> QED BY <1>6, <1>7, <2>1
<1> QED BY <1>4, <1>8, <1>9

\* Each library that is for the machine is there, and no jar is there twice.
LEMMA ResolvedHas ==
    ASSUME NEW libraries \in Seq(Library), NEW env,
           \A n \in 1..Len(libraries) : NamedWell(libraries[n]),
           NEW resolved, resolved = ResolveLibraries(libraries, env)
    PROVE  /\ JarsOf(resolved.classpath, resolved.seen)
           /\ \A n \in 1..Len(libraries) : Has(resolved, libraries[n], env)
<1> DEFINE N == Len(libraries)
           base == [natives |-> <<>>, classpath |-> <<>>, seen |-> {}]
<1>1. N \in Nat /\ N \in 0..N
  OBVIOUS
<1>2. PICK f \in [0..N -> Resolved] :
        Runs(f, N, base, LibraryStep(libraries, env)) /\ ResolveLibraries(libraries, env) = f[N]
  BY LibrariesRun
<1> DEFINE Good(m) == /\ JarsOf(f[m].classpath, f[m].seen)
                      /\ \A n \in 1..m : Has(f[m], libraries[n], env)
           T == {m \in 0..N : Good(m)}
<1>3. 0 \in T
  <2>1. f[0].classpath = <<>> /\ f[0].seen = {}
    BY <1>2 DEF Runs
  <2>2. JarsOf(f[0].classpath, f[0].seen)
    <3>1. Len(f[0].classpath) = 0
      BY <2>1
    <3>2. 1..0 = {}
      OBVIOUS
    <3> QED BY <2>1, <3>1, <3>2 DEF JarsOf
  <2>3. \A n \in 1..0 : FALSE
    OBVIOUS
  <2> QED BY <1>1, <2>2, <2>3
<1>4. ASSUME NEW m \in 0..N, m + 1 \in 0..N, m \in T PROVE m + 1 \in T
  <2> DEFINE library == libraries[m + 1]
  <2>1. m \in Nat /\ m + 1 \in 1..N /\ (m + 1) - 1 = m
    BY <1>1, <1>4
  <2>2. f[m] \in Resolved /\ library \in Library /\ NamedWell(library)
    BY <1>2, <2>1
  <2>3. f[m + 1] = IF IsApplicable(library, env) THEN AddLibrary(f[m], library, env) ELSE f[m]
    <3>1. f[m + 1] = LibraryStep(libraries, env)[m + 1][f[m]]
      BY <1>2, <2>1 DEF Runs
    <3> QED BY <2>1, <2>2, <3>1 DEF LibraryStep
  <2>4. Good(m)
    BY <1>4
  <2>5. /\ JarsOf(f[m + 1].classpath, f[m + 1].seen) /\ Has(f[m + 1], library, env)
        /\ \A other : Has(f[m], other, env) => Has(f[m + 1], other, env)
    <3> HIDE DEF library
    <3>1. CASE IsApplicable(library, env)
      <4>1. f[m + 1] = AddLibrary(f[m], library, env)
        BY <2>3, <3>1
      <4> QED BY <2>2, <2>4, <4>1, AddedHas
    <3>2. CASE ~IsApplicable(library, env)
      <4>1. f[m + 1] = f[m]
        BY <2>3, <3>2
      <4>2. Has(f[m + 1], library, env)
        BY <3>2 DEF Has
      <4> QED BY <2>4, <4>1, <4>2
    <3> QED BY <3>1, <3>2
  <2>6. \A n \in 1..(m + 1) : n \in 1..m \/ n = m + 1
    BY <2>1
  <2>7. Good(m + 1)
    BY <2>4, <2>5, <2>6
  <2> QED BY <1>4, <2>7
<1>5. N \in T
  <2>1. \A m \in 0..N : m + 1 \in 0..N /\ m \in T => m + 1 \in T
    BY <1>4
  <2> HIDE DEF T
  <2>2. \A m \in 0..N : m \in T
    <3> HIDE DEF N
    <3> QED BY <1>1, <1>3, <2>1, UpTo
  <2> QED BY <1>1, <2>2
<1> QED BY <1>2, <1>5

\* Of each name there is one.
Apart(s) == \A i, k \in 1..Len(s) : Identity(s[i].path) = Identity(s[k].path) => i = k

\* What is planned of a version whose jars are well named: each of another name, and
\* whatever is for the machine.
PlannedRight(jars, archives, v, env) ==
    /\ Apart(jars)
    /\ \A i \in 1..Len(jars) : ArtifactKey(jars[i].path) = Identity(jars[i].path)
    /\ \A n \in 1..Len(v.libraries) : IsApplicable(v.libraries[n], env) =>
         /\ HasJar(v.libraries[n]) =>
              \E i \in 1..Len(jars) : Identity(jars[i].path) = DedupKey(v.libraries[n].name)
         /\ NativeClassifier(v.libraries[n], env) \in v.libraries[n].classifiers =>
              \E i \in 1..Len(archives) :
                /\ archives[i].role = "native"
                /\ archives[i].path = <<v.libraries[n].name, NativeClassifier(v.libraries[n], env)>>

\* resolve_libraries does so.
LEMMA PlannedHas ==
    ASSUME NEW v \in Version, NEW env, \A n \in 1..Len(v.libraries) : NamedWell(v.libraries[n])
    PROVE  PlannedRight(Planned(v, env).jars, Planned(v, env).archives, v, env)
<1> DEFINE resolved == ResolveLibraries(v.libraries, env)
           classpath == resolved.classpath
           natives == resolved.natives
           jars == Planned(v, env).jars
           archives == Planned(v, env).archives
<1>1. v.libraries \in Seq(Library)
  BY PlanningAssumption
<1>2. /\ JarsOf(classpath, resolved.seen)
      /\ \A n \in 1..Len(v.libraries) : Has(resolved, v.libraries[n], env)
  BY <1>1, ResolvedHas
<1>3. classpath \in Seq(ResolvedJar) /\ natives \in Seq(Name \X Seq(STRING))
  BY <1>1, ResolveLibrariesType DEF Resolved
<1>4. /\ jars = [n \in DOMAIN classpath |-> Artifact(classpath[n].path, "library", classpath[n].sha1)]
      /\ archives = [n \in DOMAIN natives |-> Artifact(natives[n], "native", "genuine")]
  BY DEF Planned
<1> HIDE DEF resolved, jars, archives
<1>5. Len(jars) = Len(classpath) /\ \A i \in 1..Len(classpath) : jars[i].path = classpath[i].path
  <2> HIDE DEF classpath
  <2>1. DOMAIN classpath = 1..Len(classpath) /\ Len(classpath) \in Nat
    BY <1>3
  <2>2. DOMAIN jars = 1..Len(classpath)
    BY <1>4, <2>1
  <2> QED BY <1>4, <2>1, <2>2 DEF Artifact
<1>6. /\ Len(archives) = Len(natives)
      /\ \A i \in 1..Len(natives) : archives[i].path = natives[i] /\ archives[i].role = "native"
  <2> HIDE DEF natives
  <2>1. DOMAIN natives = 1..Len(natives) /\ Len(natives) \in Nat
    BY <1>3
  <2>2. DOMAIN archives = 1..Len(natives)
    BY <1>4, <2>1
  <2> QED BY <1>4, <2>1, <2>2 DEF Artifact
<1>7. Apart(jars)
  BY <1>2, <1>5 DEF Apart, JarsOf
<1>8. \A i \in 1..Len(jars) : ArtifactKey(jars[i].path) = Identity(jars[i].path)
  <2>1. \A i \in 1..Len(jars) : jars[i].path.ext = "jar"
    BY <1>2, <1>5 DEF JarsOf
  <2>2. \A path : path.ext = "jar" => ArtifactKey(path) = Identity(path)
    BY DEF ArtifactKey, Identity
  <2> QED BY <2>1, <2>2
<1>9. ASSUME NEW n \in 1..Len(v.libraries), IsApplicable(v.libraries[n], env)
      PROVE  /\ HasJar(v.libraries[n]) =>
                  \E i \in 1..Len(jars) : Identity(jars[i].path) = DedupKey(v.libraries[n].name)
             /\ NativeClassifier(v.libraries[n], env) \in v.libraries[n].classifiers =>
                  \E i \in 1..Len(archives) :
                    /\ archives[i].role = "native"
                    /\ archives[i].path =
                         <<v.libraries[n].name, NativeClassifier(v.libraries[n], env)>>
  <2>1. /\ HasJar(v.libraries[n]) => DedupKey(v.libraries[n].name) \in resolved.seen
        /\ NativeClassifier(v.libraries[n], env) \in v.libraries[n].classifiers =>
             \E k \in 1..Len(natives) :
               natives[k] = <<v.libraries[n].name, NativeClassifier(v.libraries[n], env)>>
    BY <1>2, <1>9 DEF Has
  <2>2. \A key \in resolved.seen : \E i \in 1..Len(jars) : Identity(jars[i].path) = key
    BY <1>2, <1>5 DEF JarsOf
  <2> QED BY <1>6, <2>1, <2>2
<1> QED BY <1>7, <1>8, <1>9 DEF PlannedRight, jars, archives

\* What of them stays when some names are taken: no two of a name, none of a name that
\* is taken, and whatever is for the machine and has another name.
Stays(v, env, names) == OfRole(Retained(Artifacts(v, env), names), "library")

StayRight(kept, v, env, names) ==
    /\ kept \in Seq(PlannedArtifact)
    /\ Apart(kept) /\ \A i \in 1..Len(kept) : Identity(kept[i].path) \notin names
    /\ \A n \in 1..Len(v.libraries) :
         IsApplicable(v.libraries[n], env) /\ HasJar(v.libraries[n]) =>
           \/ DedupKey(v.libraries[n].name) \in names
           \/ \E i \in 1..Len(kept) : Identity(kept[i].path) = DedupKey(v.libraries[n].name)

\* retain does so.
LEMMA StaysRight ==
    ASSUME NEW v \in Version, NEW env, \A n \in 1..Len(v.libraries) : NamedWell(v.libraries[n]),
           NEW names
    PROVE  StayRight(Stays(v, env, names), v, env, names)
<1> DEFINE kept == Stays(v, env, names)
           arts == Artifacts(v, env)
           jars == Planned(v, env).jars
           N == Len(arts)
           L == {n \in DOMAIN arts : arts[n].role = "library"}
           stay == Staying(arts, names)
           P == {n \in stay : arts[n].role = "library"}
<1>1. arts \in Seq(PlannedArtifact) /\ DOMAIN arts = 1..N /\ N \in Nat
  <2>1. arts \in Seq(PlannedArtifact)
    BY ArtifactsType
  <2> HIDE DEF arts
  <2> QED BY <2>1
<1>2. jars = Chosen(arts, L)
  BY ArtifactsRoles DEF OfRole
<1>3. kept = Chosen(arts, P)
  <2> HIDE DEF arts
  <2>1. kept = OfRole(Retained(arts, names), "library")
    BY DEF Stays, arts
  <2> QED BY <1>1, <2>1, RetainedRole
<1>4. Apart(jars) /\ \A i \in 1..Len(jars) : ArtifactKey(jars[i].path) = Identity(jars[i].path)
  <2>1. PlannedRight(jars, Planned(v, env).archives, v, env)
    BY PlannedHas
  <2> HIDE DEF jars
  <2> QED BY <2>1 DEF PlannedRight
<1>5. \A n \in 1..Len(v.libraries) :
        IsApplicable(v.libraries[n], env) /\ HasJar(v.libraries[n]) =>
          \E i \in 1..Len(jars) : Identity(jars[i].path) = DedupKey(v.libraries[n].name)
  <2>1. PlannedRight(jars, Planned(v, env).archives, v, env)
    BY PlannedHas
  <2> HIDE DEF jars
  <2> QED BY <2>1 DEF PlannedRight
<1> HIDE DEF kept, arts, jars, N
<1>6. PICK e : Places(e, jars, arts, N, L)
  BY <1>1, <1>2, ChosenPlaces DEF N
<1>7. PICK d : Places(d, kept, arts, N, P)
  BY <1>1, <1>3, ChosenPlaces DEF N
\* A library of the plan is one of the jars.
<1>8. \A n \in 1..N : arts[n].role = "library" =>
        \E i \in 1..Len(jars) : e[i] = n /\ jars[i] = arts[n]
  <2> SUFFICES ASSUME NEW n \in 1..N, arts[n].role = "library"
               PROVE  \E i \in 1..Len(jars) : e[i] = n /\ jars[i] = arts[n]
    OBVIOUS
  <2>1. n \in L
    BY <1>1
  <2> HIDE DEF L
  <2>2. PICK i \in 1..Len(jars) : e[i] = n
    BY <1>6, <2>1 DEF Places
  <2>3. jars[i] = arts[e[i]]
    BY <1>6 DEF Places
  <2> QED BY <2>2, <2>3
<1>9. \A n \in 1..N : arts[n].role = "library" => ArtifactKey(arts[n].path) = Identity(arts[n].path)
  BY <1>4, <1>8
<1>10. \A n, k \in 1..N : arts[n].role = "library" /\ arts[k].role = "library"
                          /\ Identity(arts[n].path) = Identity(arts[k].path) => n = k
  <2> SUFFICES ASSUME NEW n \in 1..N, NEW k \in 1..N, arts[n].role = "library",
                      arts[k].role = "library", Identity(arts[n].path) = Identity(arts[k].path)
               PROVE  n = k
    OBVIOUS
  <2>1. PICK i \in 1..Len(jars) : e[i] = n /\ jars[i] = arts[n]
    BY <1>8
  <2>2. PICK j \in 1..Len(jars) : e[j] = k /\ jars[j] = arts[k]
    BY <1>8
  <2>3. i = j
    BY <1>4, <2>1, <2>2 DEF Apart
  <2> QED BY <2>1, <2>2, <2>3
\* One that stays is one of the libraries.
<1>11. \A i \in 1..Len(kept) : /\ d[i] \in 1..N /\ d[i] \in stay /\ arts[d[i]].role = "library"
                               /\ kept[i] = arts[d[i]]
  BY <1>7 DEF Places
<1>12. kept \in Seq(PlannedArtifact) /\ Len(kept) \in Nat
  <2>1. kept \in Seq(PlannedArtifact)
    BY <1>1, <1>3, ChosenType
  <2> QED BY <2>1
<1>13. \A i, k \in 1..Len(kept) : d[i] = d[k] => i = k
  <2>1. \A i, k \in 1..Len(kept) : i < k => d[i] < d[k]
    BY <1>7 DEF Places
  <2>2. \A i \in 1..Len(kept) : d[i] \in Nat
    BY <1>1, <1>11
  <2>3. \A i, k \in 1..Len(kept) : i < k \/ k < i \/ i = k
    BY <1>12
  <2>4. \A x \in Nat : ~(x < x)
    OBVIOUS
  <2> QED BY <2>1, <2>2, <2>3, <2>4
<1>14. Apart(kept)
  BY <1>10, <1>11, <1>13 DEF Apart
<1>15. \A i \in 1..Len(kept) : Identity(kept[i].path) \notin names
  <2>1. \A n \in stay : arts[n].role = "library" => ArtifactKey(arts[n].path) \notin names
    BY DEF Staying
  <2> QED BY <1>9, <1>11, <2>1
<1>16. ASSUME NEW i \in 1..Len(jars), Identity(jars[i].path) \notin names
       PROVE  \E j \in 1..Len(kept) : Identity(kept[j].path) = Identity(jars[i].path)
  <2> DEFINE n == e[i]
  <2>1. n \in 1..N /\ n \in L /\ jars[i] = arts[n]
    BY <1>6 DEF Places
  <2>2. arts[n].role = "library"
    BY <2>1
  <2> HIDE DEF n
  <2>3. ArtifactKey(arts[n].path) \notin names
    BY <1>9, <1>16, <2>1, <2>2
  <2>4. \A k \in 1..(n - 1) : k \in 1..N /\ k # n
    BY <1>1, <2>1
  <2>5. \A k \in 1..(n - 1) : arts[k].role = "library" =>
          ArtifactKey(arts[k].path) # ArtifactKey(arts[n].path)
    BY <1>9, <1>10, <2>1, <2>2, <2>4
  <2>6. n \in P
    BY <2>1, <2>2, <2>3, <2>5 DEF Staying, N
  <2>7. PICK j \in 1..Len(kept) : d[j] = n
    BY <1>7, <2>1, <2>6 DEF Places
  <2> QED BY <1>11, <2>1, <2>7
<1>17. \A n \in 1..Len(v.libraries) :
         IsApplicable(v.libraries[n], env) /\ HasJar(v.libraries[n]) =>
           \/ DedupKey(v.libraries[n].name) \in names
           \/ \E i \in 1..Len(kept) : Identity(kept[i].path) = DedupKey(v.libraries[n].name)
  BY <1>5, <1>16
<1> QED BY <1>12, <1>14, <1>15, <1>17 DEF StayRight, kept

------------------------------------------------------------------------------
(* The classpath *)

\* Libraries that came back in any order, each for one of the build, are in its order
\* again if no two of the build share a name.
Answers(source, libraries, order) ==
    /\ source \in [1..Len(libraries) -> 1..Len(order)]
    /\ \A n, k \in 1..Len(libraries) : source[n] = source[k] => n = k
    /\ \A m \in 1..Len(order) : \E n \in 1..Len(libraries) : source[n] = m
    /\ \A n \in 1..Len(libraries) : libraries[n].name = order[source[n]].name

\* The order digests came in is undone by sort_by_key.
LEMMA InOrderIs ==
    ASSUME NEW libraries \in Seq(LoaderLibrary), NEW order \in Seq(LoaderLibrary),
           NEW source, Answers(source, libraries, order),
           \A n, k \in 1..Len(order) : order[n].name = order[k].name => n = k,
           NEW out, out = InOrder(libraries, order)
    PROVE  Len(out) = Len(order) /\ \A n \in 1..Len(order) : out[n].name = order[n].name
<1> DEFINE Position(j) == SelectInSeq(order, LAMBDA l : l.name = libraries[j].name)
           Those(n) == {j \in DOMAIN libraries : Position(j) = n}
           At(n) == Chosen(libraries, Those(n))
           seqs == [n \in DOMAIN order |-> At(n)]
           M == Len(order)
           back == [m \in 1..M |-> CHOOSE n \in 1..Len(libraries) : source[n] = m]
           ordered == [m \in 1..M |-> libraries[back[m]]]
<1>1. out = FlattenSeq(seqs) /\ DOMAIN order = 1..M /\ M \in Nat /\ DOMAIN libraries = 1..Len(libraries)
  BY DEF InOrder
<1>2. /\ source \in [1..Len(libraries) -> 1..M]
      /\ \A n, k \in 1..Len(libraries) : source[n] = source[k] => n = k
      /\ \A m \in 1..M : \E n \in 1..Len(libraries) : source[n] = m
      /\ \A n \in 1..Len(libraries) : libraries[n].name = order[source[n]].name
  BY DEF Answers
<1>3. ASSUME NEW j \in 1..Len(libraries) PROVE Position(j) = source[j]
  <2> DEFINE good == {i \in 1..M : order[i].name = libraries[j].name}
  <2>1. Position(j) = IF good # {} THEN Min(good) ELSE 0
    BY DEF SelectInSeq
  <2>2. source[j] \in good /\ good \in SUBSET (1..M) /\ \A i \in good : i = source[j]
    BY <1>2
  <2>3. Min(good) \in good
    <3> HIDE DEF good
    <3> QED BY <1>1, <2>2, MinIn
  <2> HIDE DEF good, Position
  <2> QED BY <2>1, <2>2, <2>3
<1>4. \A m \in 1..M : back[m] \in 1..Len(libraries) /\ source[back[m]] = m
  BY <1>2
<1> HIDE DEF Position, back
<1>5. ASSUME NEW m \in 1..M PROVE At(m) = <<libraries[back[m]]>>
  <2>1. \A j \in 1..Len(libraries) : j \in Those(m) <=> j = back[m]
    BY <1>1, <1>2, <1>3, <1>4
  <2> HIDE DEF Those
  <2> QED BY <1>4, <2>1, ChosenOne
<1> HIDE DEF M
<1>6. ordered \in Seq(LoaderLibrary) /\ Len(ordered) = M /\ \A m \in 1..M : ordered[m] = libraries[back[m]]
  <2>1. \A m \in 1..M : libraries[back[m]] \in LoaderLibrary
    BY <1>4
  <2>2. ordered \in [1..M -> LoaderLibrary]
    BY <2>1
  <2> HIDE DEF ordered
  <2>3. ordered \in Seq(LoaderLibrary) /\ Len(ordered) = M
    BY <1>1, <2>2
  <2> QED BY <2>3 DEF ordered
<1> HIDE DEF ordered
<1>7. seqs = [m \in 1..Len(ordered) |-> <<ordered[m]>>]
  <2> HIDE DEF At
  <2>1. \A m \in 1..M : At(m) = <<ordered[m]>>
    BY <1>5, <1>6
  <2> QED BY <1>1, <1>6, <2>1
<1> HIDE DEF seqs
<1>8. out = ordered
  BY <1>1, <1>6, <1>7, FlattenOnes
<1>9. ASSUME NEW m \in 1..M PROVE ordered[m].name = order[m].name
  <2>1. back[m] \in 1..Len(libraries) /\ source[back[m]] = m
    BY <1>4
  <2>2. libraries[back[m]].name = order[source[back[m]]].name
    BY <1>2, <2>1
  <2> QED BY <1>6, <2>1, <2>2
<1> QED BY <1>6, <1>8, <1>9 DEF M

\* The libraries of a build have different names if those that are listed do.
LEMMA BuildNamed ==
    ASSUME PlanningInv, build # None, WellNamed
    PROVE  \A n, k \in 1..Len(build.libraries) :
             /\ build.libraries[n].name # Malformed /\ build.libraries[k].name # Malformed
             /\ DedupKey(build.libraries[n].name) = DedupKey(build.libraries[k].name)
             => n = k
<1>1. PICK listing \in Listing : \E n \in 1..Len(listing.entries) :
          /\ listing.entries \in Seq(Entry) /\ listing.entries[n].mainClass # None
          /\ build = BuildProfile(listing.kind, listing.entries[n])
  BY BuildListed
<1>2. PICK i \in 1..Len(listing.entries) :
          /\ listing.entries \in Seq(Entry) /\ listing.entries[i].mainClass # None
          /\ build = BuildProfile(listing.kind, listing.entries[i])
  BY <1>1
<1> DEFINE entry == listing.entries[i]
           libraries == Listed(entry)
<1>3. entry \in Entry /\ entry.mainClass # None /\ build = BuildProfile(listing.kind, entry)
  BY <1>2
<1>4. DOMAIN libraries = 1..Len(libraries)
  BY <1>3, ListedType
<1>5. \A n, k \in 1..Len(libraries) :
        /\ libraries[n].name # Malformed /\ libraries[k].name # Malformed
        /\ DedupKey(libraries[n].name) = DedupKey(libraries[k].name)
        => n = k
  <2>1. i \in DOMAIN listing.entries
    BY <1>2
  <2>2. \A n, k \in DOMAIN libraries :
          /\ Malformed \notin {libraries[n].name, libraries[k].name}
          /\ DedupKey(libraries[n].name) = DedupKey(libraries[k].name)
          => n = k
    BY <2>1 DEF WellNamed
  <2> HIDE DEF libraries
  <2> QED BY <1>4, <2>2
<1> HIDE DEF entry
<1>6. /\ Len(build.libraries) = Len(libraries)
      /\ \A n \in 1..Len(libraries) : build.libraries[n].name = libraries[n].name
  BY <1>3, BuildProfileType
<1> HIDE DEF libraries
<1> QED BY <1>5, <1>6

\* The libraries that are merged are those of the build, in its order, each of another
\* name.
LEMMA BuildOrdered ==
    ASSUME PlanningInv, Finished, build # None, WellNamed,
           NEW libraries, libraries = InOrder(arrived, build.libraries)
    PROVE  /\ Len(libraries) = Len(build.libraries) /\ Len(build.libraries) \in Nat
           /\ \A n \in 1..Len(libraries) : libraries[n].name = build.libraries[n].name
           /\ \A n, k \in 1..Len(libraries) :
                DedupKey(libraries[n].name) = DedupKey(libraries[k].name) => n = k
<1> DEFINE order == build.libraries
           N == Len(order)
<1>1. /\ order \in Seq(LoaderLibrary) /\ arrived \in Seq(Sound) /\ Len(arrived) = N
  BY Gathered
<1>2. /\ arrived \in Seq(LoaderLibrary)
      /\ \A n \in 1..N : arrived[n] # None /\ arrived[n].name # Malformed
  <2>1. None \notin LoaderLibrary
    BY PlanningAssumption
  <2> QED BY <1>1, <2>1, SoundSeq
<1>3. PICK source : Sources(source, arrived, {}, order, N)
  BY Gathered
<1>4. N \in Nat /\ \A m \in 1..N : order[m] \in LoaderLibrary
  BY <1>1
<1> HIDE DEF order, N
<1>5. /\ source \in [1..N -> 1..N]
      /\ \A n, k \in 1..N : source[n] = source[k] => n = k
      /\ \A m \in 1..N : \E n \in 1..N : source[n] = m
      /\ \A n \in 1..N : arrived[n] \in Checksums(order[source[n]])
  <2>1. \A m \in (1..N) \ {} : m \in 1..N
    OBVIOUS
  <2>2. (1..N) \ {} = 1..N
    OBVIOUS
  <2> QED BY <1>1, <1>3, <2>2 DEF Sources
<1>6. ASSUME NEW n \in 1..N PROVE arrived[n].name = order[source[n]].name
  <2>1. source[n] \in 1..N
    BY <1>5
  <2>2. order[source[n]] \in LoaderLibrary /\ arrived[n] \in Checksums(order[source[n]])
    BY <1>4, <1>5, <2>1
  <2> QED BY <1>2, <2>2, ChecksumsIs
<1>7. Answers(source, arrived, order)
  BY <1>1, <1>5, <1>6 DEF Answers, N
<1>8. ASSUME NEW m \in 1..N PROVE order[m].name # Malformed
  <2>1. PICK n \in 1..N : source[n] = m
    BY <1>5
  <2> QED BY <1>2, <1>6, <2>1
<1>9. \A n, k \in 1..N : DedupKey(order[n].name) = DedupKey(order[k].name) => n = k
  BY <1>8, BuildNamed DEF order, N
<1>10. \A n, k \in 1..N : order[n].name = order[k].name => n = k
  BY <1>9
<1>11. libraries = InOrder(arrived, order)
  BY DEF order
<1>12. Len(libraries) = N /\ \A n \in 1..N : libraries[n].name = order[n].name
  <2>1. \A n, k \in 1..Len(order) : order[n].name = order[k].name => n = k
    BY <1>10 DEF N
  <2>2. /\ Len(libraries) = Len(order)
        /\ \A n \in 1..Len(order) : libraries[n].name = order[n].name
    BY <1>1, <1>2, <1>7, <1>11, <2>1, InOrderIs
  <2> QED BY <2>2 DEF N
<1>13. \A n, k \in 1..N : DedupKey(libraries[n].name) = DedupKey(libraries[k].name) => n = k
  BY <1>9, <1>12
<1>14. Len(build.libraries) = N
  BY DEF N, order
<1>15. \A n \in 1..N : libraries[n].name = build.libraries[n].name
  BY <1>12 DEF order
<1> QED BY <1>4, <1>12, <1>13, <1>14, <1>15

\* Where an element of two sequences is.
LEMMA JoinedAt ==
    ASSUME NEW m \in Nat, NEW n \in Nat
    PROVE  \A i \in 1..(m + n) : i \in 1..m \/ \E j \in 1..n : i = m + j
<1> SUFFICES ASSUME NEW i \in 1..(m + n) PROVE i \in 1..m \/ \E j \in 1..n : i = m + j
  OBVIOUS
<1>1. CASE i <= m
  BY <1>1
<1>2. CASE i > m
  <2>1. i - m \in 1..n /\ i = m + (i - m)
    BY <1>2
  <2> QED BY <2>1
<1> QED BY <1>1, <1>2

\* Names that are apart stay so if no name is in both.
LEMMA ApartJoined ==
    ASSUME NEW s \in Seq(PlannedArtifact), NEW t \in Seq(PlannedArtifact), Apart(s), Apart(t),
           \A i \in 1..Len(s), k \in 1..Len(t) : Identity(s[i].path) # Identity(t[k].path)
    PROVE  Apart(s \o t)
<1> DEFINE u == s \o t
<1>1. /\ Len(s) \in Nat /\ Len(t) \in Nat /\ Len(u) = Len(s) + Len(t)
      /\ \A i \in 1..Len(s) : u[i] = s[i]
      /\ \A i \in 1..Len(t) : u[Len(s) + i] = t[i]
  BY Joined
<1> HIDE DEF u
<1>2. \A i \in 1..Len(u) : i \in 1..Len(s) \/ \E j \in 1..Len(t) : i = Len(s) + j
  <2>1. \A i \in 1..(Len(s) + Len(t)) : i \in 1..Len(s) \/ \E j \in 1..Len(t) : i = Len(s) + j
    BY <1>1, JoinedAt
  <2> QED BY <1>1, <2>1
<1>3. ASSUME NEW i \in 1..Len(u), NEW k \in 1..Len(u), Identity(u[i].path) = Identity(u[k].path)
      PROVE  i = k
  <2>1. CASE i \in 1..Len(s) /\ k \in 1..Len(s)
    <3>1. u[i] = s[i] /\ u[k] = s[k]
      BY <1>1, <2>1
    <3> QED BY <1>3, <2>1, <3>1 DEF Apart
  <2>2. ASSUME i \in 1..Len(s), NEW j \in 1..Len(t), k = Len(s) + j PROVE FALSE
    <3>1. u[i] = s[i] /\ u[k] = t[j]
      BY <1>1, <2>2
    <3> QED BY <1>3, <2>2, <3>1
  <2>3. ASSUME k \in 1..Len(s), NEW j \in 1..Len(t), i = Len(s) + j PROVE FALSE
    <3>1. u[k] = s[k] /\ u[i] = t[j]
      BY <1>1, <2>3
    <3>2. Identity(s[k].path) # Identity(t[j].path)
      BY <2>3
    <3> QED BY <1>3, <3>1, <3>2
  <2>4. ASSUME NEW j \in 1..Len(t), NEW l \in 1..Len(t), i = Len(s) + j, k = Len(s) + l
        PROVE  i = k
    <3>1. u[i] = t[j] /\ u[k] = t[l]
      BY <1>1, <2>4
    <3>2. j = l
      BY <1>3, <3>1 DEF Apart
    <3> QED BY <2>4, <3>2
  <2> QED BY <1>2, <2>1, <2>2, <2>3, <2>4
<1> QED BY <1>3 DEF Apart, u

\* The libraries of a build before others of other names.
Own == IF build = None THEN <<>> ELSE build.libraries

LibrariesRight(s) ==
    /\ s \in Seq(PlannedArtifact) /\ Apart(s)
    /\ Len(Own) \in Nat /\ Len(Own) <= Len(s)
    /\ \A n \in 1..Len(Own) : s[n].path = ToPath(Own[n].name)
    /\ \A n \in 1..Len(version.libraries) :
         /\ IsApplicable(version.libraries[n], machine.env)
         /\ HasJar(version.libraries[n])
         => \E k \in 1..Len(s) : Identity(s[k].path) = DedupKey(version.libraries[n].name)

\* Without a build they are those of the version.
LEMMA UnmergedRight ==
    ASSUME PlanningInv, Finished, build = None, WellNamed
    PROVE  LibrariesRight(OfRole(plan.artifacts, "library"))
<1> DEFINE jars == Planned(version, machine.env).jars
<1>1. version \in Version /\ plan.artifacts = Artifacts(version, machine.env)
  BY Unmerged
<1>2. OfRole(plan.artifacts, "library") = jars
  BY <1>1, ArtifactsRoles
<1>3. \A n \in 1..Len(version.libraries) : NamedWell(version.libraries[n])
  <2>1. version.libraries \in Seq(Library)
    BY <1>1, PlanningAssumption
  <2>2. DOMAIN version.libraries = 1..Len(version.libraries)
    BY <2>1
  <2> QED BY <1>1, <2>2 DEF WellNamed
<1>4. /\ Apart(jars)
      /\ \A n \in 1..Len(version.libraries) :
           IsApplicable(version.libraries[n], machine.env) /\ HasJar(version.libraries[n]) =>
             \E i \in 1..Len(jars) : Identity(jars[i].path) = DedupKey(version.libraries[n].name)
  <2> DEFINE env == machine.env
  <2>1. PlannedRight(Planned(version, env).jars, Planned(version, env).archives, version, env)
    <3> HIDE DEF env
    <3> QED BY <1>1, <1>3, PlannedHas
  <2>2. jars = Planned(version, env).jars
    OBVIOUS
  <2> HIDE DEF jars
  <2>3. PlannedRight(jars, Planned(version, env).archives, version, env)
    BY <2>1, <2>2
  <2> QED BY <2>3 DEF PlannedRight
<1>5. jars \in Seq(PlannedArtifact)
  BY <1>1, PlannedType
<1> HIDE DEF jars
<1>6. Own = <<>> /\ Len(Own) = 0 /\ Len(jars) \in Nat
  BY <1>5 DEF Own
<1>7. \A n \in 1..Len(Own) : jars[n].path = ToPath(Own[n].name)
  <2>1. 1..0 = {}
    OBVIOUS
  <2> QED BY <1>6, <2>1
<1> QED BY <1>2, <1>4, <1>5, <1>6, <1>7 DEF LibrariesRight

\* With one they are those of the build and what stays of the others.
LEMMA MergedRight ==
    ASSUME PlanningInv, Finished, build # None, WellNamed
    PROVE  LibrariesRight(OfRole(plan.artifacts, "library"))
<1> DEFINE libraries == InOrder(arrived, build.libraries)
           names == Names(libraries)
           first == OfBuild(libraries)
           kept == Stays(version, machine.env, names)
           all == OfRole(plan.artifacts, "library")
<1>1. /\ libraries \in Seq(LoaderLibrary) /\ version \in Version
      /\ \A n \in 1..Len(libraries) : libraries[n].name # Malformed
      /\ all = first \o kept
  BY Merging DEF Stays
<1>2. /\ Len(libraries) = Len(build.libraries) /\ Len(build.libraries) \in Nat
      /\ \A n \in 1..Len(libraries) : libraries[n].name = build.libraries[n].name
      /\ \A n, k \in 1..Len(libraries) :
           DedupKey(libraries[n].name) = DedupKey(libraries[k].name) => n = k
  BY BuildOrdered
<1> HIDE DEF libraries
<1>3. \A n \in 1..Len(version.libraries) : NamedWell(version.libraries[n])
  <2>1. version.libraries \in Seq(Library)
    BY <1>1, PlanningAssumption
  <2>2. DOMAIN version.libraries = 1..Len(version.libraries)
    BY <2>1
  <2> QED BY <1>1, <2>2 DEF WellNamed
<1>4. /\ kept \in Seq(PlannedArtifact)
      /\ Apart(kept) /\ \A i \in 1..Len(kept) : Identity(kept[i].path) \notin names
      /\ \A n \in 1..Len(version.libraries) :
           IsApplicable(version.libraries[n], machine.env) /\ HasJar(version.libraries[n]) =>
             \/ DedupKey(version.libraries[n].name) \in names
             \/ \E i \in 1..Len(kept) : Identity(kept[i].path) = DedupKey(version.libraries[n].name)
  <2> DEFINE env == machine.env
  <2>1. version \in Version
    BY <1>1
  <2> HIDE DEF names, env
  <2>2. StayRight(Stays(version, env, names), version, env, names)
    BY <1>3, <2>1, StaysRight
  <2>3. StayRight(kept, version, machine.env, names)
    BY <2>2 DEF env
  <2> HIDE DEF kept
  <2> QED BY <2>3 DEF StayRight
<1>5. first \in Seq(PlannedArtifact) /\ Len(first) = Len(libraries)
  BY <1>1, OfBuildType
<1>6. \A n \in 1..Len(libraries) :
        /\ first[n].path = ToPath(libraries[n].name)
        /\ Identity(first[n].path) = DedupKey(libraries[n].name)
  <2>1. \A n \in 1..Len(libraries) : first[n].path = ToPath(libraries[n].name)
    BY <1>1, OfBuildType
  <2>2. \A name : Identity(ToPath(name)) = DedupKey(name)
    BY DEF ToPath, Identity, DedupKey
  <2> QED BY <2>1, <2>2
<1>7. \A key : key \in names <=> \E n \in 1..Len(libraries) : DedupKey(libraries[n].name) = key
  <2>1. DOMAIN libraries = 1..Len(libraries)
    BY <1>1
  <2> QED BY <2>1 DEF Names
<1> HIDE DEF kept, first, names
<1>8. Apart(first)
  BY <1>2, <1>5, <1>6 DEF Apart
<1>9. \A i \in 1..Len(first), k \in 1..Len(kept) :
        Identity(first[i].path) # Identity(kept[k].path)
  BY <1>4, <1>5, <1>6, <1>7
<1>10. Apart(first \o kept)
  BY <1>4, <1>5, <1>8, <1>9, ApartJoined
<1>11. /\ first \o kept \in Seq(PlannedArtifact)
       /\ Len(first) \in Nat /\ Len(kept) \in Nat
       /\ Len(first \o kept) = Len(first) + Len(kept)
       /\ \A i \in 1..Len(first) : i \in 1..Len(first \o kept) /\ (first \o kept)[i] = first[i]
       /\ \A i \in 1..Len(kept) : /\ Len(first) + i \in 1..Len(first \o kept)
                                  /\ (first \o kept)[Len(first) + i] = kept[i]
  <2>1. first \in Seq(PlannedArtifact) /\ kept \in Seq(PlannedArtifact)
    BY <1>4, <1>5
  <2> QED BY <2>1, Joined
<1> HIDE DEF all
<1>12. all \in Seq(PlannedArtifact) /\ Apart(all)
  BY <1>1, <1>10, <1>11
<1>13. /\ Len(Own) \in Nat /\ Len(Own) <= Len(all)
       /\ \A n \in 1..Len(Own) : all[n].path = ToPath(Own[n].name)
  <2>1. Own = build.libraries /\ Len(Own) = Len(libraries)
    BY <1>2 DEF Own
  <2>2. Len(all) = Len(libraries) + Len(kept)
    BY <1>1, <1>5, <1>11
  <2>3. \A m, n \in Nat : m <= m + n
    OBVIOUS
  <2>4. Len(libraries) \in Nat /\ Len(libraries) <= Len(all)
    BY <1>5, <1>11, <2>2, <2>3
  <2>5. ASSUME NEW n \in 1..Len(libraries) PROVE all[n].path = ToPath(build.libraries[n].name)
    <3>1. all[n] = first[n]
      BY <1>1, <1>5, <1>11
    <3> QED BY <1>2, <1>6, <3>1
  <2> QED BY <2>1, <2>4, <2>5
<1>14. ASSUME NEW n \in 1..Len(version.libraries),
              IsApplicable(version.libraries[n], machine.env), HasJar(version.libraries[n])
       PROVE  \E k \in 1..Len(all) : Identity(all[k].path) = DedupKey(version.libraries[n].name)
  <2> DEFINE key == DedupKey(version.libraries[n].name)
  <2>1. key \in names \/ \E i \in 1..Len(kept) : Identity(kept[i].path) = key
    BY <1>4, <1>14
  <2> HIDE DEF key
  <2>2. CASE key \in names
    <3>1. PICK i \in 1..Len(libraries) : DedupKey(libraries[i].name) = key
      BY <1>7, <2>2
    <3>2. i \in 1..Len(all) /\ all[i] = first[i]
      BY <1>1, <1>5, <1>11
    <3> QED BY <1>6, <3>1, <3>2 DEF key
  <2>3. ASSUME NEW i \in 1..Len(kept), Identity(kept[i].path) = key
        PROVE  \E k \in 1..Len(all) : Identity(all[k].path) = key
    <3>1. Len(first) + i \in 1..Len(all) /\ all[Len(first) + i] = kept[i]
      BY <1>1, <1>11
    <3> QED BY <2>3, <3>1
  <2> QED BY <2>1, <2>2, <2>3 DEF key
<1> QED BY <1>12, <1>13, <1>14 DEF LibrariesRight, all

\* The classpath is the libraries and then the client.
LEMMA ClasspathIs ==
    ASSUME PlanningInv, Finished, NEW all, all = OfRole(plan.artifacts, "library"),
           all \in Seq(PlannedArtifact), NEW cp, cp = Classpath(plan.artifacts)
    PROVE  /\ Len(all) \in Nat /\ Len(cp) = Len(all) + 1 /\ cp[Len(all) + 1] = Client
           /\ \A i \in 1..Len(all) : cp[i] = all[i]
<1>1. cp = all \o <<Client>>
  BY OneClient DEF Classpath, OfRole
<1>2. Client \in PlannedArtifact
  BY DEF Client, Artifact, PlannedArtifact, Role, Digest
<1> HIDE DEF Client
<1>3. <<Client>> \in Seq(PlannedArtifact) /\ Len(<<Client>>) = 1 /\ <<Client>>[1] = Client /\ 1 \in 1..1
  BY <1>2
<1>4. /\ Len(all) \in Nat /\ Len(all \o <<Client>>) = Len(all) + 1
      /\ \A i \in 1..Len(all) : (all \o <<Client>>)[i] = all[i]
      /\ (all \o <<Client>>)[Len(all) + 1] = Client
  BY <1>3, Joined
<1> QED BY <1>1, <1>4

\* A library is for the machine if its rules say so.
LEMMA ForMachineIs ==
    ASSUME PlanningInv, Finished, NEW n \in 1..Len(version.libraries)
    PROVE  ForMachine(version.libraries[n]) <=> IsApplicable(version.libraries[n], machine.env)
<1>1. version \in Version
  BY DEF PlanningInv, PlanInv, Finished
<1>2. version.libraries \in Seq(Library)
  BY <1>1, PlanningAssumption
<1> DEFINE rules == version.libraries[n].rules
<1>3. rules \in Seq(Rule)
  <2>1. version.libraries[n] \in Library
    BY <1>2
  <2> QED BY <2>1 DEF Library
<1>4. Evaluate(rules, machine.env) <=>
        \/ rules = <<>>
        \/ \E i \in DOMAIN rules :
             /\ Matches(rules[i], machine.env) /\ rules[i].action = "allow"
             /\ \A k \in DOMAIN rules : k > i => ~Matches(rules[k], machine.env)
  <2> HIDE DEF rules
  <2> QED BY <1>3, EvaluateIs
<1> QED BY <1>4 DEF ForMachine, IsApplicable

\* The natives for the machine are in the plan.
LEMMA NativesPlanned ==
    ASSUME PlanningInv, Finished, WellNamed, NEW n \in 1..Len(version.libraries),
           IsApplicable(version.libraries[n], machine.env),
           NativeClassifier(version.libraries[n], machine.env) \in version.libraries[n].classifiers
    PROVE  \E k \in 1..Len(plan.artifacts) :
             /\ plan.artifacts[k].role = "native"
             /\ plan.artifacts[k].path =
                  <<version.libraries[n].name, NativeClassifier(version.libraries[n], machine.env)>>
<1> DEFINE archives == Planned(version, machine.env).archives
           arts == plan.artifacts
           P == {i \in DOMAIN arts : arts[i].role = "native"}
<1>1. version \in Version /\ \A i \in 1..Len(version.libraries) : NamedWell(version.libraries[i])
  <2>1. version \in Version
    BY DEF PlanningInv, PlanInv, Finished
  <2>2. version.libraries \in Seq(Library)
    BY <2>1, PlanningAssumption
  <2>3. DOMAIN version.libraries = 1..Len(version.libraries)
    BY <2>2
  <2> QED BY <2>1, <2>3 DEF WellNamed
<1>2. PICK i \in 1..Len(archives) :
          /\ archives[i].role = "native"
          /\ archives[i].path =
               <<version.libraries[n].name, NativeClassifier(version.libraries[n], machine.env)>>
  <2> DEFINE env == machine.env
             classifier == NativeClassifier(version.libraries[n], env)
  <2>1. IsApplicable(version.libraries[n], env) /\ classifier \in version.libraries[n].classifiers
    OBVIOUS
  <2>2. PlannedRight(Planned(version, env).jars, Planned(version, env).archives, version, env)
    <3> HIDE DEF env
    <3> QED BY <1>1, PlannedHas
  <2>3. archives = Planned(version, env).archives
    OBVIOUS
  <2> HIDE DEF archives, env
  <2>4. \E i \in 1..Len(archives) :
          archives[i].role = "native" /\ archives[i].path = <<version.libraries[n].name, classifier>>
    BY <2>1, <2>2, <2>3 DEF PlannedRight
  <2> QED BY <2>4 DEF env
<1>3. archives = Chosen(arts, P)
  BY OneClient DEF OfRole
<1>4. arts \in Seq(PlannedArtifact)
  <2>1. pc # "idle"
    BY DEF Finished
  <2> QED BY <2>1, PlanTyped DEF Plan
<1> HIDE DEF archives, arts, P
<1>5. PICK e : Places(e, archives, arts, Len(arts), P)
  BY <1>3, <1>4, ChosenPlaces
<1>6. e[i] \in 1..Len(arts) /\ archives[i] = arts[e[i]]
  BY <1>2, <1>5 DEF Places
<1> QED BY <1>2, <1>6 DEF arts

\* What the invariant says of the classpath.
LEMMA ClasspathFollows == ASSUME WellNamed PROVE PlanningInv => ClasspathRight
<1> SUFFICES ASSUME PlanningInv, Finished PROVE ClasspathRight
  BY DEF ClasspathRight
<1> DEFINE cp == Classpath(plan.artifacts)
           all == OfRole(plan.artifacts, "library")
           N == Len(all)
<1>1. LibrariesRight(all)
  BY UnmergedRight, MergedRight
<1>2. /\ N \in Nat /\ Len(cp) = N + 1 /\ cp[N + 1] = Client
      /\ \A i \in 1..N : cp[i] = all[i]
  <2>1. all \in Seq(PlannedArtifact)
    BY <1>1 DEF LibrariesRight
  <2> HIDE DEF cp, all
  <2> QED BY <2>1, ClasspathIs DEF cp, all
<1> HIDE DEF cp, all, N
<1>3. /\ Apart(all) /\ Len(Own) \in Nat /\ Len(Own) <= N
      /\ \A n \in 1..Len(Own) : all[n].path = ToPath(Own[n].name)
      /\ \A n \in 1..Len(version.libraries) :
           IsApplicable(version.libraries[n], machine.env) /\ HasJar(version.libraries[n]) =>
             \E k \in 1..N : Identity(all[k].path) = DedupKey(version.libraries[n].name)
  BY <1>1 DEF LibrariesRight, N
<1>4. 1..(Len(cp) - 1) = 1..N /\ Len(Own) < Len(cp)
  <2>1. \A m, n \in Nat : (n + 1) - 1 = n /\ (m <= n => m < n + 1)
    OBVIOUS
  <2> QED BY <1>2, <1>3, <2>1
<1>5. cp[Len(cp)].role = "client"
  BY <1>2 DEF Client, Artifact
<1>6. \A n \in DOMAIN Own : cp[n].path = ToPath(Own[n].name)
  <2>1. DOMAIN Own = 1..Len(Own)
    <3>1. build # None => build.libraries \in Seq(LoaderLibrary)
      BY BuildType
    <3>2. Own \in Seq(LoaderLibrary)
      BY <3>1 DEF Own
    <3> QED BY <3>2
  <2>2. \A n \in 1..Len(Own) : n \in 1..N
    BY <1>2, <1>3
  <2> QED BY <1>2, <1>3, <2>1, <2>2
<1>7. \A n, k \in 1..N : Identity(cp[n].path) = Identity(cp[k].path) => n = k
  BY <1>2, <1>3 DEF Apart, N
<1> DEFINE libraries == {n \in DOMAIN version.libraries : ForMachine(version.libraries[n])}
<1>8. \A n \in libraries : /\ n \in 1..Len(version.libraries)
                           /\ IsApplicable(version.libraries[n], machine.env)
  <2>1. version \in Version
    BY DEF PlanningInv, PlanInv, Finished
  <2>2. version.libraries \in Seq(Library)
    BY <2>1, PlanningAssumption
  <2>3. DOMAIN version.libraries = 1..Len(version.libraries)
    BY <2>2
  <2> QED BY <2>3, ForMachineIs
<1> HIDE DEF libraries
<1>9. \A n \in libraries : HasJar(version.libraries[n]) =>
        \E k \in 1..N : Identity(cp[k].path) = DedupKey(version.libraries[n].name)
  BY <1>2, <1>3, <1>8
<1>10. \A n \in libraries :
         NativeClassifier(version.libraries[n], machine.env) \in version.libraries[n].classifiers =>
           \E k \in DOMAIN plan.artifacts :
             /\ plan.artifacts[k].role = "native"
             /\ plan.artifacts[k].path =
                  <<version.libraries[n].name, NativeClassifier(version.libraries[n], machine.env)>>
  <2>1. DOMAIN plan.artifacts = 1..Len(plan.artifacts)
    <3>1. pc # "idle"
      BY DEF Finished
    <3>2. plan.artifacts \in Seq(PlannedArtifact)
      BY <3>1, PlanTyped DEF Plan
    <3> QED BY <3>2
  <2> QED BY <1>8, <2>1, NativesPlanned
<1>11. ClasspathRight <=>
         /\ cp[Len(cp)].role = "client"
         /\ Len(Own) < Len(cp)
         /\ \A n \in DOMAIN Own : cp[n].path = ToPath(Own[n].name)
         /\ \A n, k \in 1..(Len(cp) - 1) : Identity(cp[n].path) = Identity(cp[k].path) => n = k
         /\ \A n \in libraries : HasJar(version.libraries[n]) =>
              \E k \in 1..(Len(cp) - 1) : Identity(cp[k].path) = DedupKey(version.libraries[n].name)
         /\ \A n \in libraries :
              NativeClassifier(version.libraries[n], machine.env) \in version.libraries[n].classifiers =>
                \E k \in DOMAIN plan.artifacts :
                  /\ plan.artifacts[k].role = "native"
                  /\ plan.artifacts[k].path =
                       <<version.libraries[n].name, NativeClassifier(version.libraries[n], machine.env)>>
  BY DEF ClasspathRight, cp, Own, libraries
<1> QED BY <1>4, <1>5, <1>6, <1>7, <1>9, <1>10, <1>11

\* The libraries of the build come first, in its order, then those of the version that
\* it does not replace; none is missing, none is there twice, and the client is last.
THEOREM ClasspathsRight == ASSUME WellNamed PROVE Spec => []ClasspathRight
BY ClasspathFollows, PlanningHolds, PTL
==============================================================================
