---------------------------- MODULE AccountsProofs ----------------------------
(***************************************************************************)
(* The registry of accounts is well formed whatever requests overlap.  No  *)
(* lock protects it, so its steps are proved safe one at a time: a thread  *)
(* saves what it has made of a registry that was well formed when it was   *)
(* loaded, however old it is by then.                                      *)
(*                                                                         *)
(* The selection is kept until a request reads the registry between        *)
(* another's read and write of it, however many of them overlap otherwise: *)
(* until then only one saves (OneSaves), and what it has made of the       *)
(* registry keeps the selection (Held).  What a request is told is so if   *)
(* it has the daemon to itself (Only), whatever was left to it.            *)
(***************************************************************************)
EXTENDS Accounts, TLAPS

Injective(s) == \A i, j \in 1..Len(s) : s[i] = s[j] => i = j

(* Retaining the other accounts keeps a list of accounts, without doubles. *)
LEMMA WithoutType ==
    ASSUME NEW s \in Seq(Account), NEW u
    PROVE  Without(s, u) \in Seq(Account)
<1>1. CASE u \notin Elements(s)
  BY <1>1 DEF Without
<1>2. CASE u \in Elements(s)
  <2> DEFINE i == CHOOSE j \in 1..Len(s) : s[j] = u
  <2>1. i \in 1..Len(s)
    BY <1>2 DEF Elements
  <2>2. Without(s, u) = [k \in 1..Len(s) - 1 |-> IF k < i THEN s[k] ELSE s[k + 1]]
    BY <1>2 DEF Without
  <2> HIDE DEF i
  <2>3. Len(s) - 1 \in Nat
    BY <2>1
  <2>4. \A k \in 1..Len(s) - 1 : s[k] \in Account /\ s[k + 1] \in Account
    OBVIOUS
  <2> QED
    BY <2>2, <2>3, <2>4
<1> QED
  BY <1>1, <1>2

LEMMA WithoutRest ==
    ASSUME NEW s \in Seq(Account), NEW u, Injective(s)
    PROVE  /\ Injective(Without(s, u))
           /\ Elements(Without(s, u)) = Elements(s) \ {u}
<1>1. CASE u \notin Elements(s)
  BY <1>1 DEF Without
<1>2. CASE u \in Elements(s)
  <2> DEFINE i == CHOOSE j \in 1..Len(s) : s[j] = u
             w == [k \in 1..Len(s) - 1 |-> IF k < i THEN s[k] ELSE s[k + 1]]
  <2>1. i \in 1..Len(s) /\ s[i] = u
    BY <1>2 DEF Elements
  <2>2. Without(s, u) = w
    BY <1>2 DEF Without
  <2> HIDE DEF i
  <2>3. Len(w) = Len(s) - 1 /\ w \in Seq(Account)
    BY <2>1, <2>2, WithoutType
  <2>4. \A k \in 1..Len(w) : w[k] = IF k < i THEN s[k] ELSE s[k + 1]
    BY <2>3
  <2>5. Injective(w)
    BY <2>1, <2>3, <2>4 DEF Injective
  <2> HIDE DEF w
  <2>6. ASSUME NEW k \in 1..Len(w) PROVE w[k] \in Elements(s) \ {u}
    BY <2>1, <2>3, <2>4 DEF Injective, Elements
  <2>7. ASSUME NEW k \in 1..Len(s), s[k] # u PROVE s[k] \in Elements(w)
    <3>1. CASE k < i
      <4>1. k \in 1..Len(w) /\ w[k] = s[k]
        BY <3>1, <2>1, <2>3, <2>4
      <4> QED
        BY <4>1 DEF Elements
    <3>2. CASE ~(k < i)
      <4>1. k # i /\ k - 1 \in 1..Len(w) /\ ~(k - 1 < i)
        BY <3>2, <2>1, <2>3, <2>7
      <4>2. w[k - 1] = s[k]
        BY <4>1, <2>4
      <4> QED
        BY <4>1, <4>2 DEF Elements
    <3> QED
      BY <3>1, <3>2
  <2>8. Elements(w) \subseteq Elements(s) \ {u}
    BY <2>6 DEF Elements
  <2>9. Elements(s) \ {u} \subseteq Elements(w)
    BY <2>7 DEF Elements
  <2> QED
    BY <2>2, <2>5, <2>8, <2>9
<1> QED
  BY <1>1, <1>2

(* What the operations make of a registry is a registry. *)
LEMMA UpdatedType ==
    ASSUME NEW r \in Registry, NEW u \in Account,
           NEW kind \in {"signIn", "launch", "select", "forget"}
    PROVE  Updated(kind, r, u) \in Registry
<1> DEFINE w == Without(r.accounts, u)
<1>1. r.accounts \in Seq(Account) /\ r.active \in Account \cup {NoAccount}
  BY DEF Registry
<1>2. w \in Seq(Account)
  BY <1>1, WithoutType
<1> HIDE DEF w
<1>3. CASE kind \in {"signIn", "launch"}
  BY <1>1, <1>2, <1>3 DEF Updated, Remembered, Registry, w
<1>4. CASE kind = "select"
  BY <1>4 DEF Updated, Selected, Registry
<1>5. CASE kind = "forget"
  <2>1. w # <<>> => w[1] \in Account
    BY <1>2
  <2>2. Forgotten(r, u) =
          [active |-> CASE r.active # u -> r.active
                       [] r.active = u /\ w = <<>> -> NoAccount
                       [] r.active = u /\ w # <<>> -> w[1],
           accounts |-> w]
    BY DEF Forgotten, w
  <2> QED
    BY <1>1, <1>2, <1>5, <2>1, <2>2 DEF Updated, Registry
<1> QED
  BY <1>3, <1>4, <1>5

(* And it is well formed if the registry was, and the account selected was in it. *)
LEMMA UpdatedWellFormed ==
    ASSUME NEW r \in Registry, NEW u \in Account, WellFormed(r),
           NEW kind \in {"signIn", "launch", "select", "forget"},
           kind = "select" => u \in Listed(r)
    PROVE  WellFormed(Updated(kind, r, u))
<1> DEFINE w == Without(r.accounts, u)
<1>1. r.accounts \in Seq(Account) /\ r.active \in Account \cup {NoAccount}
  BY DEF Registry
<1>2. Injective(r.accounts)
  BY DEF WellFormed, Injective
<1>3. w \in Seq(Account) /\ Injective(w) /\ Elements(w) = Listed(r) \ {u}
  BY <1>1, <1>2, WithoutType, WithoutRest DEF Listed
<1>4. NoAccount \notin Account
  BY AccountsAssumption
<1>5. CASE kind \in {"signIn", "launch"}
  <2> DEFINE a == IF r.active = NoAccount THEN u ELSE r.active
             v == Append(w, u)
  <2>1. Updated(kind, r, u) = [active |-> a, accounts |-> v]
    BY <1>5 DEF Updated, Remembered
  <2> HIDE DEF w
  <2>2. v \in Seq(Account) /\ Len(v) = Len(w) + 1 /\ v[Len(w) + 1] = u
        /\ \A i \in 1..Len(w) : v[i] = w[i]
    BY <1>3
  <2> HIDE DEF v
  <2>3. \A i \in 1..Len(w) : w[i] # u
    BY <1>3 DEF Elements
  <2>4. Injective(v)
    BY <1>3, <2>2, <2>3 DEF Injective
  <2>5. Elements(v) = Listed(r) \cup {u}
    <3>1. Elements(v) = Elements(w) \cup {u}
      BY <1>3, <2>2 DEF Elements
    <3> QED
      BY <3>1, <1>3
  <2>6. a \in Elements(v)
    BY <1>1, <2>5 DEF WellFormed, Listed, Elements
  <2>7. v # <<>>
    BY <1>3, <2>2
  <2> QED
    BY <2>1, <2>4, <2>6, <2>7 DEF WellFormed, Injective, Listed
<1>6. CASE kind = "select"
  <2>1. Updated(kind, r, u) = Selected(r, u)
    BY <1>6 DEF Updated
  <2>2. Selected(r, u).accounts = r.accounts /\ Selected(r, u).active = u
    BY DEF Selected, Registry
  <2>3. r.accounts # <<>>
    BY <1>6 DEF Listed, Elements
  <2> QED
    BY <1>6, <2>1, <2>2, <2>3 DEF WellFormed, Listed
<1>7. CASE kind = "forget"
  <2> DEFINE a == CASE r.active # u -> r.active
                    [] r.active = u /\ w = <<>> -> NoAccount
                    [] r.active = u /\ w # <<>> -> w[1]
  <2>1. Updated(kind, r, u) = [active |-> a, accounts |-> w]
    BY <1>7 DEF Updated, Forgotten
  <2> HIDE DEF w
  <2>2. w # <<>> => w[1] \in Elements(w)
    BY <1>3 DEF Elements
  <2>3. w = <<>> => Elements(w) = {}
    BY DEF Elements
  <2>4. w = <<>> => a = NoAccount
    <3>1. r.active # u /\ w = <<>> => r.accounts = <<>>
      <4>1. r.accounts # <<>> => r.active \in Listed(r)
        BY DEF WellFormed
      <4> QED
        BY <4>1, <1>3, <2>3
    <3> QED
      BY <3>1 DEF WellFormed
  <2>5. w # <<>> => a \in Elements(w)
    <3>1. w # <<>> => r.accounts # <<>>
      <4>1. r.accounts = <<>> => Listed(r) = {}
        BY DEF Listed, Elements
      <4> QED
        BY <4>1, <1>3, <2>2
    <3>2. w # <<>> => r.active \in Listed(r)
      BY <3>1 DEF WellFormed
    <3> QED
      BY <3>2, <2>2, <1>3
  <2> QED
    BY <1>3, <2>1, <2>4, <2>5 DEF WellFormed, Injective, Listed
<1> QED
  BY <1>5, <1>6, <1>7

------------------------------------------------------------------------------
(* The inductive invariant *)

\* What each thread holds: an account once it has found one, and a well-formed
\* registry from the moment it has made it until it is saved.
OpOK(r) ==
    /\ r \in Op
    /\ r.pc # "idle" => r.kind # "none"
    /\ r.pc \notin {"idle", "lookup"} => r.uuid \in Account
    /\ r.pc \in {"truncate", "write"} => WellFormed(r.reg)

IInv ==
    /\ TypeOK
    /\ RegistryWellFormed
    /\ \A t \in Thread : OpOK(op[t])

LEMMA EmptyRegistry == NoRegistry \in Registry /\ WellFormed(NoRegistry) /\ NoTokens \in Tokens
<1>1. <<>> \in Seq(Account) /\ Len(<<>>) = 0
  OBVIOUS
<1> QED
  BY <1>1 DEF NoRegistry, Registry, WellFormed, NoTokens, Tokens

LEMMA IdleOK ==
    ASSUME NEW kind \in Kind, NEW u \in Account \cup {NoAccount},
           NEW result \in {"none", "ok", "error"}
    PROVE  OpOK([Idle EXCEPT !.kind = kind, !.uuid = u, !.result = result])
BY EmptyRegistry DEF OpOK, Op, Idle, Pc

LEMMA InitOK == Init => IInv
<1> SUFFICES ASSUME Init PROVE IInv
  OBVIOUS
<1>1. OpOK(Idle)
  BY EmptyRegistry DEF OpOK, Op, Idle, Pc, Kind
<1>2. \A t \in Thread : op[t] = Idle
  BY DEF Init
<1>3. TypeOK
  BY <1>1, EmptyRegistry DEF Init, TypeOK, OpOK
<1>4. RegistryWellFormed
  BY EmptyRegistry DEF Init, RegistryWellFormed
<1> QED
  BY <1>1, <1>2, <1>3, <1>4 DEF IInv

\* A step of one thread keeps the invariant if what it leaves of that thread, of
\* the registry and of the secrets is in order.
LEMMA ThreadStep ==
    ASSUME IInv, NEW t \in Thread, NEW r, OpOK(r),
           op' = [op EXCEPT ![t] = r],
           registry' \in Registry \cup Torn, RegistryWellFormed',
           secrets' \in [keyring : Tokens, file : Tokens \cup Torn],
           backing' = backing, chosen' \in Account \cup {NoAccount}
    PROVE  IInv'
<1>1. r \in Op
  BY DEF OpOK
<1>2. op \in [Thread -> Op]
  BY DEF IInv, TypeOK
<1>3. op' \in [Thread -> Op]
  BY <1>1, <1>2
<1>4. \A s \in Thread : op'[s] = IF s = t THEN r ELSE op[s]
  BY <1>2
<1>5. \A s \in Thread : OpOK(op'[s])
  BY <1>4 DEF IInv
<1> QED
  BY <1>3, <1>5 DEF IInv, TypeOK

\* What the changes to a thread's state leave of it.
LEMMA OpChanges ==
    ASSUME NEW r, OpOK(r)
    PROVE  /\ \A pc \in {"renewing", "setRefresh", "setSession"} :
                r.pc \notin {"idle", "lookup"} => OpOK([r EXCEPT !.pc = pc])
           /\ \A u \in Account :
                r.pc = "lookup" => OpOK([r EXCEPT !.pc = "renewing", !.uuid = u])
           /\ \A tokens \in Tokens :
                OpOK([r EXCEPT !.stage = "truncate", !.tokens = tokens])
           /\ OpOK([r EXCEPT !.stage = "write"])
           /\ \A reg \in Registry :
                r.pc = "load" /\ WellFormed(reg) => OpOK([r EXCEPT !.pc = "truncate", !.reg = reg])
           /\ r.pc = "truncate" => OpOK([r EXCEPT !.pc = "write"])
           /\ r.pc = "write" => OpOK([r EXCEPT !.pc = "delRefresh"])
           /\ \A pc \in {"setSession", "load", "delSession"} :
                r.pc \notin {"idle", "lookup"} =>
                    OpOK([r EXCEPT !.stage = "read", !.tokens = NoTokens, !.pc = pc])
<1>1. \A pc \in {"renewing", "setRefresh", "setSession"} :
        r.pc \notin {"idle", "lookup"} => OpOK([r EXCEPT !.pc = pc])
  BY DEF OpOK, Op, Pc, SecretPc
<1>2. \A u \in Account :
        r.pc = "lookup" => OpOK([r EXCEPT !.pc = "renewing", !.uuid = u])
  BY DEF OpOK, Op, Pc, SecretPc
<1>3. \A tokens \in Tokens : OpOK([r EXCEPT !.stage = "truncate", !.tokens = tokens])
  BY DEF OpOK, Op, Pc, SecretPc
<1>4. OpOK([r EXCEPT !.stage = "write"])
  BY DEF OpOK, Op, Pc, SecretPc
<1>5. \A reg \in Registry :
        r.pc = "load" /\ WellFormed(reg) => OpOK([r EXCEPT !.pc = "truncate", !.reg = reg])
  BY DEF OpOK, Op, Pc, SecretPc
<1>6. r.pc = "truncate" => OpOK([r EXCEPT !.pc = "write"])
  BY DEF OpOK, Op, Pc, SecretPc
<1>7. r.pc = "write" => OpOK([r EXCEPT !.pc = "delRefresh"])
  BY DEF OpOK, Op, Pc, SecretPc
<1>8. \A pc \in {"setSession", "load", "delSession"} :
        r.pc \notin {"idle", "lookup"} =>
            OpOK([r EXCEPT !.stage = "read", !.tokens = NoTokens, !.pc = pc])
  BY EmptyRegistry DEF OpOK, Op, Pc, SecretPc
<1> QED
  BY <1>1, <1>2, <1>3, <1>4, <1>5, <1>6, <1>7, <1>8

\* A thread that ends its request, or goes on after a token, is in order.
LEMMA ReturnOK ==
    ASSUME IInv, NEW t \in Thread, NEW result \in {"ok", "error"}, Return(t, result)
    PROVE  \E r : OpOK(r) /\ op' = [op EXCEPT ![t] = r]
<1>1. op[t].kind \in Kind /\ op[t].uuid \in Account \cup {NoAccount}
  BY DEF IInv, OpOK, Op
<1> QED
  BY <1>1, IdleOK DEF Return

LEMMA FailedOK ==
    ASSUME IInv, NEW t \in Thread, Failed(t)
    PROVE  \E r : OpOK(r) /\ op' = [op EXCEPT ![t] = r]
BY ReturnOK DEF Failed

LEMMA AdvanceOK ==
    ASSUME IInv, NEW t \in Thread, op[t].pc \in SecretPc, Advance(t)
    PROVE  \E r : OpOK(r) /\ op' = [op EXCEPT ![t] = r]
<1>1. CASE op[t].pc = "delSession"
  BY <1>1, ReturnOK DEF Advance
<1>2. CASE op[t].pc # "delSession"
  <2> DEFINE pc == CASE op[t].pc = "setRefresh" -> "setSession"
                     [] op[t].pc = "setSession" -> "load"
                     [] op[t].pc = "delRefresh" -> "delSession"
             r == [op[t] EXCEPT !.stage = "read", !.tokens = NoTokens, !.pc = pc]
  <2>1. pc \in {"setSession", "load", "delSession"}
    BY <1>2 DEF SecretPc
  <2>2. op[t].pc \notin {"idle", "lookup"}
    BY DEF SecretPc
  <2>3. op' = [op EXCEPT ![t] = r]
    BY <1>2 DEF Advance
  <2> HIDE DEF pc
  <2>4. OpOK(r)
    BY <2>1, <2>2, OpChanges DEF IInv
  <2> QED
    BY <2>3, <2>4
<1> QED
  BY <1>1, <1>2

LEMMA ChangedType ==
    ASSUME NEW tokens \in Tokens, NEW u, NEW pc \in SecretPc
    PROVE  Changed(tokens, u, pc) \in Tokens
BY DEF Changed, Tokens, SecretPc

LEMMA WrittenKinds ==
    ASSUME NEW file, NEW text, NEW held \in Written(file, text)
    PROVE  held = text \/ held \in Torn
BY DEF Written, Torn

------------------------------------------------------------------------------
(* Every step keeps it *)

LEMMA SecretSteps ==
    ASSUME IInv, NEW t \in Thread, Keyring(t) \/ FileRead(t) \/ FileTruncate(t) \/ FileWrite(t)
    PROVE  IInv'
<1> DEFINE Step == \E r : OpOK(r) /\ op' = [op EXCEPT ![t] = r]
<1>1. secrets \in [keyring : Tokens, file : Tokens \cup Torn]
  BY DEF IInv, TypeOK
<1>2. OpOK(op[t]) /\ op[t].tokens \in Tokens
  BY DEF IInv, OpOK, Op
<1>3. ASSUME Step, secrets' \in [keyring : Tokens, file : Tokens \cup Torn],
             registry' = registry, backing' = backing, chosen' = chosen
      PROVE  IInv'
  BY <1>3, ThreadStep DEF IInv, TypeOK, RegistryWellFormed
<1>4. CASE Keyring(t)
  <2>1. Step
    BY <1>4, AdvanceOK DEF Keyring
  <2>2. /\ op[t].pc \in SecretPc
        /\ secrets' = [secrets EXCEPT !.keyring = Changed(secrets.keyring, op[t].uuid, op[t].pc)]
        /\ UNCHANGED <<registry, backing, chosen>>
    BY <1>4 DEF Keyring
  <2>3. Changed(secrets.keyring, op[t].uuid, op[t].pc) \in Tokens
    BY <1>1, <2>2, ChangedType
  <2> QED
    BY <1>1, <1>3, <2>1, <2>2, <2>3
<1>5. CASE FileRead(t)
  <2>1. UNCHANGED <<registry, secrets, backing, chosen>> /\ op[t].pc \in SecretPc
    BY <1>5 DEF FileRead
  <2>2. CASE secrets.file \in Torn
    BY <1>1, <1>3, <1>5, <2>1, <2>2, FailedOK DEF FileRead
  <2>3. CASE secrets.file \notin Torn
    <3> DEFINE tokens == Changed(secrets.file, op[t].uuid, op[t].pc)
    <3>1. tokens \in Tokens
      BY <1>1, <2>1, <2>3, ChangedType
    <3>2. op' = [op EXCEPT ![t] = [op[t] EXCEPT !.stage = "truncate", !.tokens = tokens]]
      BY <1>5, <2>3 DEF FileRead
    <3> HIDE DEF tokens
    <3>3. OpOK([op[t] EXCEPT !.stage = "truncate", !.tokens = tokens])
      BY <1>2, <3>1, OpChanges
    <3> QED
      BY <1>1, <1>3, <2>1, <3>2, <3>3
  <2> QED
    BY <2>2, <2>3
<1>6. CASE FileTruncate(t)
  <2>1. op' = [op EXCEPT ![t] = [op[t] EXCEPT !.stage = "write"]]
    BY <1>6 DEF FileTruncate
  <2>2. secrets' = [secrets EXCEPT !.file = Empty] /\ UNCHANGED <<registry, backing, chosen>>
    BY <1>6 DEF FileTruncate
  <2>3. OpOK([op[t] EXCEPT !.stage = "write"])
    BY <1>2, OpChanges
  <2> QED
    BY <1>1, <1>3, <2>1, <2>2, <2>3 DEF Torn
<1>7. CASE FileWrite(t)
  <2>1. Step
    BY <1>7, AdvanceOK, FailedOK DEF FileWrite
  <2>2. PICK text \in Written(secrets.file, op[t].tokens) : secrets' = [secrets EXCEPT !.file = text]
    BY <1>7 DEF FileWrite
  <2>3. text \in Tokens \cup Torn
    BY <1>2, WrittenKinds
  <2>4. UNCHANGED <<registry, backing, chosen>>
    BY <1>7 DEF FileWrite
  <2> QED
    BY <1>1, <1>3, <2>1, <2>2, <2>3, <2>4
<1> QED
  BY <1>4, <1>5, <1>6, <1>7

LEMMA RequestSteps ==
    ASSUME IInv, NEW t \in Thread, Begin(t) \/ Lookup(t) \/ Renewed(t) \/ Fail(t)
    PROVE  IInv'
<1> DEFINE Step == \E r : OpOK(r) /\ op' = [op EXCEPT ![t] = r]
<1>1. OpOK(op[t]) /\ op[t].uuid \in Account \cup {NoAccount}
  BY DEF IInv, OpOK, Op
<1>2. UNCHANGED <<registry, secrets, backing, chosen>>
  BY DEF Begin, Lookup, Renewed, Fail
<1>3. Step => IInv'
  BY <1>2, ThreadStep DEF IInv, TypeOK, RegistryWellFormed
<1>4. CASE Begin(t)
  <2>1. PICK u \in Account \cup {NoAccount}, kind \in {"signIn", "launch", "select", "forget"} :
          /\ u = NoAccount => kind = "launch"
          /\ op' = [op EXCEPT ![t] =
                 [Idle EXCEPT !.kind = kind, !.uuid = u,
                              !.pc = CASE kind = "signIn" -> "setRefresh"
                                       [] kind = "launch" -> "lookup"
                                       [] OTHER -> "load"]]
    BY <1>4 DEF Begin
  <2> DEFINE pc == CASE kind = "signIn" -> "setRefresh"
                     [] kind = "launch" -> "lookup"
                     [] OTHER -> "load"
  <2>2. pc \in {"setRefresh", "lookup", "load"} /\ (pc = "lookup" <=> kind = "launch")
    OBVIOUS
  <2>3. op' = [op EXCEPT ![t] = [Idle EXCEPT !.kind = kind, !.uuid = u, !.pc = pc]]
    BY <2>1
  <2> HIDE DEF pc
  <2>4. OpOK([Idle EXCEPT !.kind = kind, !.uuid = u, !.pc = pc])
    BY <2>1, <2>2, EmptyRegistry DEF OpOK, Op, Idle, Kind, Pc, SecretPc
  <2> QED
    BY <1>3, <2>3, <2>4
<1>5. CASE Lookup(t)
  <2>1. CASE Return(t, "ok") \/ Return(t, "error")
    BY <1>3, <2>1, ReturnOK
  <2>2. CASE ~(Return(t, "ok") \/ Return(t, "error"))
    <3>1. PICK u \in Listed(registry) :
            registry \notin Torn /\ op' = [op EXCEPT ![t] = [op[t] EXCEPT !.pc = "renewing", !.uuid = u]]
      BY <1>5, <2>2 DEF Lookup
    <3>2. u \in Account
      BY <3>1 DEF IInv, TypeOK, Registry, Listed, Elements
    <3>3. OpOK([op[t] EXCEPT !.pc = "renewing", !.uuid = u])
      BY <1>1, <1>5, <3>2, OpChanges DEF Lookup
    <3> QED
      BY <1>3, <3>1, <3>3
  <2> QED
    BY <2>1, <2>2
<1>6. CASE Renewed(t)
  <2>1. CASE Return(t, "error")
    BY <1>3, <2>1, ReturnOK
  <2>2. ASSUME NEW pc \in {"setRefresh", "setSession"}, Goto(t, pc) PROVE IInv'
    <3>1. op' = [op EXCEPT ![t] = [op[t] EXCEPT !.pc = pc]]
      BY <2>2 DEF Goto
    <3>2. OpOK([op[t] EXCEPT !.pc = pc])
      BY <1>1, <1>6, OpChanges DEF Renewed
    <3> QED
      BY <1>3, <3>1, <3>2
  <2> QED
    BY <1>6, <2>1, <2>2 DEF Renewed
<1>7. CASE Fail(t)
  BY <1>3, <1>7, FailedOK DEF Fail
<1> QED
  BY <1>4, <1>5, <1>6, <1>7

LEMMA RegistrySteps ==
    ASSUME IInv, NEW t \in Thread, Load(t) \/ Truncate(t) \/ Write(t)
    PROVE  IInv'
<1> DEFINE Step == \E r : OpOK(r) /\ op' = [op EXCEPT ![t] = r]
<1>1. OpOK(op[t]) /\ op[t].reg \in Registry
  BY DEF IInv, OpOK, Op
<1>2. UNCHANGED <<secrets, backing>>
  BY DEF Load, Truncate, Write
<1>3. ASSUME Step, registry' \in Registry \cup Torn, RegistryWellFormed',
             chosen' \in Account \cup {NoAccount}
      PROVE  IInv'
  BY <1>2, <1>3, ThreadStep DEF IInv, TypeOK
<1>4. chosen \in Account \cup {NoAccount} /\ registry \in Registry \cup Torn /\ RegistryWellFormed
  BY DEF IInv, TypeOK
<1>5. CASE Load(t)
  <2>1. registry' = registry /\ chosen' \in {chosen, NoAccount}
    BY <1>5 DEF Load
  <2>2. Step => IInv'
    BY <1>3, <1>4, <2>1 DEF RegistryWellFormed
  <2>3. CASE Failed(t)
    BY <2>2, <2>3, FailedOK
  <2>4. CASE Return(t, "error")
    BY <2>2, <2>4, ReturnOK
  <2>5. CASE ~Failed(t) /\ ~Return(t, "error")
    <3> DEFINE reg == Updated(op[t].kind, registry, op[t].uuid)
    <3>1. /\ registry \notin Torn
          /\ op[t].kind \in {"select", "forget"} => op[t].uuid \in Listed(registry)
          /\ op' = [op EXCEPT ![t] = [op[t] EXCEPT !.pc = "truncate", !.reg = reg]]
          /\ op[t].pc = "load"
      BY <1>5, <2>5 DEF Load
    <3>2. registry \in Registry /\ WellFormed(registry)
      BY <1>4, <3>1 DEF RegistryWellFormed
    <3>3. op[t].uuid \in Account /\ op[t].kind \in {"signIn", "launch", "select", "forget"}
      BY <1>1, <3>1 DEF OpOK, Op, Kind
    <3>4. reg \in Registry /\ WellFormed(reg)
      BY <3>1, <3>2, <3>3, UpdatedType, UpdatedWellFormed
    <3> HIDE DEF reg
    <3>5. OpOK([op[t] EXCEPT !.pc = "truncate", !.reg = reg])
      BY <1>1, <3>1, <3>4, OpChanges
    <3> QED
      BY <2>2, <3>1, <3>5
  <2> QED
    BY <2>3, <2>4, <2>5
<1>6. CASE Truncate(t)
  <2>1. /\ op' = [op EXCEPT ![t] = [op[t] EXCEPT !.pc = "write"]]
        /\ op[t].pc = "truncate" /\ registry' = Empty /\ chosen' = chosen
    BY <1>6 DEF Truncate, Goto
  <2>2. OpOK([op[t] EXCEPT !.pc = "write"])
    BY <1>1, <2>1, OpChanges
  <2>3. registry' \in Torn /\ RegistryWellFormed'
    BY <2>1 DEF Torn, RegistryWellFormed
  <2> QED
    BY <1>3, <1>4, <2>1, <2>2, <2>3
<1>7. CASE Write(t)
  <2>1. Step
    <3>1. CASE op[t].kind = "forget"
      <4>1. op' = [op EXCEPT ![t] = [op[t] EXCEPT !.pc = "delRefresh"]] /\ op[t].pc = "write"
        BY <1>7, <3>1 DEF Write, Goto
      <4>2. OpOK([op[t] EXCEPT !.pc = "delRefresh"])
        BY <1>1, <4>1, OpChanges
      <4> QED
        BY <4>1, <4>2
    <3>2. CASE op[t].kind # "forget"
      BY <1>7, <3>2, ReturnOK DEF Write
    <3> QED
      BY <3>1, <3>2
  <2>2. registry' = op[t].reg \/ registry' \in Torn
    BY <1>7, WrittenKinds DEF Write
  <2>3. WellFormed(op[t].reg) /\ op[t].uuid \in Account
    BY <1>1, <1>7 DEF OpOK, Write
  <2>4. registry' \in Registry \cup Torn /\ RegistryWellFormed'
    BY <1>1, <2>2, <2>3 DEF RegistryWellFormed
  <2>5. chosen' \in Account \cup {NoAccount}
    BY <1>4, <1>7, <2>3 DEF Write, Choose
  <2> QED
    BY <1>3, <2>1, <2>4, <2>5
<1> QED
  BY <1>5, <1>6, <1>7

LEMMA StepOK == IInv /\ [Next]_vars => IInv'
<1> SUFFICES ASSUME IInv, [Next]_vars PROVE IInv'
  OBVIOUS
<1>1. ASSUME NEW t \in Thread,
             \/ Begin(t) \/ Lookup(t) \/ Renewed(t)
             \/ Keyring(t) \/ FileRead(t) \/ FileTruncate(t) \/ FileWrite(t)
             \/ Load(t) \/ Truncate(t) \/ Write(t) \/ Fail(t)
      PROVE  IInv'
  BY <1>1, SecretSteps, RequestSteps, RegistrySteps
<1>2. CASE Restart
  <2>1. OpOK(Idle)
    BY EmptyRegistry DEF OpOK, Op, Idle, Pc, Kind
  <2>2. /\ op' = [t \in Thread |-> Idle] /\ backing' \in Backings
        /\ UNCHANGED <<registry, secrets, chosen>>
    BY <1>2 DEF Restart
  <2>3. TypeOK'
    BY <2>1, <2>2 DEF IInv, TypeOK, OpOK
  <2>4. RegistryWellFormed'
    BY <2>2 DEF IInv, RegistryWellFormed
  <2>5. \A t \in Thread : OpOK(op'[t])
    BY <2>1, <2>2
  <2> QED
    BY <2>3, <2>4, <2>5 DEF IInv
<1>3. CASE UNCHANGED vars
  BY <1>3 DEF IInv, vars, TypeOK, RegistryWellFormed
<1> QED
  BY <1>1, <1>2, <1>3 DEF Next

------------------------------------------------------------------------------
(* Theorems *)

\* The account store keeps its types, whatever requests overlap, whatever fails.
THEOREM AccountsTypes == Spec => []TypeOK
<1>1. IInv => TypeOK
  BY DEF IInv
<1> QED
  BY InitOK, StepOK, <1>1, PTL DEF Spec

\* Whatever sign-ins, launches, selections and removals overlap, fail or are cut
\* off, a registry that can be read lists no account twice, and names an active
\* account exactly if it lists one, one of those it lists.
THEOREM RegistrySafe == Spec => []RegistryWellFormed
<1>1. IInv => RegistryWellFormed
  BY DEF IInv
<1> QED
  BY InitOK, StepOK, <1>1, PTL DEF Spec

------------------------------------------------------------------------------
(* A request without another *)

\* What a registry is to say to a request of that kind.
Says(kind, u, r) ==
    /\ kind = "signIn" => u \in Listed(r)
    /\ kind = "select" => r.active = u
    /\ kind = "forget" => u \notin Listed(r)

\* It keeps the account selected, but for a request that selects another or removes it.
Keeps(kind, u, r, ch) ==
    kind # "select" /\ ch # NoAccount /\ ~(kind = "forget" /\ ch = u) => r.active = ch

\* No other thread has made a request since the daemon started.
Only(t) == \A s \in Thread \ {t} : op[s] = Idle

\* Nobody else writes between the steps of a file: it is empty until this thread fills it.
Staged(o, g, s, b) ==
    /\ o.stage # "read" => o.pc \in SecretPc /\ b = "file"
    /\ o.stage = "write" => s.file = Empty
    /\ o.pc = "write" => g = Empty

Suited(o) ==
    /\ o.pc \in {"lookup", "renewing"} => o.kind = "launch"
    /\ o.pc \in {"setRefresh", "setSession"} => o.kind \in {"signIn", "launch"}
    /\ o.pc \in {"delRefresh", "delSession"} => o.kind = "forget"

\* The registry and the tokens a thread is to write.
Prepared(o) ==
    /\ o.pc \in {"truncate", "write"} => Says(o.kind, o.uuid, o.reg)
    /\ o.stage # "read" =>
        /\ o.pc = "setSession" => "session" \in o.tokens[o.uuid]
        /\ o.pc = "delRefresh" => "refresh" \notin o.tokens[o.uuid]
        /\ o.pc = "delSession" => o.tokens[o.uuid] = {}

\* What it has written.
Done(o, g, tok) ==
    /\ g \notin Torn /\ (o.pc \in {"delRefresh", "delSession"} \/ (o.pc = "idle" /\ o.result = "ok"))
        => Says(o.kind, o.uuid, g)
    /\ tok \notin Torn =>
        /\ o.kind = "signIn" /\ (o.pc \in {"load", "truncate", "write"} \/ (o.pc = "idle" /\ o.result = "ok"))
            => "session" \in tok[o.uuid]
        /\ o.pc = "delSession" => "refresh" \notin tok[o.uuid]
        /\ o.kind = "forget" /\ o.pc = "idle" /\ o.result = "ok" => tok[o.uuid] = {}

Serial(o, g, s, b) ==
    Staged(o, g, s, b) /\ Suited(o) /\ Prepared(o) /\ Done(o, g, s[b])

Turn(t) == Serial(op[t], registry, secrets, backing)

InTurn == \A t \in Thread : Only(t) => Turn(t)

\* The registry a thread makes says what its request is about.
LEMMA UpdatedSays ==
    ASSUME NEW r \in Registry, NEW u \in Account, WellFormed(r), NEW ch,
           ch # NoAccount => r.active = ch,
           NEW kind \in {"signIn", "launch", "select", "forget"}
    PROVE  Says(kind, u, Updated(kind, r, u)) /\ Keeps(kind, u, Updated(kind, r, u), ch)
<1> DEFINE w == Without(r.accounts, u)
<1>1. r.accounts \in Seq(Account) /\ Injective(r.accounts)
  BY DEF Registry, WellFormed, Injective
<1>2. w \in Seq(Account) /\ u \notin Elements(w)
  BY <1>1, WithoutType, WithoutRest
<1>3. CASE kind \in {"signIn", "launch"}
  <2> DEFINE a == IF r.active = NoAccount THEN u ELSE r.active
             v == Append(w, u)
  <2>1. Updated(kind, r, u) = [active |-> a, accounts |-> v]
    BY <1>3 DEF Updated, Remembered
  <2> HIDE DEF w
  <2>2. Len(w) + 1 \in 1..Len(v) /\ v[Len(w) + 1] = u
    BY <1>2
  <2>3. u \in Elements(v)
    BY <2>2 DEF Elements
  <2> HIDE DEF v
  <2>4. Says(kind, u, Updated(kind, r, u))
    BY <1>3, <2>1, <2>3 DEF Says, Listed
  <2>5. Keeps(kind, u, Updated(kind, r, u), ch)
    BY <1>3, <2>1 DEF Keeps
  <2> QED
    BY <2>4, <2>5
<1>4. CASE kind = "select"
  <2>1. Updated(kind, r, u).active = u
    BY <1>4 DEF Updated, Selected, Registry
  <2> QED
    BY <1>4, <2>1 DEF Says, Keeps
<1>5. CASE kind = "forget"
  <2> DEFINE a == CASE r.active # u -> r.active
                    [] r.active = u /\ w = <<>> -> NoAccount
                    [] r.active = u /\ w # <<>> -> w[1]
  <2>1. Updated(kind, r, u) = [active |-> a, accounts |-> w]
    BY <1>5 DEF Updated, Forgotten
  <2> HIDE DEF w
  <2>2. ch # NoAccount /\ ch # u => a = ch
    OBVIOUS
  <2> HIDE DEF a
  <2>3. Updated(kind, r, u).active = a /\ Updated(kind, r, u).accounts = w
    BY <2>1
  <2> QED
    BY <1>2, <1>5, <2>2, <2>3 DEF Says, Keeps, Listed
<1> QED
  BY <1>3, <1>4, <1>5

LEMMA ChangedTokens ==
    ASSUME NEW tokens \in Tokens, NEW u \in Account, NEW pc \in SecretPc
    PROVE  LET held == Changed(tokens, u, pc) IN
           /\ pc = "setSession" => "session" \in held[u]
           /\ pc = "delRefresh" => "refresh" \notin held[u]
           /\ pc = "delSession" /\ "refresh" \notin tokens[u] => held[u] = {}
<1>1. tokens[u] \subseteq {"refresh", "session"}
  BY DEF Tokens
<1>2. Changed(tokens, u, pc)[u] = CASE pc = "setRefresh" -> tokens[u] \cup {"refresh"}
                                    [] pc = "setSession" -> tokens[u] \cup {"session"}
                                    [] pc = "delRefresh" -> tokens[u] \ {"refresh"}
                                    [] pc = "delSession" -> tokens[u] \ {"session"}
  BY DEF Changed, Tokens
<1>3. CASE pc = "setSession"
  BY <1>2, <1>3
<1>4. CASE pc = "delRefresh"
  BY <1>2, <1>4
<1>5. CASE pc = "delSession"
  BY <1>1, <1>2, <1>5
<1> QED
  BY <1>3, <1>4, <1>5, <1>2

LEMMA ReturnFields ==
    ASSUME IInv, NEW t \in Thread, NEW result, Return(t, result)
    PROVE  /\ op'[t].pc = "idle" /\ op'[t].stage = "read" /\ op'[t].result = result
           /\ op'[t].kind = op[t].kind /\ op'[t].uuid = op[t].uuid
<1> DEFINE r == [Idle EXCEPT !.kind = op[t].kind, !.uuid = op[t].uuid, !.result = result]
<1>1. op'[t] = r
  BY DEF Return, IInv, TypeOK
<1>2. /\ r.pc = "idle" /\ r.stage = "read" /\ r.result = result
      /\ r.kind = op[t].kind /\ r.uuid = op[t].uuid
  BY DEF Idle
<1> QED
  BY <1>1, <1>2

LEMMA GotoFields ==
    ASSUME IInv, NEW t \in Thread, NEW pc, Goto(t, pc)
    PROVE  /\ op'[t].pc = pc /\ op'[t].stage = op[t].stage /\ op'[t].reg = op[t].reg
           /\ op'[t].kind = op[t].kind /\ op'[t].uuid = op[t].uuid
           /\ op'[t].tokens = op[t].tokens
<1> DEFINE r == [op[t] EXCEPT !.pc = pc]
<1>1. op'[t] = r
  BY DEF Goto, IInv, TypeOK
<1>2. op[t] \in Op
  BY DEF IInv, TypeOK
<1>3. /\ r.pc = pc /\ r.stage = op[t].stage /\ r.reg = op[t].reg
      /\ r.kind = op[t].kind /\ r.uuid = op[t].uuid /\ r.tokens = op[t].tokens
  BY <1>2 DEF Op
<1> QED
  BY <1>1, <1>3

\* A request that told nothing, or a launch, has nothing to show for it.
LEMMA Over ==
    ASSUME NEW o, NEW g, NEW s, NEW b,
           o.pc = "idle", o.stage = "read", o.result = "ok" => o.kind = "launch"
    PROVE  Serial(o, g, s, b)
<1>1. Staged(o, g, s, b) /\ Suited(o) /\ Prepared(o)
  BY DEF Staged, Suited, Prepared
<1>2. Done(o, g, s[b])
  BY DEF Done, Says
<1> QED
  BY <1>1, <1>2 DEF Serial

LEMMA FailedOver ==
    ASSUME IInv, NEW t \in Thread, Failed(t), NEW g, NEW s, NEW b
    PROVE  Serial(op'[t], g, s, b)
<1> DEFINE result == IF op[t].kind = "launch" THEN "ok" ELSE "error"
<1>1. Return(t, result)
  BY DEF Failed
<1>2. result = "ok" => op[t].kind = "launch"
  OBVIOUS
<1> HIDE DEF result
<1> QED
  BY <1>1, <1>2, ReturnFields, Over

\* A token is set or deleted, and the thread goes on.
LEMMA AdvanceSerial ==
    ASSUME IInv, NEW t \in Thread, op[t].pc \in SecretPc, Advance(t), NEW s, NEW b,
           Suited(op[t]), Done(op[t], registry, secrets[backing]),
           s[b] \notin Torn =>
             /\ op[t].pc = "setSession" => "session" \in s[b][op[t].uuid]
             /\ op[t].pc = "delRefresh" => "refresh" \notin s[b][op[t].uuid]
             /\ op[t].pc = "delSession" => s[b][op[t].uuid] = {}
    PROVE  Serial(op'[t], registry, s, b)
<1> DEFINE o == op[t]
           n == op'[t]
<1>1. CASE o.pc = "delSession"
  <2>1. Return(t, "ok")
    BY <1>1 DEF Advance
  <2>2. /\ n.pc = "idle" /\ n.stage = "read" /\ n.result = "ok"
        /\ n.kind = o.kind /\ n.uuid = o.uuid
    BY <2>1, ReturnFields
  <2>3. o.kind = "forget"
    BY <1>1 DEF Suited
  <2> HIDE DEF n
  <2>4. Staged(n, registry, s, b) /\ Suited(n) /\ Prepared(n)
    BY <2>2 DEF Staged, Suited, Prepared
  <2>5. registry \notin Torn => Says(n.kind, n.uuid, registry)
    BY <1>1, <2>2 DEF Done
  <2>6. Done(n, registry, s[b])
    BY <1>1, <2>2, <2>3, <2>5 DEF Done
  <2> QED
    BY <2>4, <2>6 DEF Serial, n
<1>2. CASE o.pc # "delSession"
  <2> DEFINE pc == CASE o.pc = "setRefresh" -> "setSession"
                     [] o.pc = "setSession" -> "load"
                     [] o.pc = "delRefresh" -> "delSession"
             r == [o EXCEPT !.stage = "read", !.tokens = NoTokens, !.pc = pc]
  <2>1. n = r
    BY <1>2 DEF Advance, IInv, TypeOK
  <2>2. o \in Op
    BY DEF IInv, TypeOK
  <2> HIDE DEF pc
  <2>3. r.pc = pc /\ r.stage = "read" /\ r.kind = o.kind /\ r.uuid = o.uuid
    BY <2>2 DEF Op
  <2> HIDE DEF r, n
  <2>4. /\ o.pc = "setRefresh" => pc = "setSession"
        /\ o.pc = "setSession" => pc = "load"
        /\ o.pc = "delRefresh" => pc = "delSession"
        /\ o.pc \in {"setRefresh", "setSession", "delRefresh"}
    BY <1>2 DEF pc, SecretPc
  <2> HIDE DEF o
  <2>5. Staged(n, registry, s, b) /\ Prepared(n)
    BY <2>1, <2>3, <2>4 DEF Staged, Prepared
  <2>6. Suited(n)
    BY <2>1, <2>3, <2>4 DEF Suited, o
  <2>7. Done(n, registry, s[b])
    <3>1. CASE o.pc = "setRefresh"
      BY <2>1, <2>3, <2>4, <3>1 DEF Done
    <3>2. CASE o.pc = "setSession"
      BY <2>1, <2>3, <2>4, <3>2 DEF Done, o
    <3>3. CASE o.pc = "delRefresh"
      <4>1. registry \notin Torn => Says(n.kind, n.uuid, registry)
        BY <2>1, <2>3, <3>3 DEF Done, o
      <4> QED
        BY <2>1, <2>3, <2>4, <3>3, <4>1 DEF Done, o
    <3> QED
      BY <2>4, <3>1, <3>2, <3>3
  <2> QED
    BY <2>5, <2>6, <2>7 DEF Serial, n
<1> QED
  BY <1>1, <1>2


LEMMA SecretTurns ==
    ASSUME IInv, NEW t \in Thread, Turn(t),
           Keyring(t) \/ FileRead(t) \/ FileTruncate(t) \/ FileWrite(t)
    PROVE  Turn(t)'
<1> DEFINE u == op[t].uuid
<1>1. Serial(op[t], registry, secrets, backing)
  BY DEF Turn
<1>2. /\ Staged(op[t], registry, secrets, backing) /\ Suited(op[t]) /\ Prepared(op[t])
      /\ Done(op[t], registry, secrets[backing])
  BY <1>1 DEF Serial
<1>3. /\ OpOK(op[t]) /\ op[t] \in Op /\ op \in [Thread -> Op] /\ op[t].tokens \in Tokens
      /\ secrets \in [keyring : Tokens, file : Tokens \cup Torn]
  BY DEF IInv, OpOK, Op, TypeOK
<1>4. op[t].pc \in SecretPc /\ UNCHANGED <<registry, backing, chosen>>
  BY DEF Keyring, FileRead, FileTruncate, FileWrite
<1>5. u \in Account
  BY <1>3, <1>4 DEF OpOK, SecretPc
<1>7. Serial(op'[t], registry, secrets', backing) => Turn(t)'
  BY <1>4 DEF Turn
<1>8. CASE Keyring(t)
  <2> DEFINE held == Changed(secrets.keyring, u, op[t].pc)
  <2>1. backing = "keyring" /\ secrets' = [secrets EXCEPT !.keyring = held] /\ Advance(t)
    BY <1>8 DEF Keyring
  <2>2. secrets.keyring \in Tokens
    BY <1>3
  <2>3. op[t].pc = "delSession" => "refresh" \notin secrets.keyring[u]
    <3>1. secrets.keyring \notin Torn
      BY <2>2, AccountsAssumption
    <3> QED
      BY <1>2, <2>1, <3>1 DEF Done
  <2>4. /\ op[t].pc = "setSession" => "session" \in held[u]
        /\ op[t].pc = "delRefresh" => "refresh" \notin held[u]
        /\ op[t].pc = "delSession" => held[u] = {}
    BY <1>4, <1>5, <2>2, <2>3, ChangedTokens
  <2> HIDE DEF held
  <2>5. secrets'[backing] = held
    BY <1>3, <2>1
  <2> QED
    BY <1>2, <1>4, <1>7, <2>1, <2>4, <2>5, AdvanceSerial
<1>9. CASE FileRead(t)
  <2>1. CASE Failed(t)
    BY <1>7, <2>1, FailedOver
  <2>2. CASE ~Failed(t)
    <3> DEFINE held == Changed(secrets.file, u, op[t].pc)
               n == [op[t] EXCEPT !.stage = "truncate", !.tokens = held]
    <3>1. /\ backing = "file" /\ secrets.file \notin Torn /\ op' = [op EXCEPT ![t] = n]
          /\ secrets' = secrets
      BY <1>9, <2>2 DEF FileRead
    <3>2. secrets.file \in Tokens
      BY <1>3, <3>1
    <3>3. op[t].pc = "delSession" => "refresh" \notin secrets.file[u]
      BY <1>2, <3>1 DEF Done
    <3>4. /\ op[t].pc = "setSession" => "session" \in held[u]
          /\ op[t].pc = "delRefresh" => "refresh" \notin held[u]
          /\ op[t].pc = "delSession" => held[u] = {}
      BY <1>4, <1>5, <3>2, <3>3, ChangedTokens
    <3> HIDE DEF held
    <3>5. /\ n.pc = op[t].pc /\ n.stage = "truncate" /\ n.tokens = held
          /\ n.kind = op[t].kind /\ n.uuid = u
      BY <1>3 DEF Op
    <3>6. op'[t] = n
      BY <1>3, <3>1
    <3> HIDE DEF n, u
    <3>7. Staged(n, registry, secrets, backing)
      BY <1>4, <3>1, <3>5 DEF Staged, SecretPc
    <3>8. Suited(n)
      BY <1>2, <3>5 DEF Suited
    <3>9. Prepared(n)
      BY <1>4, <3>4, <3>5 DEF Prepared, SecretPc
    <3>10. Done(n, registry, secrets[backing])
      BY <1>2, <1>4, <3>5 DEF Done, SecretPc, u
    <3> QED
      BY <1>7, <3>1, <3>6, <3>7, <3>8, <3>9, <3>10 DEF Serial
  <2> QED
    BY <2>1, <2>2
<1>10. CASE FileTruncate(t)
  <2> DEFINE n == [op[t] EXCEPT !.stage = "write"]
  <2>1. /\ op' = [op EXCEPT ![t] = n] /\ secrets' = [secrets EXCEPT !.file = Empty]
        /\ op[t].stage = "truncate"
    BY <1>10 DEF FileTruncate
  <2>2. /\ n.pc = op[t].pc /\ n.stage = "write" /\ n.tokens = op[t].tokens
        /\ n.kind = op[t].kind /\ n.uuid = u
    BY <1>3 DEF Op
  <2>3. op'[t] = n
    BY <1>3, <2>1
  <2> HIDE DEF n
  <2>4. backing = "file" /\ secrets'.file = Empty /\ secrets'[backing] \in Torn
    BY <1>2, <1>3, <2>1 DEF Staged, Torn
  <2> HIDE DEF u
  <2>5. Staged(n, registry, secrets', backing)
    BY <1>4, <2>2, <2>4 DEF Staged, SecretPc
  <2>6. Suited(n)
    BY <1>2, <2>2 DEF Suited
  <2>7. Prepared(n)
    BY <1>2, <1>4, <2>1, <2>2 DEF Prepared, SecretPc, u
  <2>8. Done(n, registry, secrets'[backing])
    BY <1>2, <1>4, <2>2, <2>4 DEF Done, SecretPc, u
  <2> QED
    BY <1>7, <2>3, <2>5, <2>6, <2>7, <2>8 DEF Serial
<1>11. CASE FileWrite(t)
  <2>1. CASE Failed(t)
    BY <1>7, <2>1, FailedOver
  <2>2. CASE ~Failed(t)
    <3>1. /\ op[t].stage = "write" /\ Advance(t)
          /\ \E text \in Written(secrets.file, op[t].tokens) :
                secrets' = [secrets EXCEPT !.file = text]
      BY <1>11, <2>2 DEF FileWrite
    <3>2. secrets.file = Empty /\ backing = "file"
      BY <1>2, <3>1 DEF Staged
    <3>3. secrets' = [secrets EXCEPT !.file = op[t].tokens]
      BY <3>1, <3>2 DEF Written
    <3>4. secrets'[backing] = op[t].tokens
      BY <1>3, <3>2, <3>3
    <3>5. /\ op[t].pc = "setSession" => "session" \in op[t].tokens[u]
          /\ op[t].pc = "delRefresh" => "refresh" \notin op[t].tokens[u]
          /\ op[t].pc = "delSession" => op[t].tokens[u] = {}
      BY <1>2, <3>1 DEF Prepared
    <3> QED
      BY <1>2, <1>4, <1>7, <3>1, <3>4, <3>5, AdvanceSerial
  <2> QED
    BY <2>1, <2>2
<1> QED
  BY <1>8, <1>9, <1>10, <1>11

LEMMA RequestTurns ==
    ASSUME IInv, NEW t \in Thread, Turn(t),
           Begin(t) \/ Lookup(t) \/ Renewed(t) \/ Fail(t)
    PROVE  Turn(t)'
<1>1. Serial(op[t], registry, secrets, backing)
  BY DEF Turn
<1>2. Staged(op[t], registry, secrets, backing) /\ Suited(op[t])
  BY <1>1 DEF Serial
<1>3. op[t] \in Op /\ op \in [Thread -> Op]
  BY DEF IInv, OpOK, TypeOK
<1>4. UNCHANGED <<registry, secrets, backing, chosen>>
  BY DEF Begin, Lookup, Renewed, Fail
<1>6. Serial(op'[t], registry, secrets, backing) => Turn(t)'
  BY <1>4 DEF Turn
<1>7. ASSUME NEW n, op'[t] = n, n.stage = "read",
             \/ n.pc \in {"lookup", "renewing", "setRefresh", "setSession"} /\ n.kind = "launch"
             \/ n.pc = "setRefresh" /\ n.kind = "signIn"
             \/ n.pc = "load" /\ n.kind # "signIn"
      PROVE  Turn(t)'
  <2>1. Staged(n, registry, secrets, backing) /\ Suited(n) /\ Prepared(n)
    BY <1>7 DEF Staged, Suited, Prepared
  <2>2. Done(n, registry, secrets[backing])
    BY <1>7 DEF Done
  <2> QED
    BY <1>6, <1>7, <2>1, <2>2 DEF Serial
<1>8. CASE Begin(t)
  <2>1. PICK u \in Account \cup {NoAccount}, kind \in {"signIn", "launch", "select", "forget"} :
          /\ u = NoAccount => kind = "launch"
          /\ op' = [op EXCEPT ![t] =
                 [Idle EXCEPT !.kind = kind, !.uuid = u,
                              !.pc = CASE kind = "signIn" -> "setRefresh"
                                       [] kind = "launch" -> "lookup"
                                       [] OTHER -> "load"]]
    BY <1>8 DEF Begin
  <2> DEFINE pc == CASE kind = "signIn" -> "setRefresh"
                     [] kind = "launch" -> "lookup"
                     [] OTHER -> "load"
             n == [Idle EXCEPT !.kind = kind, !.uuid = u, !.pc = pc]
  <2>2. op'[t] = n
    BY <1>3, <2>1
  <2>3. \/ pc = "lookup" /\ kind = "launch"
        \/ pc = "setRefresh" /\ kind = "signIn"
        \/ pc = "load" /\ kind # "signIn"
    OBVIOUS
  <2> HIDE DEF pc
  <2>4. n.stage = "read" /\ n.pc = pc /\ n.kind = kind
    BY DEF Idle
  <2> HIDE DEF n
  <2> QED
    BY <1>7, <2>2, <2>3, <2>4
<1>9. CASE Lookup(t)
  <2>1. op[t].kind = "launch" /\ op[t].stage = "read"
    BY <1>2, <1>9 DEF Suited, Staged, Lookup, SecretPc
  <2>2. ASSUME NEW result, Return(t, result) PROVE Turn(t)'
    BY <1>6, <2>1, <2>2, ReturnFields, Over
  <2>3. ASSUME NEW u, op' = [op EXCEPT ![t] = [op[t] EXCEPT !.pc = "renewing", !.uuid = u]]
        PROVE  Turn(t)'
    <3> DEFINE n == [op[t] EXCEPT !.pc = "renewing", !.uuid = u]
    <3>1. op'[t] = n
      BY <1>3, <2>3
    <3>2. n.stage = "read" /\ n.pc = "renewing" /\ n.kind = "launch"
      BY <1>3, <2>1 DEF Op
    <3> HIDE DEF n
    <3> QED
      BY <1>7, <3>1, <3>2
  <2> QED
    BY <1>9, <2>2, <2>3 DEF Lookup
<1>10. CASE Renewed(t)
  <2>1. op[t].kind = "launch" /\ op[t].stage = "read"
    BY <1>2, <1>10 DEF Suited, Staged, Renewed, SecretPc
  <2>2. CASE Return(t, "error")
    BY <1>6, <2>2, ReturnFields, Over
  <2>3. ASSUME NEW pc \in {"setRefresh", "setSession"}, Goto(t, pc) PROVE Turn(t)'
    BY <1>7, <2>1, <2>3, GotoFields
  <2> QED
    BY <1>10, <2>2, <2>3 DEF Renewed
<1>11. CASE Fail(t)
  BY <1>6, <1>11, FailedOver DEF Fail
<1> QED
  BY <1>8, <1>9, <1>10, <1>11

LEMMA RegistryTurns ==
    ASSUME IInv, NEW t \in Thread, Turn(t),
           Load(t) \/ Truncate(t) \/ Write(t)
    PROVE  Turn(t)'
<1> DEFINE u == op[t].uuid
<1>1. Serial(op[t], registry, secrets, backing)
  BY DEF Turn
<1>2. /\ Staged(op[t], registry, secrets, backing) /\ Suited(op[t]) /\ Prepared(op[t])
      /\ Done(op[t], registry, secrets[backing])
  BY <1>1 DEF Serial
<1>3. /\ OpOK(op[t]) /\ op[t] \in Op /\ op \in [Thread -> Op] /\ op[t].kind \in Kind
      /\ registry \in Registry \cup Torn
  BY DEF IInv, OpOK, Op, TypeOK
<1>4. UNCHANGED <<secrets, backing>> /\ op[t].pc \in {"load", "truncate", "write"}
  BY DEF Load, Truncate, Write
<1>5. u \in Account /\ op[t].stage = "read" /\ op[t].kind \in {"signIn", "launch", "select", "forget"}
  BY <1>2, <1>3, <1>4 DEF OpOK, Staged, SecretPc, Kind
<1>6. secrets[backing] \notin Torn /\ op[t].kind = "signIn" => "session" \in secrets[backing][u]
  BY <1>2, <1>4 DEF Done
<1>7. Serial(op'[t], registry', secrets, backing) => Turn(t)'
  BY <1>4 DEF Turn
<1>8. CASE Load(t)
  <2>1. registry' = registry
    BY <1>8 DEF Load
  <2>2. CASE Failed(t)
    BY <1>7, <2>1, <2>2, FailedOver
  <2>3. CASE ~Failed(t)
    <3> DEFINE reg == Updated(op[t].kind, registry, u)
               n == [op[t] EXCEPT !.pc = "truncate", !.reg = reg]
    <3>1. registry \notin Torn /\ op' = [op EXCEPT ![t] = n]
      BY <1>8, <2>3 DEF Load
    <3>2. registry \in Registry /\ WellFormed(registry)
      BY <1>3, <3>1 DEF IInv, RegistryWellFormed
    <3>4. Says(op[t].kind, u, reg)
      BY <1>5, <3>2, UpdatedSays
    <3> HIDE DEF reg
    <3>5. op'[t] = n
      BY <1>3, <3>1
    <3>6. /\ n.pc = "truncate" /\ n.stage = "read" /\ n.reg = reg
          /\ n.kind = op[t].kind /\ n.uuid = u
      BY <1>3, <1>5 DEF Op
    <3> HIDE DEF n, u
    <3>7. Staged(n, registry, secrets, backing) /\ Suited(n) /\ Prepared(n)
      BY <3>4, <3>6 DEF Staged, Suited, Prepared
    <3>8. Done(n, registry, secrets[backing])
      BY <1>6, <3>6 DEF Done
    <3> QED
      BY <1>7, <2>1, <3>5, <3>7, <3>8 DEF Serial
  <2> QED
    BY <2>2, <2>3
<1>9. CASE Truncate(t)
  <2>1. registry' = Empty /\ Goto(t, "write") /\ op[t].pc = "truncate"
    BY <1>9 DEF Truncate
  <2>2. registry' \in Torn
    BY <2>1 DEF Torn
  <2> DEFINE n == op'[t]
  <2>4. /\ n.pc = "write" /\ n.stage = "read" /\ n.reg = op[t].reg
        /\ n.kind = op[t].kind /\ n.uuid = u
    BY <1>5, <2>1, GotoFields
  <2> HIDE DEF n, u
  <2>5. Staged(n, registry', secrets, backing) /\ Suited(n)
    BY <2>1, <2>4 DEF Staged, Suited
  <2>6. Prepared(n)
    BY <1>2, <2>1, <2>4 DEF Prepared, u
  <2>7. Done(n, registry', secrets[backing])
    BY <1>6, <2>2, <2>4 DEF Done
  <2> QED
    BY <1>7, <2>5, <2>6, <2>7 DEF Serial, n
<1>10. CASE Write(t)
  <2>1. op[t].pc = "write"
    BY <1>10 DEF Write
  <2>2. registry' = op[t].reg
    <3>1. registry = Empty
      BY <1>2, <2>1 DEF Staged
    <3> QED
      BY <1>10, <3>1 DEF Write, Written
  <2>3. Says(op[t].kind, u, registry')
    BY <1>2, <2>1, <2>2 DEF Prepared
  <2> DEFINE n == op'[t]
  <2>5. CASE op[t].kind = "forget"
    <3>1. n.pc = "delRefresh" /\ n.stage = "read" /\ n.kind = "forget" /\ n.uuid = u
      BY <1>5, <1>10, <2>5, GotoFields DEF Write
    <3> HIDE DEF n, u
    <3>2. Staged(n, registry', secrets, backing) /\ Suited(n) /\ Prepared(n)
      BY <3>1 DEF Staged, Suited, Prepared
    <3>3. Done(n, registry', secrets[backing])
      BY <2>3, <2>5, <3>1 DEF Done
    <3> QED
      BY <1>7, <3>2, <3>3 DEF Serial, n
  <2>6. CASE op[t].kind # "forget"
    <3>1. n.pc = "idle" /\ n.stage = "read" /\ n.kind = op[t].kind /\ n.uuid = u
      BY <1>10, <2>6, ReturnFields DEF Write
    <3> HIDE DEF n, u
    <3>2. Staged(n, registry', secrets, backing) /\ Suited(n) /\ Prepared(n)
      BY <3>1 DEF Staged, Suited, Prepared
    <3>3. Done(n, registry', secrets[backing])
      BY <1>6, <2>3, <2>6, <3>1 DEF Done
    <3> QED
      BY <1>7, <3>2, <3>3 DEF Serial, n
  <2> QED
    BY <2>5, <2>6
<1> QED
  BY <1>4, <1>8, <1>9, <1>10

\* A step of a thread leaves the others alone, and what it is doing has a name.
LEMMA OneSteps ==
    ASSUME IInv, NEW t \in Thread,
           \/ Begin(t) \/ Lookup(t) \/ Renewed(t)
           \/ Keyring(t) \/ FileRead(t) \/ FileTruncate(t) \/ FileWrite(t)
           \/ Load(t) \/ Truncate(t) \/ Write(t) \/ Fail(t)
    PROVE  op'[t] # Idle /\ \A s \in Thread : s # t => op'[s] = op[s]
<1>1. op \in [Thread -> Op] /\ op[t] \in Op /\ OpOK(op[t]) /\ Idle.kind = "none"
  BY DEF IInv, TypeOK, Idle
<1>2. ASSUME NEW n, op' = [op EXCEPT ![t] = n], n.kind # "none"
      PROVE  op'[t] # Idle /\ \A s \in Thread : s # t => op'[s] = op[s]
  BY <1>1, <1>2
<1>3. CASE Begin(t)
  <2>1. PICK u \in Account \cup {NoAccount}, kind \in {"signIn", "launch", "select", "forget"} :
          op' = [op EXCEPT ![t] =
                 [Idle EXCEPT !.kind = kind, !.uuid = u,
                              !.pc = CASE kind = "signIn" -> "setRefresh"
                                       [] kind = "launch" -> "lookup"
                                       [] OTHER -> "load"]]
    BY <1>3 DEF Begin
  <2> DEFINE pc == CASE kind = "signIn" -> "setRefresh"
                     [] kind = "launch" -> "lookup"
                     [] OTHER -> "load"
             n == [Idle EXCEPT !.kind = kind, !.uuid = u, !.pc = pc]
  <2>2. op' = [op EXCEPT ![t] = n]
    BY <2>1
  <2> HIDE DEF pc
  <2>3. n.kind = kind
    BY DEF Idle
  <2> HIDE DEF n
  <2> QED
    BY <1>2, <2>2, <2>3
<1>4. CASE ~Begin(t)
  <2> DEFINE Goal == op'[t] # Idle /\ \A s \in Thread : s # t => op'[s] = op[s]
  <2>1. op[t].kind # "none"
    BY <1>1, <1>4 DEF OpOK, Lookup, Renewed, Keyring, FileRead, FileTruncate, FileWrite,
                      Load, Truncate, Write, Fail, SecretPc
  <2>2. ASSUME NEW result, Return(t, result) PROVE Goal
    <3>1. op'[t].kind # "none"
      BY <2>1, <2>2, ReturnFields
    <3>2. \A s \in Thread : s # t => op'[s] = op[s]
      BY <1>1, <2>2 DEF Return
    <3> QED
      BY <1>1, <3>1, <3>2
  <2>3. ASSUME NEW pc, Goto(t, pc) PROVE Goal
    <3>1. op'[t].kind # "none"
      BY <2>1, <2>3, GotoFields
    <3>2. \A s \in Thread : s # t => op'[s] = op[s]
      BY <1>1, <2>3 DEF Goto
    <3> QED
      BY <1>1, <3>1, <3>2
  <2>4. ASSUME Advance(t) PROVE Goal
    <3>1. CASE op[t].pc = "delSession"
      BY <2>2, <2>4, <3>1 DEF Advance
    <3>2. CASE op[t].pc # "delSession"
      <4> DEFINE pc == CASE op[t].pc = "setRefresh" -> "setSession"
                         [] op[t].pc = "setSession" -> "load"
                         [] op[t].pc = "delRefresh" -> "delSession"
                 n == [op[t] EXCEPT !.stage = "read", !.tokens = NoTokens, !.pc = pc]
      <4>1. op' = [op EXCEPT ![t] = n]
        BY <2>4, <3>2 DEF Advance
      <4> HIDE DEF pc
      <4>2. n.kind = op[t].kind
        BY <1>1 DEF Op
      <4> HIDE DEF n
      <4> QED
        BY <1>2, <2>1, <4>1, <4>2
    <3> QED
      BY <3>1, <3>2
  <2>5. Failed(t) => Goal
    BY <2>2 DEF Failed
  <2>6. CASE Lookup(t)
    <3>1. ASSUME NEW u, op' = [op EXCEPT ![t] = [@ EXCEPT !.pc = "renewing", !.uuid = u]]
          PROVE  Goal
      <4>1. [op[t] EXCEPT !.pc = "renewing", !.uuid = u].kind = op[t].kind
        BY <1>1 DEF Op
      <4> QED
        BY <1>2, <2>1, <3>1, <4>1
    <3> QED
      BY <2>2, <2>6, <3>1 DEF Lookup
  <2>7. CASE FileRead(t)
    <3>1. ASSUME NEW held, op' = [op EXCEPT ![t] = [@ EXCEPT !.stage = "truncate", !.tokens = held]]
          PROVE  Goal
      <4>1. [op[t] EXCEPT !.stage = "truncate", !.tokens = held].kind = op[t].kind
        BY <1>1 DEF Op
      <4> QED
        BY <1>2, <2>1, <3>1, <4>1
    <3> QED
      BY <2>5, <2>7, <3>1 DEF FileRead
  <2>8. CASE FileTruncate(t)
    <3>1. op' = [op EXCEPT ![t] = [op[t] EXCEPT !.stage = "write"]]
      BY <2>8 DEF FileTruncate
    <3>2. [op[t] EXCEPT !.stage = "write"].kind = op[t].kind
      BY <1>1 DEF Op
    <3> QED
      BY <1>2, <2>1, <3>1, <3>2
  <2>9. CASE Load(t)
    <3>1. ASSUME NEW reg, op' = [op EXCEPT ![t] = [@ EXCEPT !.pc = "truncate", !.reg = reg]]
          PROVE  Goal
      <4>1. [op[t] EXCEPT !.pc = "truncate", !.reg = reg].kind = op[t].kind
        BY <1>1 DEF Op
      <4> QED
        BY <1>2, <2>1, <3>1, <4>1
    <3> QED
      BY <2>5, <2>9, <3>1 DEF Load
  <2>10. CASE Renewed(t) \/ Truncate(t) \/ Write(t)
    BY <2>2, <2>3, <2>10 DEF Renewed, Truncate, Write
  <2>11. CASE Keyring(t) \/ FileWrite(t) \/ Fail(t)
    BY <2>4, <2>5, <2>11 DEF Keyring, FileWrite, Fail
  <2> QED
    BY <1>4, <2>6, <2>7, <2>8, <2>9, <2>10, <2>11
<1> QED
  BY <1>3, <1>4

LEMMA TurnsKept ==
    ASSUME IInv, InTurn, [Next]_vars
    PROVE  InTurn'
<1>1. ASSUME NEW t \in Thread,
             \/ Begin(t) \/ Lookup(t) \/ Renewed(t)
             \/ Keyring(t) \/ FileRead(t) \/ FileTruncate(t) \/ FileWrite(t)
             \/ Load(t) \/ Truncate(t) \/ Write(t) \/ Fail(t)
      PROVE  InTurn'
  <2> SUFFICES ASSUME NEW s \in Thread, Only(s)' PROVE Turn(s)'
    BY DEF InTurn
  <2>1. op'[t] # Idle /\ \A r \in Thread : r # t => op'[r] = op[r]
    BY <1>1, OneSteps
  <2>2. s = t /\ Only(t)
    BY <2>1 DEF Only
  <2>3. Turn(t)
    BY <2>2 DEF InTurn
  <2> QED
    BY <1>1, <2>2, <2>3, SecretTurns, RequestTurns, RegistryTurns
<1>2. CASE Restart
  <2>1. op' = [t \in Thread |-> Idle]
    BY <1>2 DEF Restart
  <2>2. Idle.pc = "idle" /\ Idle.stage = "read" /\ Idle.result = "none"
    BY DEF Idle
  <2> QED
    BY <2>1, <2>2, Over DEF InTurn, Turn
<1>3. CASE UNCHANGED vars
  BY <1>3 DEF vars, InTurn, Turn, Only
<1> QED
  BY <1>1, <1>2, <1>3 DEF Next

LEMMA InTurnStart == Init => InTurn
<1> SUFFICES ASSUME Init PROVE InTurn
  OBVIOUS
<1>1. Idle.pc = "idle" /\ Idle.stage = "read" /\ Idle.result = "none"
  BY DEF Idle
<1>2. \A t \in Thread : op[t] = Idle
  BY DEF Init
<1> QED
  BY <1>1, <1>2, Over DEF InTurn, Turn

LEMMA InTurnTells == InTurn => RepliesTrue
<1> SUFFICES ASSUME InTurn, NEW t \in Thread, \A s \in Thread \ {t} : op[s] = Idle,
                    op[t].pc = "idle", op[t].result = "ok",
                    registry \notin Torn, secrets[backing] \notin Torn
             PROVE  /\ op[t].kind = "signIn" => /\ op[t].uuid \in Listed(registry)
                                                /\ "session" \in secrets[backing][op[t].uuid]
                    /\ op[t].kind = "select" => registry.active = op[t].uuid
                    /\ op[t].kind = "forget" => /\ op[t].uuid \notin Listed(registry)
                                                /\ secrets[backing][op[t].uuid] = {}
  BY DEF RepliesTrue
<1>1. Done(op[t], registry, secrets[backing])
  BY DEF InTurn, Only, Turn, Serial
<1> QED
  BY <1>1 DEF Done, Says

\* What a request that no other has met is told is so, whatever overlaps, failures and
\* crashes left to the daemon that serves it: an account signed in is listed and has its
\* token, one that was removed has left nothing (account_select, account_remove).
THEOREM RepliesSafe == Spec => []RepliesTrue
<1>1. IInv /\ InTurn /\ [Next]_vars => IInv' /\ InTurn'
  BY StepOK, TurnsKept
<1> QED
  BY InitOK, InTurnStart, InTurnTells, <1>1, PTL DEF Spec

------------------------------------------------------------------------------
(* Requests that overlap *)

\* What a thread is about to save.
Held(t) == Saving(t) => /\ Says(op[t].kind, op[t].uuid, op[t].reg)
                        /\ Keeps(op[t].kind, op[t].uuid, op[t].reg, chosen)

\* As long as a selection has to be kept no two save.
OneSaves == \A s, t \in Thread : chosen # NoAccount /\ Saving(s) /\ Saving(t) => s = t

Orderly == OneSaves /\ SelectionKept /\ \A t \in Thread : Held(t)

\* A step of t that leaves the registry alone, after which t saves nothing new.
LEMMA OrderlyElsewhere ==
    ASSUME IInv, Orderly, NEW t \in Thread, registry' = registry, chosen' \in {chosen, NoAccount},
           \A s \in Thread : s # t => op'[s] = op[s],
           op'[t].pc \notin {"truncate", "write"}
    PROVE  Orderly'
<1>1. ASSUME NEW s \in Thread PROVE Held(s)'
  <2>1. CASE s = t
    BY <2>1 DEF Held, Saving
  <2>2. CASE s # t
    BY <2>2 DEF Orderly, Held, Saving, Keeps
  <2> QED
    BY <2>1, <2>2
<1>2. OneSaves'
  BY DEF Orderly, OneSaves, Saving
<1>3. SelectionKept'
  BY DEF Orderly, SelectionKept
<1> QED
  BY <1>1, <1>2, <1>3 DEF Orderly

\* Who returns, or goes to a step that saves nothing, is such a step.
LEMMA OrderlyMoves ==
    ASSUME IInv, Orderly, NEW t \in Thread, registry' = registry, chosen' \in {chosen, NoAccount},
           \/ \E result : Return(t, result)
           \/ \E pc : Goto(t, pc) /\ pc \notin {"truncate", "write"}
    PROVE  Orderly'
<1>1. \A s \in Thread : s # t => op'[s] = op[s]
  BY DEF Return, Goto, IInv, TypeOK
<1>2. op'[t].pc \notin {"truncate", "write"}
  BY ReturnFields, GotoFields
<1> QED
  BY <1>1, <1>2, OrderlyElsewhere

LEMMA OrderlyRequests ==
    ASSUME IInv, Orderly, NEW t \in Thread,
           \/ Begin(t) \/ Lookup(t) \/ Renewed(t) \/ Fail(t)
    PROVE  Orderly'
<1>1. UNCHANGED <<registry, chosen>>
  BY DEF Begin, Lookup, Renewed, Fail
<1>2. op \in [Thread -> Op]
  BY DEF IInv, TypeOK
<1>3. CASE Begin(t)
  <2>1. \E n : op' = [op EXCEPT ![t] = n] /\ n.pc \in {"setRefresh", "lookup", "load"}
    <3>1. PICK u \in Account \cup {NoAccount}, kind \in {"signIn", "launch", "select", "forget"} :
            op' = [op EXCEPT ![t] = [Idle EXCEPT !.kind = kind, !.uuid = u,
                              !.pc = CASE kind = "signIn" -> "setRefresh"
                                       [] kind = "launch" -> "lookup"
                                       [] OTHER -> "load"]]
      BY <1>3 DEF Begin
    <3> DEFINE pc == CASE kind = "signIn" -> "setRefresh"
                       [] kind = "launch" -> "lookup"
                       [] OTHER -> "load"
               n == [Idle EXCEPT !.kind = kind, !.uuid = u, !.pc = pc]
    <3>2. pc \in {"setRefresh", "lookup", "load"}
      OBVIOUS
    <3> HIDE DEF pc
    <3>3. n.pc = pc
      BY DEF Idle
    <3>4. op' = [op EXCEPT ![t] = n]
      BY <3>1 DEF pc
    <3> HIDE DEF n
    <3> QED
      BY <3>2, <3>3, <3>4
  <2>2. op'[t].pc \in {"setRefresh", "lookup", "load"} /\ \A s \in Thread : s # t => op'[s] = op[s]
    BY <1>2, <2>1
  <2> QED
    BY <1>1, <2>2, OrderlyElsewhere
<1>4. CASE Lookup(t)
  <2>1. CASE \E result : Return(t, result)
    BY <1>1, <2>1, OrderlyMoves
  <2>2. CASE ~\E result : Return(t, result)
    <3>1. PICK u : op' = [op EXCEPT ![t] = [op[t] EXCEPT !.pc = "renewing", !.uuid = u]]
      BY <1>4, <2>2 DEF Lookup
    <3>2. op'[t].pc = "renewing" /\ \A s \in Thread : s # t => op'[s] = op[s]
      BY <1>2, <3>1 DEF Op
    <3> QED
      BY <1>1, <3>2, OrderlyElsewhere
  <2> QED
    BY <2>1, <2>2
<1>5. CASE Renewed(t)
  BY <1>1, <1>5, OrderlyMoves DEF Renewed
<1>6. CASE Fail(t)
  BY <1>1, <1>6, OrderlyMoves DEF Fail, Failed
<1> QED
  BY <1>3, <1>4, <1>5, <1>6

\* Tokens are set and deleted while others save the registry: it is not theirs.
LEMMA OrderlySecrets ==
    ASSUME IInv, Orderly, NEW t \in Thread,
           Keyring(t) \/ FileRead(t) \/ FileTruncate(t) \/ FileWrite(t)
    PROVE  Orderly'
<1>1. UNCHANGED <<registry, chosen>> /\ op[t].pc \in SecretPc
  BY DEF Keyring, FileRead, FileTruncate, FileWrite
<1>2. op \in [Thread -> Op]
  BY DEF IInv, TypeOK
<1>3. CASE Failed(t)
  BY <1>1, <1>3, OrderlyMoves DEF Failed
<1>4. CASE Advance(t)
  <2>1. CASE op[t].pc = "delSession"
    BY <1>1, <1>4, <2>1, OrderlyMoves DEF Advance
  <2>2. CASE op[t].pc # "delSession"
    <3> DEFINE pc == CASE op[t].pc = "setRefresh" -> "setSession"
                       [] op[t].pc = "setSession" -> "load"
                       [] op[t].pc = "delRefresh" -> "delSession"
    <3>1. pc \in {"setSession", "load", "delSession"}
      BY <1>1, <2>2 DEF SecretPc
    <3>2. op' = [op EXCEPT ![t] = [op[t] EXCEPT !.stage = "read", !.tokens = NoTokens, !.pc = pc]]
      BY <1>4, <2>2 DEF Advance
    <3> HIDE DEF pc
    <3>3. op'[t].pc = pc /\ \A s \in Thread : s # t => op'[s] = op[s]
      BY <1>2, <3>2 DEF Op
    <3> QED
      BY <1>1, <3>1, <3>3, OrderlyElsewhere
  <2> QED
    BY <2>1, <2>2
<1>5. ASSUME NEW n, op' = [op EXCEPT ![t] = n], n.pc = op[t].pc PROVE Orderly'
  <2>1. op'[t] = n /\ \A s \in Thread : s # t => op'[s] = op[s]
    BY <1>2, <1>5
  <2> QED
    BY <1>1, <1>5, <2>1, OrderlyElsewhere DEF SecretPc
<1>6. CASE FileTruncate(t)
  BY <1>2, <1>5, <1>6 DEF FileTruncate, Op
<1>7. CASE FileRead(t) /\ ~Failed(t)
  BY <1>2, <1>5, <1>7 DEF FileRead, Op
<1> QED
  BY <1>3, <1>4, <1>6, <1>7 DEF Keyring, FileWrite

\* Who loads while another saves ends the promise; who loads alone keeps the selection.
LEMMA OrderlySaves ==
    ASSUME IInv, Orderly, NEW t \in Thread, Load(t) \/ Truncate(t) \/ Write(t)
    PROVE  Orderly'
<1> DEFINE u == op[t].uuid
<1>1. /\ op \in [Thread -> Op] /\ OpOK(op[t]) /\ op[t] \in Op /\ op[t].kind \in Kind
      /\ registry \in Registry \cup Torn
  BY DEF IInv, OpOK, Op, TypeOK
<1>2. u \in Account /\ op[t].kind \in {"signIn", "launch", "select", "forget"}
  BY <1>1 DEF OpOK, Kind, Load, Truncate, Write
<1>3. SelectionKept /\ OneSaves /\ Held(t)
  BY DEF Orderly
<1>4. CASE Load(t)
  <2>1. /\ registry' = registry /\ chosen' \in {chosen, NoAccount}
        /\ chosen' # NoAccount => \A s \in Thread \ {t} : ~Saving(s)
    BY <1>4 DEF Load, AnotherSaves
  <2>2. CASE Failed(t)
    BY <2>1, <2>2, OrderlyMoves DEF Failed
  <2>3. CASE ~Failed(t)
    <3> DEFINE reg == Updated(op[t].kind, registry, u)
               n == [op[t] EXCEPT !.pc = "truncate", !.reg = reg]
    <3>1. registry \notin Torn /\ op' = [op EXCEPT ![t] = n]
      BY <1>4, <2>3 DEF Load
    <3>2. registry \in Registry /\ WellFormed(registry)
      BY <1>1, <3>1 DEF IInv, RegistryWellFormed
    <3>3. chosen' # NoAccount => registry.active = chosen'
      BY <1>3, <2>1, <3>1 DEF SelectionKept
    <3>4. Says(op[t].kind, u, reg) /\ Keeps(op[t].kind, u, reg, chosen')
      BY <1>2, <3>2, <3>3, UpdatedSays
    <3> HIDE DEF reg
    <3>5. op'[t] = n /\ \A s \in Thread : s # t => op'[s] = op[s]
      BY <1>1, <3>1
    <3>6. n.pc = "truncate" /\ n.reg = reg /\ n.kind = op[t].kind /\ n.uuid = u
      BY <1>1 DEF Op
    <3> HIDE DEF n, u
    <3>7. ASSUME NEW s \in Thread PROVE (chosen' # NoAccount /\ Saving(s)' => s = t) /\ Held(s)'
      <4>1. CASE s = t
        BY <3>4, <3>5, <3>6, <4>1 DEF Held, Saving
      <4>2. CASE s # t
        BY <2>1, <3>5, <4>2 DEF Orderly, Held, Saving, Keeps
      <4> QED
        BY <4>1, <4>2
    <3>8. OneSaves'
      BY <3>7 DEF OneSaves
    <3> QED
      BY <1>3, <2>1, <3>7, <3>8 DEF Orderly, SelectionKept
  <2> QED
    BY <2>2, <2>3
<1>5. CASE Truncate(t)
  <2>1. /\ registry' = Empty /\ chosen' = chosen /\ Goto(t, "write") /\ op[t].pc = "truncate"
        /\ \A s \in Thread : s # t => op'[s] = op[s]
    BY <1>1, <1>5 DEF Truncate, Goto
  <2>2. op'[t].pc = "write" /\ op'[t].reg = op[t].reg /\ op'[t].kind = op[t].kind /\ op'[t].uuid = u
    BY <2>1, GotoFields
  <2>3. ASSUME NEW s \in Thread PROVE (Saving(s)' => Saving(s)) /\ Held(s)'
    <3>1. CASE s = t
      BY <1>3, <2>1, <2>2, <3>1 DEF Held, Saving
    <3>2. CASE s # t
      BY <2>1, <3>2 DEF Orderly, Held, Saving
    <3> QED
      BY <3>1, <3>2
  <2>4. OneSaves'
    BY <1>3, <2>1, <2>3 DEF OneSaves
  <2>5. SelectionKept'
    BY <2>1 DEF SelectionKept, Torn
  <2> QED
    BY <2>3, <2>4, <2>5 DEF Orderly
<1>6. CASE Write(t)
  <2>1. op[t].pc = "write" /\ Choose(t)
    BY <1>6 DEF Write
  <2>2. registry' = op[t].reg \/ registry' \in Torn
    BY <1>6, WrittenKinds DEF Write
  <2>3. registry' \notin Torn => /\ Says(op[t].kind, u, registry')
                                /\ Keeps(op[t].kind, u, registry', chosen)
    BY <1>3, <2>1, <2>2 DEF Held, Saving
  <2>4. SelectionKept'
    <3>1. CASE op[t].kind = "select"
      BY <2>1, <2>3, <3>1 DEF Choose, Says, SelectionKept
    <3>2. CASE op[t].kind = "forget" /\ chosen = u
      BY <2>1, <3>2 DEF Choose, SelectionKept
    <3>3. CASE op[t].kind # "select" /\ ~(op[t].kind = "forget" /\ chosen = u)
      BY <2>1, <2>3, <3>3 DEF Choose, Keeps, SelectionKept
    <3> QED
      BY <3>1, <3>2, <3>3
  <2>5. op'[t].pc \notin {"truncate", "write"} /\ \A s \in Thread : s # t => op'[s] = op[s]
    <3>1. Goto(t, "delRefresh") \/ Return(t, "ok")
      BY <1>6 DEF Write
    <3>2. op'[t].pc \notin {"truncate", "write"}
      BY <3>1, ReturnFields, GotoFields
    <3>3. \A s \in Thread : s # t => op'[s] = op[s]
      BY <1>1, <3>1 DEF Goto, Return
    <3> QED
      BY <3>2, <3>3
  <2>6. chosen' # NoAccount => \A s \in Thread \ {t} : ~Saving(s)
    <3>1. CASE op[t].kind = "select"
      BY <2>1, <3>1 DEF Choose, AnotherSaves
    <3>2. CASE op[t].kind # "select"
      <4>1. chosen' # NoAccount => chosen # NoAccount
        BY <2>1, <3>2 DEF Choose
      <4> QED
        BY <1>3, <2>1, <4>1 DEF OneSaves, Saving
    <3> QED
      BY <3>1, <3>2
  <2>7. ASSUME NEW s \in Thread PROVE (chosen' # NoAccount => ~Saving(s)') /\ Held(s)'
    <3>1. CASE s = t
      BY <2>5, <3>1 DEF Saving, Held
    <3>2. CASE s # t
      BY <2>5, <2>6, <3>2 DEF Orderly, Saving, Held, Keeps
    <3> QED
      BY <3>1, <3>2
  <2> QED
    BY <2>4, <2>7 DEF Orderly, OneSaves
<1> QED
  BY <1>4, <1>5, <1>6

LEMMA OrderlyKept ==
    ASSUME IInv, Orderly, [Next]_vars
    PROVE  Orderly'
<1>1. ASSUME NEW t \in Thread,
             \/ Begin(t) \/ Lookup(t) \/ Renewed(t)
             \/ Keyring(t) \/ FileRead(t) \/ FileTruncate(t) \/ FileWrite(t)
             \/ Load(t) \/ Truncate(t) \/ Write(t) \/ Fail(t)
      PROVE  Orderly'
  BY <1>1, OrderlyRequests, OrderlySecrets, OrderlySaves
<1>2. CASE Restart
  <2>1. op' = [t \in Thread |-> Idle] /\ UNCHANGED <<registry, chosen>>
    BY <1>2 DEF Restart
  <2>2. \A t \in Thread : op'[t].pc = "idle"
    BY <2>1 DEF Idle
  <2> QED
    BY <2>1, <2>2 DEF Orderly, OneSaves, Held, Saving, SelectionKept
<1>3. CASE UNCHANGED vars
  BY <1>3 DEF vars, Orderly, OneSaves, Held, Saving, SelectionKept
<1> QED
  BY <1>1, <1>2, <1>3 DEF Next

\* The account selected stays active until another is selected or it is removed, whatever
\* requests, launches that await the identity provider and background sign-ins run between
\* one another's steps, fail, or die with the daemon; until one reads accounts.json between
\* another's read and write of it (AccountStore::remember, set_active, forget).
THEOREM SelectionSafe == Spec => []SelectionKept
<1>1. Init => Orderly
  <2> SUFFICES ASSUME Init PROVE Orderly
    OBVIOUS
  <2>1. \A t \in Thread : op[t].pc = "idle"
    BY DEF Init, Idle
  <2> QED
    BY <2>1 DEF Init, Orderly, OneSaves, Held, Saving, SelectionKept
<1>2. IInv /\ Orderly /\ [Next]_vars => IInv' /\ Orderly'
  BY StepOK, OrderlyKept
<1>3. Orderly => SelectionKept
  BY DEF Orderly
<1> QED
  BY InitOK, <1>1, <1>2, <1>3, PTL DEF Spec

==============================================================================
