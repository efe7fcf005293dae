------------------------------- MODULE Accounts -------------------------------
(***************************************************************************)
(* The account store of acelus-auth as the daemon uses it: a registry file *)
(* that lists the accounts, and their tokens in the OS keyring or, where   *)
(* that is not usable, in a credentials file.  Threads are the requests of *)
(* different clients and the sign-ins that wait in the background; nothing *)
(* in the store keeps one from running between the steps of another.       *)
(*                                                                         *)
(* Both files are written with fs::write, which empties the file and then  *)
(* fills it.  Who reads in between finds no JSON.  Two threads that write  *)
(* at once can leave the end of the longer text behind the shorter one.    *)
(***************************************************************************)
EXTENDS Naturals, Sequences

CONSTANTS
    Account,     \* uuids of the accounts that sign in
    Thread,      \* requests and background sign-ins
    NoAccount,   \* Registry::active when it is None
    Empty,       \* a file that was emptied and not written yet
    Garbage,     \* a file that holds parts of two texts
    Backings,    \* which SecretBacking a start of the daemon may choose
    Faults,      \* the keyring and the disk may fail
    Crashes,     \* the daemon may die and be started again
    OneByOne     \* bound: backings with which requests do not overlap

Torn == {Empty, Garbage}   \* what a file holds that is not JSON

Registry == [active : Account \cup {NoAccount}, accounts : Seq(Account)]
Tokens == [Account -> SUBSET {"refresh", "session"}]

ASSUME AccountsAssumption ==
    /\ NoAccount \notin Account
    /\ \A text \in Torn : text \notin Registry /\ text \notin Tokens
    /\ Backings \subseteq {"keyring", "file"} /\ Backings # {}
    /\ OneByOne \subseteq Backings
    /\ {Faults, Crashes} \subseteq BOOLEAN

VARIABLES
    registry,   \* accounts.json
    secrets,    \* the tokens in the keyring, and those in credentials.json
    backing,    \* where this daemon keeps tokens (AccountStore::with_fallback)
    op,         \* what each thread is in the middle of
    chosen      \* history: the account selected last, as far as it has to be kept

vars == <<registry, secrets, backing, op, chosen>>

\* Steps of remember, set_active and forget that touch tokens, and the others.
SecretPc == {"setRefresh", "setSession", "delRefresh", "delSession"}
Pc == {"idle", "lookup", "renewing", "load", "truncate", "write"} \cup SecretPc

Kind == {"none", "signIn", "launch", "select", "forget"}

Op == [pc     : Pc,
       kind   : Kind,
       uuid   : Account \cup {NoAccount},
       reg    : Registry,                          \* what is to be saved
       stage  : {"read", "truncate", "write"},     \* of FileSecrets::set, delete
       tokens : Tokens,                            \* what they are to write
       result : {"none", "ok", "error"}]

NoRegistry == [active |-> NoAccount, accounts |-> <<>>]
NoTokens == [u \in Account |-> {}]

Idle == [pc |-> "idle", kind |-> "none", uuid |-> NoAccount, reg |-> NoRegistry,
         stage |-> "read", tokens |-> NoTokens, result |-> "none"]

TypeOK ==
    /\ registry \in Registry \cup Torn
    /\ secrets \in [keyring : Tokens, file : Tokens \cup Torn]
    /\ backing \in Backings
    /\ op \in [Thread -> Op]
    /\ chosen \in Account \cup {NoAccount}

Init ==
    /\ registry = NoRegistry
    /\ secrets = [keyring |-> NoTokens, file |-> NoTokens]
    /\ backing \in Backings
    /\ op = [t \in Thread |-> Idle]
    /\ chosen = NoAccount

------------------------------------------------------------------------------
(* Registry and tokens *)

Elements(s) == {s[i] : i \in 1..Len(s)}
Listed(r) == Elements(r.accounts)

\* accounts.retain(|held| held.uuid != uuid): a uuid is listed once at most
\* (RegistryWellFormed), so one entry goes, and the others keep their order.
Without(s, u) ==
    IF u \notin Elements(s) THEN s
    ELSE LET i == CHOOSE j \in 1..Len(s) : s[j] = u
         IN  [k \in 1..Len(s) - 1 |-> IF k < i THEN s[k] ELSE s[k + 1]]

\* Fault: the account signed in last becomes the active one.
RememberedActive(r, u) ==
    [active |-> u, accounts |-> Append(Without(r.accounts, u), u)]

\* What remember, set_active and forget make of the registry they loaded.
Remembered(r, u) ==
    [active   |-> IF r.active = NoAccount THEN u ELSE r.active,
     accounts |-> Append(Without(r.accounts, u), u)]

Selected(r, u) == [r EXCEPT !.active = u]

\* Fault: the account that is forgotten stays the active one.
ForgottenActive(r, u) == [r EXCEPT !.accounts = Without(r.accounts, u)]

Forgotten(r, u) ==
    LET rest == Without(r.accounts, u) IN
    [active   |-> CASE r.active # u -> r.active
                    [] r.active = u /\ rest = <<>> -> NoAccount
                    [] r.active = u /\ rest # <<>> -> rest[1],
     accounts |-> rest]

Updated(kind, r, u) ==
    CASE kind \in {"signIn", "launch"} -> Remembered(r, u)
      [] kind = "select" -> Selected(r, u)
      [] kind = "forget" -> Forgotten(r, u)

\* The tokens of u after a step at pc.
Changed(tokens, u, pc) ==
    [tokens EXCEPT ![u] = CASE pc = "setRefresh" -> @ \cup {"refresh"}
                            [] pc = "setSession" -> @ \cup {"session"}
                            [] pc = "delRefresh" -> @ \ {"refresh"}
                            [] pc = "delSession" -> @ \ {"session"}]

\* What fs::write leaves: the text, or a mixture if another thread has written
\* since this one emptied the file.
Written(file, text) == IF file = Empty THEN {text} ELSE {text, Garbage}

Return(t, result) == op' = [op EXCEPT ![t] = [Idle EXCEPT !.kind = op[t].kind,
                                                          !.uuid = op[t].uuid,
                                                          !.result = result]]

\* A launch does not depend on whether the renewed account could be remembered.
Failed(t) == Return(t, IF op[t].kind = "launch" THEN "ok" ELSE "error")

Goto(t, pc) == op' = [op EXCEPT ![t].pc = pc]

\* Where a thread goes once the token of its step is set or deleted.
Advance(t) ==
    IF op[t].pc = "delSession" THEN Return(t, "ok")
    ELSE op' = [op EXCEPT ![t] =
                  [@ EXCEPT !.stage = "read", !.tokens = NoTokens,
                            !.pc = CASE op[t].pc = "setRefresh" -> "setSession"
                                     [] op[t].pc = "setSession" -> "load"
                                     [] op[t].pc = "delRefresh" -> "delSession"]]

------------------------------------------------------------------------------
(* Requests *)

\* A sign-in that has succeeded is remembered; account.select and account.remove
\* start with the registry; a launch looks its account up.
Begin(t) ==
    /\ op[t].pc = "idle"
    /\ backing \in OneByOne => \A s \in Thread : op[s].pc = "idle"
    /\ \E u \in Account \cup {NoAccount}, kind \in {"signIn", "launch", "select", "forget"} :
        /\ u = NoAccount => kind = "launch"
        /\ op' = [op EXCEPT ![t] =
                 [Idle EXCEPT !.kind = kind, !.uuid = u,
                              !.pc = CASE kind = "signIn" -> "setRefresh"
                                       [] kind = "launch" -> "lookup"
                                       [] OTHER -> "load"]]
    /\ UNCHANGED <<registry, secrets, backing, chosen>>

\* Fault: usable_account renews without an account being found.
LookupUnchecked(t) ==
    /\ op[t].pc = "lookup"
    /\ Goto(t, "renewing")
    /\ UNCHANGED <<registry, secrets, backing, chosen>>

\* usable_account: the account asked for, or the active one.  A session about to
\* expire is renewed with the refresh token; without an authenticator or a token
\* there is no account to launch with.
Lookup(t) ==
    /\ op[t].pc = "lookup"
    /\ \/ /\ registry \notin Torn /\ secrets[backing] \notin Torn
          /\ \E u \in Listed(registry) :
              /\ u = IF op[t].uuid = NoAccount THEN registry.active ELSE op[t].uuid
              /\ \/ /\ "refresh" \in secrets[backing][u]
                    /\ op' = [op EXCEPT ![t] = [@ EXCEPT !.pc = "renewing", !.uuid = u]]
                 \/ /\ "session" \in secrets[backing][u]
                    /\ Return(t, "ok")
       \/ Return(t, "error")
    /\ UNCHANGED <<registry, secrets, backing, chosen>>

\* renew: the identity provider answers, with a new refresh token or without one,
\* or refuses.
Renewed(t) ==
    /\ op[t].pc = "renewing"
    /\ \/ \E pc \in {"setRefresh", "setSession"} : Goto(t, pc)
       \/ Return(t, "error")
    /\ UNCHANGED <<registry, secrets, backing, chosen>>

------------------------------------------------------------------------------
(* The secret store *)

\* A keyring sets or deletes one entry at a time.
Keyring(t) ==
    /\ op[t].pc \in SecretPc
    /\ backing = "keyring"
    /\ secrets' = [secrets EXCEPT !.keyring = Changed(secrets.keyring, op[t].uuid, op[t].pc)]
    /\ Advance(t)
    /\ UNCHANGED <<registry, backing, chosen>>

\* FileSecrets::set and delete read the file, change the map and write it back.
FileRead(t) ==
    /\ op[t].pc \in SecretPc /\ op[t].stage = "read"
    /\ backing = "file"
    /\ IF secrets.file \in Torn
       THEN Failed(t)
       ELSE op' = [op EXCEPT ![t] =
                     [@ EXCEPT !.stage = "truncate",
                               !.tokens = Changed(secrets.file, op[t].uuid, op[t].pc)]]
    /\ UNCHANGED <<registry, secrets, backing, chosen>>

FileTruncate(t) ==
    /\ op[t].pc \in SecretPc /\ op[t].stage = "truncate"
    /\ secrets' = [secrets EXCEPT !.file = Empty]
    /\ op' = [op EXCEPT ![t].stage = "write"]
    /\ UNCHANGED <<registry, backing, chosen>>

FileWrite(t) ==
    /\ op[t].pc \in SecretPc /\ op[t].stage = "write"
    /\ \E text \in Written(secrets.file, op[t].tokens) :
        secrets' = [secrets EXCEPT !.file = text]
    /\ Advance(t) \/ (Faults /\ Failed(t))   \* the permissions are set last
    /\ UNCHANGED <<registry, backing, chosen>>

------------------------------------------------------------------------------
(* The registry *)

\* Between the read and the write of accounts.json.
Saving(t) == op[t].pc \in {"truncate", "write"}
AnotherSaves(t) == \E s \in Thread \ {t} : Saving(s)

\* load, then the change; an account that is not listed cannot be selected or
\* forgotten.
Load(t) ==
    /\ op[t].pc = "load"
    /\ IF \/ registry \in Torn
          \/ op[t].kind \in {"select", "forget"} /\ op[t].uuid \notin Listed(registry)
       THEN Failed(t)
       ELSE op' = [op EXCEPT ![t] =
                     [@ EXCEPT !.pc = "truncate",
                               !.reg = Updated(op[t].kind, registry, op[t].uuid)]]
    /\ chosen' = IF AnotherSaves(t) THEN NoAccount ELSE chosen
    /\ UNCHANGED <<registry, secrets, backing>>

Truncate(t) ==
    /\ op[t].pc = "truncate"
    /\ registry' = Empty
    /\ Goto(t, "write")
    /\ UNCHANGED <<secrets, backing, chosen>>

\* The history of what was selected: NoAccount once it is removed, and once a request
\* has read accounts.json while another was saving, for either may undo the other.
Choose(t) ==
    chosen' = CASE op[t].kind = "select" -> IF AnotherSaves(t) THEN NoAccount ELSE op[t].uuid
                [] op[t].kind = "forget" /\ chosen = op[t].uuid -> NoAccount
                [] OTHER -> chosen

\* Fault: forget stops once the account is out of the registry.
WriteHides(t) ==
    /\ op[t].pc = "write"
    /\ \E text \in Written(registry, op[t].reg) : registry' = text
    /\ Return(t, "ok")
    /\ Choose(t)
    /\ UNCHANGED <<secrets, backing>>

Write(t) ==
    /\ op[t].pc = "write"
    /\ \E text \in Written(registry, op[t].reg) : registry' = text
    /\ IF op[t].kind = "forget" THEN Goto(t, "delRefresh") ELSE Return(t, "ok")
    /\ Choose(t)
    /\ UNCHANGED <<secrets, backing>>

------------------------------------------------------------------------------
(* What can go wrong *)

\* A step fails, and the operation with it: what was done stays done.
Fail(t) ==
    /\ Faults
    /\ op[t].pc \in SecretPc \cup {"load", "truncate", "write"}
    /\ Failed(t)
    /\ UNCHANGED <<registry, secrets, backing, chosen>>

\* The daemon dies and another is started, which probes the keyring again.
Restart ==
    /\ Crashes
    /\ op' = [t \in Thread |-> Idle]
    /\ backing' \in Backings
    /\ UNCHANGED <<registry, secrets, chosen>>

Next ==
    \/ \E t \in Thread :
        \/ Begin(t) \/ Lookup(t) \/ Renewed(t)
        \/ Keyring(t) \/ FileRead(t) \/ FileTruncate(t) \/ FileWrite(t)
        \/ Load(t) \/ Truncate(t) \/ Write(t) \/ Fail(t)
    \/ Restart

Spec == Init /\ [][Next]_vars

------------------------------------------------------------------------------
(* Properties *)

\* No account is listed twice, and one is active as soon as any is listed.
WellFormed(r) ==
    /\ \A i, j \in 1..Len(r.accounts) : r.accounts[i] = r.accounts[j] => i = j
    /\ IF r.accounts = <<>> THEN r.active = NoAccount ELSE r.active \in Listed(r)

\* The registry, whenever it can be read, is well formed: whatever requests
\* overlap, whatever fails, an active account is one that exists.
RegistryWellFormed == registry \notin Torn => WellFormed(registry)

\* What a request has been told is so, if no other has been made since the daemon
\* started: after a sign-in the account is listed and has its token, the account
\* selected is the active one, and of an account that was removed nothing is left,
\* whatever was left by failures, crashes and overlaps before (account_select,
\* account_remove, loginComplete).
RepliesTrue ==
    \A t \in Thread :
        /\ \A s \in Thread \ {t} : op[s] = Idle
        /\ op[t].pc = "idle" /\ op[t].result = "ok"
        /\ registry \notin Torn /\ secrets[backing] \notin Torn
        => /\ op[t].kind = "signIn" => /\ op[t].uuid \in Listed(registry)
                                       /\ "session" \in secrets[backing][op[t].uuid]
           /\ op[t].kind = "select" => registry.active = op[t].uuid
           /\ op[t].kind = "forget" => /\ op[t].uuid \notin Listed(registry)
                                       /\ secrets[backing][op[t].uuid] = {}

\* The account selected stays the active one until another is selected or it is
\* removed: sign-ins that wait in the background, launches that await the identity
\* provider and removals of other accounts, all meanwhile, do not change it, as long
\* as none reads accounts.json while another saves it (Registry::active,
\* account.select; schema/rpc.json:44).
SelectionKept == registry \notin Torn /\ chosen # NoAccount => registry.active = chosen
==============================================================================
