-------------------------------- MODULE Login --------------------------------
(***************************************************************************)
(* How an account comes to be remembered and to be launched with.  There   *)
(* are two entries to the chain of services.  A sign-in polls the identity *)
(* provider with a device code, in the background, until the code expires. *)
(* A launch whose stored session is about to expire hands the provider the *)
(* refresh token instead.  Either way the services of Xbox and Minecraft   *)
(* are asked next, one after the other, and the account they make is       *)
(* remembered.  Rpc tells the client how a sign-in ended.                  *)
(***************************************************************************)
EXTENDS Naturals

CONSTANTS
    Job,         \* sign-ins, and renewals by launches
    ExpiresIn,   \* how long a device code is good for
    MaxInterval  \* bound: the longest interval slow_down leads to

\* DeviceCode::poll_interval is a second at least, and codes last longer.
ASSUME LoginAssumption == {ExpiresIn, MaxInterval} \subseteq Nat \ {0}

VARIABLES
    job,    \* how far each has come
    saved,  \* those whose account was remembered
    used,   \* those whose account a launch was given
    facts   \* history: what the services answered each of them

lvars == <<job, saved, used, facts>>

\* What stops one of them (the variants of the errors of each service); codes of
\* Xbox Live by their last digits, 0 for any other.
PollProblem == {"transport", "expired", "declined", "rejected", "unapproved"}
XErr == {227, 233, 235, 236, 237, 238, 0}
HttpProblem == {"transport", "status", "malformed"}
CheckProblem == HttpProblem \cup {"401", "403"}

Code == {"NONE", "NETWORK", "AUTH_REQUIRED", "AUTH_EXPIRED", "AZURE_APP_UNAPPROVED",
         "XBOX_ACCOUNT_MISSING", "XBOX_CHILD_ACCOUNT", "XBOX_REGION_UNAVAILABLE",
         "XBOX_ACCOUNT_BANNED", "XBOX_ADULT_VERIFICATION_REQUIRED", "ENTITLEMENT_MISSING",
         "ENTITLEMENT_SIGNATURE_INVALID", "CREDENTIAL_STORE_UNAVAILABLE"}

Pc == {"none", "sleep", "poll", "refresh", "authenticate", "authorize", "login", "entitlements",
       "profile", "remember", "done"}

State == [pc : Pc, entry : {"code", "refresh"}, waited : 0..ExpiresIn + MaxInterval,
          interval : 1..MaxInterval, code : Code]

\* The answer to a request for entitlements has a list of items, which nobody signs,
\* and beside it a token, whose claims Mojang's key signs; and then there is a profile.
Token == {"unknown", "missing", "invalid", "valid"}
Fact == [token   : Token,
         claims  : BOOLEAN,   \* what is signed in the token lists the game
         items   : BOOLEAN,   \* the items list the game
         profile : BOOLEAN]

LoginTypeOK ==
    /\ job \in [Job -> State]
    /\ {saved, used} \subseteq SUBSET Job
    /\ facts \in [Job -> Fact]

LoginInit ==
    /\ job = [j \in Job |-> [pc |-> "none", entry |-> "code", waited |-> 0, interval |-> 1,
                             code |-> "NONE"]]
    /\ saved = {} /\ used = {}
    /\ facts = [j \in Job |-> [token |-> "unknown", claims |-> FALSE, items |-> FALSE,
                               profile |-> FALSE]]

------------------------------------------------------------------------------
(* Errors, as auth_code reports them *)

\* xbox::Error::from_xerr and auth_code.
XboxCode(xerr) ==
    CASE xerr = 227 -> "XBOX_ACCOUNT_BANNED"
      [] xerr = 233 -> "XBOX_ACCOUNT_MISSING"
      [] xerr = 235 -> "XBOX_REGION_UNAVAILABLE"
      [] xerr \in {236, 237} -> "XBOX_ADULT_VERIFICATION_REQUIRED"
      [] xerr = 238 -> "XBOX_CHILD_ACCOUNT"
      [] OTHER -> "AUTH_REQUIRED"

\* MinecraftClient::check and the errors of the requests themselves.
HttpCode(problem) ==
    CASE problem = "transport" -> "NETWORK"
      [] problem = "401" -> "AUTH_EXPIRED"
      [] problem \in {"403", "unapproved"} -> "AZURE_APP_UNAPPROVED"
      [] OTHER -> "AUTH_REQUIRED"

\* What XboxClient::post may report.
XboxCodes == {XboxCode(xerr) : xerr \in XErr} \cup {HttpCode(problem) : problem \in HttpProblem}

\* Verifier::verify: whether the token is Mojang's, then whether the items list the
\* game.  The claims of the token are decoded and not looked at.
Verify(fact) ==
    CASE fact.token # "valid" -> "ENTITLEMENT_SIGNATURE_INVALID"
      [] fact.token = "valid" /\ ~fact.items -> "ENTITLEMENT_MISSING"
      [] OTHER -> "NONE"

------------------------------------------------------------------------------
(* The chain *)

Goto(j, pc) == job' = [job EXCEPT ![j].pc = pc]

\* launch_start answers AUTH_REQUIRED whatever a renewal failed of.
Reported(j, code) ==
    IF job[j].entry = "refresh" /\ code # "NONE" THEN "AUTH_REQUIRED" ELSE code

\* The chain is left; code is NONE if it succeeded.
End(j, code) == job' = [job EXCEPT ![j].pc = "done", ![j].code = Reported(j, code)]

\* A service answered, or the chain is left with a code.
Asked(j, next, codes) == Goto(j, next) \/ \E code \in codes : End(j, code)

\* begin_device_code succeeded.
BeginDeviceCode(j) ==
    /\ job[j].pc = "none"
    /\ Goto(j, "sleep")
    /\ UNCHANGED <<saved, used, facts>>

\* Fault: the deadline is forgotten.
SleepUnchecked(j) ==
    /\ job[j].pc = "sleep"
    /\ job' = [job EXCEPT ![j].pc = "poll", ![j].waited = job[j].waited + job[j].interval]
    /\ UNCHANGED <<saved, used, facts>>

\* wait_for_device_code looks at the clock, then sleeps.
Sleep(j) ==
    /\ job[j].pc = "sleep"
    /\ IF job[j].waited >= ExpiresIn THEN End(j, "AUTH_REQUIRED")
       ELSE job' = [job EXCEPT ![j].pc = "poll", ![j].waited = job[j].waited + job[j].interval]
    /\ UNCHANGED <<saved, used, facts>>

\* poll_device_code; slow_down makes the interval longer.
Poll(j) ==
    /\ job[j].pc = "poll"
    /\ \/ Asked(j, "authenticate", {HttpCode(problem) : problem \in PollProblem})
       \/ Goto(j, "sleep")
       \/ /\ job[j].interval < MaxInterval
          /\ job' = [job EXCEPT ![j].pc = "sleep", ![j].interval = job[j].interval + 1]
    /\ UNCHANGED <<saved, used, facts>>

\* renew, for an account that is stored and has a refresh token.
BeginRenewal(j) ==
    /\ job[j].pc = "none" /\ saved # {}
    /\ job' = [job EXCEPT ![j].pc = "refresh", ![j].entry = "refresh"]
    /\ UNCHANGED <<saved, used, facts>>

\* Fault: who was verified once is not verified again.
RefreshTrusted(j) ==
    /\ job[j].pc = "refresh"
    /\ Asked(j, "profile", {"AUTH_REQUIRED"})
    /\ UNCHANGED <<saved, used, facts>>

\* MicrosoftClient::refresh; complete follows, as after a device code.
Refresh(j) ==
    /\ job[j].pc = "refresh"
    /\ Asked(j, "authenticate", {"AUTH_REQUIRED"})
    /\ UNCHANGED <<saved, used, facts>>

\* XboxClient::post, for the user token and for the one of Minecraft.
Xbox(j) ==
    /\ \/ job[j].pc = "authenticate" /\ Asked(j, "authorize", XboxCodes)
       \/ job[j].pc = "authorize" /\ Asked(j, "login", XboxCodes)
    /\ UNCHANGED <<saved, used, facts>>

LoginWithXbox(j) ==
    /\ job[j].pc = "login"
    /\ Asked(j, "entitlements", {HttpCode(problem) : problem \in CheckProblem})
    /\ UNCHANGED <<saved, used, facts>>

\* The entitlements arrive and are verified, or do not.  The token may be missing, or
\* not Mojang's, or say something else than the items.
Entitlements(j) ==
    /\ job[j].pc = "entitlements"
    /\ \/ \E problem \in CheckProblem : End(j, HttpCode(problem)) /\ UNCHANGED facts
       \/ \E token \in Token \ {"unknown"}, claims, items \in BOOLEAN :
            LET fact == [token |-> token, claims |-> claims, items |-> items,
                         profile |-> FALSE] IN
            /\ claims => token = "valid"
            /\ facts' = [facts EXCEPT ![j] = fact]
            /\ IF Verify(fact) = "NONE" THEN Goto(j, "profile") ELSE End(j, Verify(fact))
    /\ UNCHANGED <<saved, used>>

\* 404 says that there is none.
Profile(j) ==
    /\ job[j].pc = "profile"
    /\ \/ \E problem \in CheckProblem \cup {"404"} : End(j, HttpCode(problem)) /\ UNCHANGED facts
       \/ Goto(j, "remember") /\ facts' = [facts EXCEPT ![j].profile = TRUE]
    /\ UNCHANGED <<saved, used>>

\* AccountStore::remember, in Accounts step by step.  A launch goes on with the account
\* it has renewed whether that could be remembered or not.
Remember(j) ==
    /\ job[j].pc = "remember"
    /\ \/ End(j, "NONE") /\ saved' = saved \cup {j}
       \/ /\ End(j, IF job[j].entry = "refresh" THEN "NONE" ELSE "CREDENTIAL_STORE_UNAVAILABLE")
          /\ UNCHANGED saved
    /\ used' = IF job[j].entry = "refresh" THEN used \cup {j} ELSE used
    /\ UNCHANGED facts

\* usable_account: a launch takes the stored session, which is not about to expire.
UseStored(j) ==
    /\ j \in saved
    /\ used' = used \cup {j}
    /\ UNCHANGED <<job, saved, facts>>

LoginStep(j) ==
    \/ Sleep(j) \/ Poll(j) \/ Refresh(j) \/ Xbox(j) \/ LoginWithXbox(j) \/ Entitlements(j)
    \/ Profile(j) \/ Remember(j)

LoginNext ==
    \E j \in Job : BeginDeviceCode(j) \/ BeginRenewal(j) \/ LoginStep(j) \/ UseStored(j)

------------------------------------------------------------------------------
(* Properties *)

\* Whoever is remembered or launched with has shown, for that very session, a token
\* that Mojang's key made, items that list the game, and a profile: by a device code
\* or a refresh token, wherever the chain was left before, with the session stored or
\* not (Authenticator::complete, usable_account).  It says nothing of the claims of
\* the token: EntitlementSigned does.
AccountVerified ==
    \A j \in saved \cup used :
        facts[j].token = "valid" /\ facts[j].items /\ facts[j].profile

\* schema/rpc.json:178, of launch.start: "Refuses unless the active account holds a
\* signature-verified entitlement and a resolvable profile": whoever is launched with
\* has a token whose signed claims list the game.
EntitlementSigned == \A j \in used : facts[j].token = "valid" /\ facts[j].claims
==============================================================================
