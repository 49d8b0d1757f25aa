--------------------------- MODULE IdentitySession ---------------------------
(***************************************************************************)
(* Sign-in (identity/, auth.rs and the /auth routes of api.rs): a session  *)
(* starts when Google's callback succeeds and passes a TOTP and a WebAuthn *)
(* stage, in either order, before it is admin_tier.  Codes, devices and    *)
(* sessions are rows of a database that outlives the process; login flows  *)
(* and ceremonies are maps in its memory.                                  *)
(*                                                                         *)
(* A request is a sequence of steps, one for each statement or lock it     *)
(* awaits, and may be cut off before any of them: the statement fails, the *)
(* library refuses the answer, or the client goes away and the handler is  *)
(* dropped.  There is one user, the operator, with any number of tabs.     *)
(*                                                                         *)
(* A definition named Bug... is a faulty variant of the one that follows   *)
(* it.  Next uses none of them.                                            *)
(***************************************************************************)
EXTENDS Integers, FiniteSets

CONSTANTS
    Requests,    \* requests in progress at one time
    Sessions,    \* session ids
    Keys,        \* passkeys
    Flows,       \* flow ids
    None,        \* no session and no flow
    Cap,         \* ADMIN_CREDENTIAL_CAP, and the trigger's limit
    FlowLife,    \* FLOW_TTL_SECS in TOTP steps
    MaxCalls,    \* bound on the requests of a behaviour
    MaxSecrets,  \* bound on TOTP setups
    MaxStep      \* bound on the clock, in TOTP steps

ASSUME IdentityAssumption ==
    /\ IsFiniteSet(Keys) /\ Sessions \intersect Flows = {} /\ None \notin Sessions \union Flows
    /\ Cap \in Nat /\ FlowLife \in Nat /\ MaxCalls \in Nat /\ MaxSecrets \in Nat /\ MaxStep \in Nat \ {0}

VARIABLES
    now,       \* the clock, in TOTP steps
    flows,     \* pending_flows, with the flows that were used up or lost
    user,      \* whether the user has a row
    session,   \* rows of sessions
    totp,      \* the row of totp_secrets; secret 0 is no row, last 0 is NULL
    key,       \* rows of webauthn_credentials, with those deleted
    regs,      \* sessions with a pending registration
    auths,     \* pending authentications: the passkeys asked for
    begun,     \* how many requests were made
    at,        \* per request: its next step
    of,        \* per request: its session, for a callback its flow
    arg,       \* per request: what it read
    \* History.
    source,    \* per session: the flow it came from
    earned,    \* per session: the stages whose proof was accepted
    cut,       \* sessions with a request cut off just before its promotion
    spent,     \* codes accepted
    fresh,     \* codes accepted since the last verified setup, its own included
    raced      \* whether one of them was accepted for a row that had changed
               \* since it was read

memory   == <<flows, regs, auths>>
database == <<user, session, totp, key>>
calls    == <<begun, at, of, arg>>
accepted == <<spent, fresh, raced>>
history  == <<source, earned, cut, accepted>>
vars     == <<now, memory, database, calls, history>>

Secrets == 0 .. MaxSecrets
Clock   == 1 .. MaxStep
Rows    == [secret : Secrets, enabled : BOOLEAN, last : 0 .. MaxStep]
Kinds   == {"setup", "login", "stepUp"}
NoArg   == [kind |-> "login", row |-> [secret |-> 0, enabled |-> FALSE, last |-> 0],
            step |-> 0, keys |-> {}]
Points  == {"idle", "flowTake", "findUser", "newUser", "newSession",
            "newSecret", "load", "write", "markTotp", "markKey", "promote",
            "regCount", "regOpen", "regTake", "regRecount", "regInsert",
            "keysLoad", "authOpen", "authTake", "authFind", "keyDelete"}

CallsOK ==
    /\ begun \in 0 .. MaxCalls
    /\ at \in [Requests -> Points]
    /\ of \in [Requests -> Sessions \union Flows \union {None}]
    /\ arg \in [Requests -> [kind : Kinds, row : Rows, step : 0 .. MaxStep,
                             keys : SUBSET Keys]]

TypeOK ==
    /\ CallsOK
    /\ now \in Clock
    /\ flows \in [Flows -> [open : BOOLEAN, born : 0 .. MaxStep]]
    /\ user \in BOOLEAN
    /\ session \in [Sessions -> [made : BOOLEAN, totp : BOOLEAN, key : BOOLEAN,
                                 admin : BOOLEAN, revoked : BOOLEAN]]
    /\ totp \in Rows
    /\ key \in [Keys -> {"new", "registered", "deleted"}]
    /\ regs \subseteq Sessions
    /\ auths \in [Sessions -> SUBSET Keys]
    /\ source \in [Sessions -> Flows \union {None}]
    /\ earned \in [Sessions -> SUBSET {"totp", "key"}]
    /\ cut \subseteq Sessions
    /\ spent \subseteq Secrets \X Clock
    /\ fresh \subseteq spent
    /\ raced \in BOOLEAN

Init ==
    /\ now = 1
    /\ flows = [f \in Flows |-> [open |-> FALSE, born |-> 0]]
    /\ user = FALSE
    /\ session = [s \in Sessions |-> [made |-> FALSE, totp |-> FALSE, key |-> FALSE,
                                      admin |-> FALSE, revoked |-> FALSE]]
    /\ totp = NoArg.row
    /\ key = [k \in Keys |-> "new"]
    /\ regs = {}
    /\ auths = [s \in Sessions |-> {}]
    /\ begun = 0
    /\ at = [r \in Requests |-> "idle"]
    /\ of = [r \in Requests |-> None]
    /\ arg = [r \in Requests |-> NoArg]
    /\ source = [s \in Sessions |-> None]
    /\ earned = [s \in Sessions |-> {}]
    /\ cut = {}
    /\ spent = {}
    /\ fresh = {}
    /\ raced = FALSE

------------------------------------------------------------------------------
(* Requests.                                                               *)

Move(r, to) == at' = [at EXCEPT ![r] = to] /\ UNCHANGED begun

Arrive(r, to) ==
    /\ begun < MaxCalls
    /\ begun' = begun + 1
    /\ at[r] = "idle"
    /\ at' = [at EXCEPT ![r] = to]

\* The request is answered.
Answer(r) ==
    /\ Move(r, "idle")
    /\ of' = [of EXCEPT ![r] = None]
    /\ arg' = [arg EXCEPT ![r] = NoArg]

Keep(r, a) == arg' = [arg EXCEPT ![r] = a] /\ UNCHANGED of

Active(s) == session[s].made /\ ~session[s].revoked

BugBegin(r, s) ==
    /\ session[s].made
    /\ of' = [of EXCEPT ![r] = s]
    /\ \/ /\ \E p \in {"newSecret", "regCount", "regTake", "keysLoad", "authTake",
                       "keyDelete"} : Arrive(r, p)
          /\ UNCHANGED arg
       \/ /\ Arrive(r, "load")
          /\ \E k \in Kinds :
                /\ k = "stepUp" => session[s].admin
                /\ arg' = [arg EXCEPT ![r].kind = k]
    /\ UNCHANGED <<now, memory, database, history>>

\* require_session, and require_step_up for a protected route: the session is
\* read once, here.
Begin(r, s) ==
    /\ Active(s)
    /\ of' = [of EXCEPT ![r] = s]
    /\ \/ /\ \E p \in {"newSecret", "regCount", "regTake", "keysLoad", "authTake",
                       "keyDelete"} : Arrive(r, p)
          /\ UNCHANGED arg
       \/ /\ Arrive(r, "load")
          /\ \E k \in Kinds :
                /\ k = "stepUp" => session[s].admin
                /\ arg' = [arg EXCEPT ![r].kind = k]
    /\ UNCHANGED <<now, memory, database, history>>

\* The request ends before its next step, whatever the reason.
Refuse(r) ==
    /\ at[r] # "idle"
    /\ Answer(r)
    /\ cut' = IF at[r] = "promote" THEN cut \union {of[r]} ELSE cut
    /\ UNCHANGED <<now, memory, database, source, earned, accepted>>

------------------------------------------------------------------------------
(* Google sign-in (identity/oidc.rs).                                      *)

Expired(f) == now - flows[f].born >= FlowLife

\* begin_login also sweeps the expired flows.
BeginLogin(f) ==
    /\ flows[f].born = 0
    /\ flows' = [g \in Flows |->
                    IF g = f THEN [open |-> TRUE, born |-> now]
                    ELSE [flows[g] EXCEPT !.open = @ /\ ~Expired(g)]]
    /\ UNCHANGED <<now, regs, auths, database, calls, history>>

\* Google sends a browser back with the cookie of a flow, perhaps again.
Callback(r, f) ==
    /\ flows[f].born > 0
    /\ Arrive(r, "flowTake")
    /\ of' = [of EXCEPT ![r] = f]
    /\ UNCHANGED <<now, memory, database, arg, history>>

BugTakeFlow(r) ==
    /\ at[r] = "flowTake"
    /\ flows[of[r]].open
    /\ UNCHANGED flows
    /\ IF Expired(of[r]) THEN Answer(r) ELSE Move(r, "findUser") /\ UNCHANGED <<of, arg>>
    /\ UNCHANGED <<now, regs, auths, database, history>>

\* complete_login removes the flow before it looks at it.
TakeFlow(r) ==
    /\ at[r] = "flowTake"
    /\ flows[of[r]].open
    /\ flows' = [flows EXCEPT ![of[r]].open = FALSE]
    /\ IF Expired(of[r]) THEN Answer(r) ELSE Move(r, "findUser") /\ UNCHANGED <<of, arg>>
    /\ UNCHANGED <<now, regs, auths, database, history>>

\* The code was exchanged and the claims hold.
FindUser(r) ==
    /\ at[r] = "findUser"
    /\ Move(r, IF user THEN "newSession" ELSE "newUser")
    /\ UNCHANGED <<now, memory, database, of, arg, history>>

\* google_sub is unique: the second of two first sign-ins is refused.
NewUser(r) ==
    /\ at[r] = "newUser"
    /\ ~user
    /\ user' = TRUE
    /\ Move(r, "newSession")
    /\ UNCHANGED <<now, memory, session, totp, key, of, arg, history>>

NewSession(r, s) ==
    /\ at[r] = "newSession"
    /\ ~session[s].made
    /\ session' = [session EXCEPT ![s].made = TRUE]
    /\ source' = [source EXCEPT ![s] = of[r]]
    /\ Answer(r)
    /\ UNCHANGED <<now, memory, user, totp, key, earned, cut, accepted>>

Logout(s) ==
    /\ Active(s)
    /\ session' = [session EXCEPT ![s].revoked = TRUE]
    /\ UNCHANGED <<now, memory, user, totp, key, calls, history>>

------------------------------------------------------------------------------
(* TOTP (identity/totp.rs).                                                *)

BugNewSecret(r) ==
    /\ at[r] = "newSecret"
    /\ totp.secret < MaxSecrets
    /\ totp' = [totp EXCEPT !.secret = @ + 1, !.last = 0]
    /\ Answer(r)
    /\ UNCHANGED <<now, memory, user, session, key, history>>

\* start_setup replaces the secret, enabled or not.
NewSecret(r) ==
    /\ at[r] = "newSecret"
    /\ totp.secret < MaxSecrets
    /\ totp' = [secret |-> totp.secret + 1, enabled |-> FALSE, last |-> 0]
    /\ Answer(r)
    /\ UNCHANGED <<now, memory, user, session, key, history>>

\* Codes of the step before and of the step after are good as well.
Window == Clock \intersect (now - 1 .. now + 1)

BugCheckCode(r) ==
    /\ at[r] = "load"
    /\ totp.secret # 0
    /\ arg[r].kind # "setup" => totp.enabled
    /\ \E step \in Window :
          /\ arg[r].kind # "setup" => step >= totp.last
          /\ Keep(r, [arg[r] EXCEPT !.row = totp, !.step = step])
    /\ Move(r, "write")
    /\ UNCHANGED <<now, memory, database, history>>

\* verify_setup and verify_login: read the row, check the code.
CheckCode(r) ==
    /\ at[r] = "load"
    /\ totp.secret # 0
    /\ arg[r].kind # "setup" => totp.enabled
    /\ \E step \in Window :
          /\ arg[r].kind # "setup" => step > totp.last
          /\ Keep(r, [arg[r] EXCEPT !.row = totp, !.step = step])
    /\ Move(r, "write")
    /\ UNCHANGED <<now, memory, database, history>>

Code(r) == <<arg[r].row.secret, arg[r].step>>

\* Write the step to the row of now and accept the code.  A step-up ends here:
\* the protected handler goes on.
AcceptCode(r) ==
    /\ at[r] = "write"
    /\ totp' = [totp EXCEPT !.last = arg[r].step,
                            !.enabled = @ \/ arg[r].kind = "setup"]
    /\ spent' = spent \union {Code(r)}
    /\ fresh' = IF arg[r].kind = "setup" THEN {Code(r)} ELSE fresh \union {Code(r)}
    /\ raced' = (totp # arg[r].row \/ (arg[r].kind # "setup" /\ raced))
    /\ IF arg[r].kind = "stepUp"
       THEN Answer(r) /\ UNCHANGED earned
       ELSE /\ Move(r, "markTotp")
            /\ earned' = [earned EXCEPT ![of[r]] = @ \union {"totp"}]
            /\ UNCHANGED <<of, arg>>
    /\ UNCHANGED <<now, memory, user, session, key, source, cut>>

BugMarkTotp(r) ==
    /\ at[r] = "markTotp"
    /\ session' = [session EXCEPT ![of[r]].totp = TRUE]
    /\ Answer(r)
    /\ UNCHANGED <<now, memory, user, totp, key, history>>

MarkTotp(r) ==
    /\ at[r] = "markTotp"
    /\ session' = [session EXCEPT ![of[r]].totp = TRUE]
    /\ Move(r, "promote")
    /\ UNCHANGED <<now, memory, user, totp, key, of, arg, history>>

\* promote_if_complete: the stage that is marked second finds both.
Promote(r) ==
    /\ at[r] = "promote"
    /\ session' = [session EXCEPT ![of[r]].admin =
                      @ \/ (session[of[r]].totp /\ session[of[r]].key)]
    /\ Answer(r)
    /\ UNCHANGED <<now, memory, user, totp, key, history>>

------------------------------------------------------------------------------
(* Passkeys (identity/webauthn.rs).                                        *)

Registered == {k \in Keys : key[k] = "registered"}
Room == Cardinality(Registered) < Cap

CountForStart(r) ==
    /\ at[r] = "regCount"
    /\ Room
    /\ Move(r, "regOpen")
    /\ UNCHANGED <<now, memory, database, of, arg, history>>

OpenRegistration(r) ==
    /\ at[r] = "regOpen"
    /\ regs' = regs \union {of[r]}
    /\ Answer(r)
    /\ UNCHANGED <<now, flows, auths, database, history>>

\* finish_registration: the ceremony is removed, then the answer checked.
TakeRegistration(r) ==
    /\ at[r] = "regTake"
    /\ of[r] \in regs
    /\ regs' = regs \ {of[r]}
    /\ Move(r, "regRecount")
    /\ UNCHANGED <<now, flows, auths, database, of, arg, history>>

Recount(r) ==
    /\ at[r] = "regRecount"
    /\ Room
    /\ Move(r, "regInsert")
    /\ UNCHANGED <<now, memory, database, of, arg, history>>

BugInsertKey(r, k) ==
    /\ at[r] = "regInsert"
    /\ key[k] = "new"
    /\ key' = [key EXCEPT ![k] = "registered"]
    /\ earned' = [earned EXCEPT ![of[r]] = @ \union {"key"}]
    /\ Move(r, "markKey")
    /\ UNCHANGED <<now, memory, user, session, totp, of, arg, source, cut, accepted>>

\* The trigger counts once more, in the insert itself.
InsertKey(r, k) ==
    /\ at[r] = "regInsert"
    /\ key[k] = "new"
    /\ Room
    /\ key' = [key EXCEPT ![k] = "registered"]
    /\ earned' = [earned EXCEPT ![of[r]] = @ \union {"key"}]
    /\ Move(r, "markKey")
    /\ UNCHANGED <<now, memory, user, session, totp, of, arg, source, cut, accepted>>

LoadKeys(r) ==
    /\ at[r] = "keysLoad"
    /\ Registered # {}
    /\ Keep(r, [arg[r] EXCEPT !.keys = Registered])
    /\ Move(r, "authOpen")
    /\ UNCHANGED <<now, memory, database, history>>

OpenAuthentication(r) ==
    /\ at[r] = "authOpen"
    /\ auths' = [auths EXCEPT ![of[r]] = arg[r].keys]
    /\ Answer(r)
    /\ UNCHANGED <<now, flows, regs, database, history>>

\* finish_authentication: the ceremony is removed; one of its passkeys signed.
TakeAuthentication(r) ==
    /\ at[r] = "authTake"
    /\ \E k \in auths[of[r]] : Keep(r, [arg[r] EXCEPT !.keys = {k}])
    /\ auths' = [auths EXCEPT ![of[r]] = {}]
    /\ Move(r, "authFind")
    /\ UNCHANGED <<now, flows, regs, database, history>>

\* The passkey must still be registered.
FindKey(r) ==
    /\ at[r] = "authFind"
    /\ arg[r].keys \subseteq Registered
    /\ earned' = [earned EXCEPT ![of[r]] = @ \union {"key"}]
    /\ Move(r, "markKey")
    /\ UNCHANGED <<now, memory, database, of, arg, source, cut, accepted>>

MarkKey(r) ==
    /\ at[r] = "markKey"
    /\ session' = [session EXCEPT ![of[r]].key = TRUE]
    /\ Move(r, "promote")
    /\ UNCHANGED <<now, memory, user, totp, key, of, arg, history>>

\* revoke_device deletes the row; sessions stay as they are.
DeleteKey(r, k) ==
    /\ at[r] = "keyDelete"
    /\ key[k] = "registered"
    /\ key' = [key EXCEPT ![k] = "deleted"]
    /\ Answer(r)
    /\ UNCHANGED <<now, memory, user, session, totp, history>>

------------------------------------------------------------------------------
Tick ==
    /\ now < MaxStep
    /\ now' = now + 1
    /\ UNCHANGED <<memory, database, calls, history>>

\* The process ends and starts again: its maps and its requests are lost.
Restart ==
    /\ flows' = [f \in Flows |-> [flows[f] EXCEPT !.open = FALSE]]
    /\ regs' = {}
    /\ auths' = [s \in Sessions |-> {}]
    /\ at' = [r \in Requests |-> "idle"]
    /\ of' = [r \in Requests |-> None]
    /\ arg' = [r \in Requests |-> NoArg]
    /\ UNCHANGED begun
    /\ cut' = cut \union {of[r] : r \in {q \in Requests : at[q] = "promote"}}
    /\ UNCHANGED <<now, database, source, earned, accepted>>

Step(r) ==
    \/ Refuse(r)
    \/ TakeFlow(r) \/ FindUser(r) \/ NewUser(r)
    \/ NewSecret(r) \/ CheckCode(r) \/ AcceptCode(r) \/ MarkTotp(r) \/ Promote(r)
    \/ CountForStart(r) \/ OpenRegistration(r) \/ TakeRegistration(r) \/ Recount(r)
    \/ LoadKeys(r) \/ OpenAuthentication(r) \/ TakeAuthentication(r) \/ FindKey(r)
    \/ MarkKey(r)
    \/ \E s \in Sessions : Begin(r, s) \/ NewSession(r, s)
    \/ \E f \in Flows : Callback(r, f)
    \/ \E k \in Keys : InsertKey(r, k) \/ DeleteKey(r, k)

Next ==
    \/ Tick \/ Restart
    \/ \E f \in Flows : BeginLogin(f)
    \/ \E s \in Sessions : Logout(s)
    \/ \E r \in Requests : Step(r)

Spec == Init /\ [][Next]_vars

------------------------------------------------------------------------------
(* Properties.                                                             *)

\* Sign-in keeps its promise (AdminSignIn), whatever requests, callbacks,
\* restarts and deleted devices come between its statements.
Tier(s) ==
    IF session[s].admin THEN "admin" ELSE IF session[s].made THEN "signedIn" ELSE "none"
SignIn == INSTANCE AdminSignIn WITH
    tier <- [s \in Sessions |-> Tier(s)],
    from <- source,
    passed <- earned,
    closed <- {s \in Sessions : session[s].revoked}
ImplementsSignIn == SignIn!Spec

\* An admin_tier session has passed both stages itself, with a code and a
\* device that were good when they were checked: the marks and the promotion
\* are statements of their own, between those of other requests
\* (session.rs:140-177).
AdminEarned == \A s \in Sessions : session[s].admin => earned[s] = {"totp", "key"}

\* Two stages marked by two requests at one time still make the session
\* admin_tier, unless a request was cut off in between: whichever stage is
\* marked second promotes (session.rs:140-143).
StagesPromote ==
    \A s \in Sessions \ cut :
        session[s].totp /\ session[s].key /\ ~session[s].admin
            => \E r \in Requests : at[r] = "promote" /\ of[r] = s

\* However many registrations are in progress, in however many tabs, there are
\* never more devices than ADMIN_CREDENTIAL_CAP (webauthn.rs:120-127).
DeviceCap == Cardinality(Registered) <= Cap

\* A login flow makes one session at most, whatever number of callbacks carry
\* its cookie (oidc.rs:150-160).
OneSessionPerFlow ==
    \A s, t \in Sessions : session[s].made /\ source[s] = source[t] => s = t

\* TOTP counts as set up only for a secret that one code has been checked
\* against, as long as requests take turns (totp.rs:14-17).
EnabledIsProven ==
    totp.enabled /\ ~raced => \E step \in Clock : <<totp.secret, step>> \in spent

\* From one verified setup to the next, the login and step-up routes accept no
\* code a second time, the setup's own included, however the clock is skewed
\* and secrets are replaced, as long as the requests take turns on the row
\* (totp.rs:150-154).  It says nothing of the codes a setup accepts.
LoginCodesOnce ==
    [][\A r \in Requests :
          AcceptCode(r) /\ arg[r].kind # "setup" /\ ~raced' => Code(r) \notin fresh]_vars

\* What api.rs:1050 says, "a code can only ever be accepted once", and
\* migrations/0003 with it.  It does not hold: verify_setup looks at neither
\* enabled nor the last step, so it accepts a used code, and may set the last
\* step back so that a login accepts one again (MCCodeReplay.cfg).
CodesOnce == [][\A r \in Requests : AcceptCode(r) => Code(r) \notin spent]_vars

\* A session that was signed out and has no request in progress: nothing
\* happens in its name any more (session.rs:112-128).
Closed(s) == session[s].revoked /\ \A r \in Requests : of[r] # s
SignedOutForGood == [][\A s \in Sessions : Closed(s) => Closed(s)']_vars
==============================================================================
