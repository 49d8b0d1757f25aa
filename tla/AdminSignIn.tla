----------------------------- MODULE AdminSignIn -----------------------------
(***************************************************************************)
(* What sign-in promises, without requests, ceremonies, codes, devices and *)
(* the database: a Google sign-in makes one session at most, a session     *)
(* becomes admin_tier only once it has passed both stages, in either       *)
(* order, and it is never signed in again once it was signed out.          *)
(***************************************************************************)
CONSTANTS
    Sessions,  \* session ids
    Flows,     \* sign-ins with Google
    None       \* no sign-in

Stages == {"totp", "key"}

VARIABLES
    tier,    \* per session: "none" before there is one, "signedIn" or "admin"
    from,    \* the sign-in it came from
    passed,  \* the stages it has passed
    closed   \* the sessions that were signed out

vars == <<tier, from, passed, closed>>

Init ==
    /\ tier = [s \in Sessions |-> "none"]
    /\ from = [s \in Sessions |-> None]
    /\ passed = [s \in Sessions |-> {}]
    /\ closed = {}

SignIn(s, f) ==
    /\ tier[s] = "none"
    /\ \A t \in Sessions : from[t] # f
    /\ tier' = [tier EXCEPT ![s] = "signedIn"]
    /\ from' = [from EXCEPT ![s] = f]
    /\ UNCHANGED <<passed, closed>>

\* A request that is under way when its session is signed out still counts.
Pass(s, stage) ==
    /\ tier[s] # "none"
    /\ passed' = [passed EXCEPT ![s] = @ \union {stage}]
    /\ UNCHANGED <<tier, from, closed>>

Promote(s) ==
    /\ tier[s] = "signedIn" /\ passed[s] = Stages
    /\ tier' = [tier EXCEPT ![s] = "admin"]
    /\ UNCHANGED <<from, passed, closed>>

SignOut(s) ==
    /\ tier[s] # "none" /\ s \notin closed
    /\ closed' = closed \union {s}
    /\ UNCHANGED <<tier, from, passed>>

Next ==
    \E s \in Sessions :
        \/ \E f \in Flows : SignIn(s, f)
        \/ \E stage \in Stages : Pass(s, stage)
        \/ Promote(s) \/ SignOut(s)

Spec == Init /\ [][Next]_vars
==============================================================================
