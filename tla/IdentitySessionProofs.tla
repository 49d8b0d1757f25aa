------------------------ MODULE IdentitySessionProofs ------------------------
(***************************************************************************)
(* What holds of sign-in for any number of tabs, sessions, devices, flows  *)
(* and secrets.                                                            *)
(***************************************************************************)
EXTENDS IdentitySession, FiniteSetTheorems, TLAPS

OfFlow    == {"flowTake", "findUser", "newUser", "newSession"}
OfSession == Points \ (OfFlow \union {"idle"})

\* A request of a login flow has a flow, any other a session.
CallInv(r) ==
    /\ at[r] = "idle" => of[r] = None
    /\ at[r] \in OfFlow => of[r] \in Flows
    /\ at[r] \in OfSession => of[r] \in Sessions
    /\ at[r] = "write" => arg[r].step \in Clock

CallsInv == CallsOK /\ \A r \in Requests : CallInv(r)

------------------------------------------------------------------------------
(* Requests are in order.                                                  *)

LEMMA NoArgTyped ==
    /\ NoArg.row \in Rows
    /\ NoArg \in [kind : Kinds, row : Rows, step : 0 .. MaxStep, keys : SUBSET Keys]
  <1>1. NoArg.row = [secret |-> 0, enabled |-> FALSE, last |-> 0]
    BY DEF NoArg
  <1>2. 0 \in Secrets /\ 0 \in 0 .. MaxStep /\ "login" \in Kinds
    BY IdentityAssumption DEF Secrets, Kinds
  <1>3. [secret |-> 0, enabled |-> FALSE, last |-> 0] \in Rows
    BY <1>2 DEF Rows
  <1> QED BY <1>1, <1>2, <1>3 DEF NoArg

LEMMA CallsInit == Init => CallsInv
  BY IdentityAssumption, NoArgTyped
  DEF Init, CallsInv, CallsOK, CallInv, Points, OfFlow, OfSession

\* An answer leaves the request as it was at the start.
LEMMA AnswerCalls ==
    ASSUME CallsInv, NEW r \in Requests, Answer(r)
    PROVE  CallsInv'
  BY NoArgTyped
  DEF CallsInv, CallsOK, CallInv, Answer, Move, Points, OfFlow, OfSession

\* A move within a session's requests or within a flow's keeps them in order.
LEMMA MoveCalls ==
    ASSUME CallsInv, NEW r \in Requests, NEW to, Move(r, to), UNCHANGED <<of, arg>>,
           \/ at[r] \in OfFlow /\ to \in OfFlow
           \/ at[r] \in OfSession /\ to \in OfSession \ {"write"}
    PROVE  CallsInv'
  BY DEF CallsInv, CallsOK, CallInv, Move, OfFlow, OfSession, Points


LEMMA CallsStep ==
    ASSUME TypeOK, CallsInv, [Next]_vars
    PROVE  CallsInv'
  <1> USE DEF memory, database, calls, history, accepted
  <1>1. CASE UNCHANGED calls
    BY <1>1 DEF CallsInv, CallsOK, CallInv
  <1>2. CASE Restart
    BY <1>2, NoArgTyped DEF Restart, CallsInv, CallsOK, CallInv, Points, OfFlow, OfSession
  <1>3. ASSUME NEW r \in Requests, NEW s \in Sessions, Begin(r, s) PROVE CallsInv'
    <2>1. PICK p \in Points, k \in Kinds :
            /\ p \in OfSession \ {"write"} /\ Arrive(r, p)
            /\ of' = [of EXCEPT ![r] = s]
            /\ arg' = arg \/ arg' = [arg EXCEPT ![r].kind = k]
      BY <1>3 DEF Begin, Points, OfSession, OfFlow, Kinds
    <2>2. \A a \in [kind : Kinds, row : Rows, step : 0 .. MaxStep, keys : SUBSET Keys] :
             [a EXCEPT !.kind = k]
                \in [kind : Kinds, row : Rows, step : 0 .. MaxStep, keys : SUBSET Keys]
      OBVIOUS
    <2>3. CallsOK'
      <3>1. begun' \in 0 .. MaxCalls
        BY <2>1, IdentityAssumption DEF CallsInv, CallsOK, Arrive
      <3> QED BY <2>1, <2>2, <3>1 DEF CallsInv, CallsOK, Arrive
    <2>4. \A q \in Requests \ {r} :
             at'[q] = at[q] /\ of'[q] = of[q] /\ arg'[q] = arg[q]
      BY <2>1 DEF CallsInv, CallsOK, Arrive
    <2>5. at'[r] = p /\ of'[r] = s
      BY <2>1 DEF CallsInv, CallsOK, Arrive
    <2>6. CallInv(r)'
      BY <2>1, <2>5 DEF CallInv, OfSession
    <2> QED BY <2>3, <2>4, <2>6 DEF CallsInv, CallInv
  <1>4. ASSUME NEW r \in Requests, NEW f \in Flows, Callback(r, f) PROVE CallsInv'
    BY <1>4, IdentityAssumption
    DEF Callback, Arrive, CallsInv, CallsOK, CallInv, OfFlow, OfSession, Points
  <1>5. ASSUME NEW r \in Requests,
               \/ FindUser(r) \/ NewUser(r) \/ MarkTotp(r) \/ MarkKey(r)
               \/ CountForStart(r) \/ TakeRegistration(r) \/ Recount(r) \/ FindKey(r)
               \/ \E k \in Keys : InsertKey(r, k)
        PROVE  CallsInv'
    <2>1. PICK to \in Points :
            /\ Move(r, to)
            /\ \/ at[r] \in OfFlow /\ to \in OfFlow
               \/ at[r] \in OfSession /\ to \in OfSession \ {"write"}
      BY <1>5 DEF FindUser, NewUser, MarkTotp, MarkKey, CountForStart, TakeRegistration,
                  Recount, FindKey, InsertKey, OfFlow, OfSession, Points
    <2>2. UNCHANGED <<of, arg>>
      BY <1>5 DEF FindUser, NewUser, MarkTotp, MarkKey, CountForStart, TakeRegistration,
                  Recount, FindKey, InsertKey
    <2> QED BY <2>1, <2>2, MoveCalls
  <1>6. ASSUME NEW r \in Requests,
               \/ Refuse(r) \/ NewSecret(r) \/ Promote(r)
               \/ OpenRegistration(r) \/ OpenAuthentication(r)
               \/ \E s \in Sessions : NewSession(r, s)
               \/ \E k \in Keys : DeleteKey(r, k)
        PROVE  CallsInv'
    <2>1. Answer(r)
      BY <1>6 DEF Refuse, NewSecret, Promote, OpenRegistration, OpenAuthentication,
                  NewSession, DeleteKey
    <2> QED BY <2>1, AnswerCalls
  <1>7. ASSUME NEW r \in Requests, TakeFlow(r) \/ AcceptCode(r) PROVE CallsInv'
    <2>1. CASE Answer(r)
      BY <2>1, AnswerCalls
    <2>2. CASE ~Answer(r)
      <3>1. UNCHANGED <<of, arg>>
        BY <1>7, <2>2 DEF TakeFlow, AcceptCode
      <3>2. \/ at[r] \in OfFlow /\ Move(r, "findUser")
            \/ at[r] \in OfSession /\ Move(r, "markTotp")
        BY <1>7, <2>2 DEF TakeFlow, AcceptCode, OfFlow, OfSession, Points
      <3> QED BY <3>1, <3>2, MoveCalls DEF OfFlow, OfSession, Points
    <2> QED BY <2>1, <2>2
  <1>8. ASSUME NEW r \in Requests, CheckCode(r) \/ LoadKeys(r) \/ TakeAuthentication(r)
        PROVE  CallsInv'
    <2>1. PICK to \in {"write", "authOpen", "authFind"}, step \in 0 .. MaxStep,
               keys \in SUBSET Keys, row \in Rows :
            /\ Move(r, to)
            /\ arg' = [arg EXCEPT ![r] = [arg[r] EXCEPT !.row = row, !.step = step,
                                                        !.keys = keys]]
            /\ to = "write" => step \in Clock
      <3>0. arg[r] \in [kind : Kinds, row : Rows, step : 0 .. MaxStep, keys : SUBSET Keys]
        BY DEF CallsInv, CallsOK
      <3>1. CASE CheckCode(r)
        <4>1. PICK step \in Clock : arg' = [arg EXCEPT ![r] =
                                     [arg[r] EXCEPT !.row = totp, !.step = step]]
          BY <3>1 DEF CheckCode, Keep, Window
        <4>2. [arg[r] EXCEPT !.row = totp, !.step = step]
                = [arg[r] EXCEPT !.row = totp, !.step = step, !.keys = arg[r].keys]
          BY <3>0
        <4>3. step \in 0 .. MaxStep /\ arg[r].keys \in SUBSET Keys /\ totp \in Rows
          BY <3>0 DEF Clock, TypeOK
        <4> QED BY <3>1, <4>1, <4>2, <4>3 DEF CheckCode
      <3>2. CASE LoadKeys(r)
        <4>1. [arg[r] EXCEPT !.keys = Registered]
                = [arg[r] EXCEPT !.row = arg[r].row, !.step = arg[r].step,
                                 !.keys = Registered]
          BY <3>0
        <4>2. Registered \in SUBSET Keys
          BY DEF Registered
        <4>3. arg' = [arg EXCEPT ![r] = [arg[r] EXCEPT !.keys = Registered]]
          BY <3>2 DEF LoadKeys, Keep
        <4>4. Move(r, "authOpen")
          BY <3>2 DEF LoadKeys
        <4>5. arg[r].row \in Rows /\ arg[r].step \in 0 .. MaxStep
          BY <3>0
        <4> QED BY <4>1, <4>2, <4>3, <4>4, <4>5
      <3>3. CASE TakeAuthentication(r)
        <4>0. of[r] \in Sessions
          BY <3>3 DEF TakeAuthentication, CallsInv, CallInv, OfSession, OfFlow, Points
        <4>1. PICK k \in auths[of[r]] :
                arg' = [arg EXCEPT ![r] = [arg[r] EXCEPT !.keys = {k}]]
          BY <3>3 DEF TakeAuthentication, Keep
        <4>2. {k} \in SUBSET Keys
          BY <4>0, <4>1 DEF TypeOK
        <4>3. [arg[r] EXCEPT !.keys = {k}]
                = [arg[r] EXCEPT !.row = arg[r].row, !.step = arg[r].step, !.keys = {k}]
          BY <3>0
        <4> QED BY <3>0, <3>3, <4>1, <4>2, <4>3 DEF TakeAuthentication
      <3> QED BY <1>8, <3>1, <3>2, <3>3
    <2>2. of' = of /\ at[r] \in OfSession
      BY <1>8 DEF CheckCode, LoadKeys, TakeAuthentication, Keep, OfSession, OfFlow, Points
    <2>3. CallsOK'
      BY <2>1, <2>2 DEF CallsInv, CallsOK, Move, Points
    <2>4. \A q \in Requests \ {r} :
             at'[q] = at[q] /\ of'[q] = of[q] /\ arg'[q] = arg[q]
      BY <2>1, <2>2 DEF CallsInv, CallsOK, Move
    <2>5. at'[r] = to /\ arg'[r].step = step /\ of'[r] \in Sessions
      BY <2>1, <2>2 DEF CallsInv, CallsOK, CallInv, Move
    <2>6. CallInv(r)'
      BY <2>1, <2>5 DEF CallInv, OfFlow
    <2> QED BY <2>3, <2>4, <2>6 DEF CallsInv, CallInv
  <1> QED
    BY <1>1, <1>2, <1>3, <1>4, <1>5, <1>6, <1>7, <1>8
    DEF Next, Step, Tick, BeginLogin, Logout, vars

------------------------------------------------------------------------------
(* Types.                                                                  *)

\* What a request in OfSession works on.
LEMMA SessionOf ==
    ASSUME CallsInv, NEW r \in Requests, at[r] \in OfSession
    PROVE  of[r] \in Sessions
  BY DEF CallsInv, CallInv

\* A flow that is closed, or that the sweep leaves open or not, is a flow.
LEMMA ClosedFlow ==
    ASSUME NEW x \in [open : BOOLEAN, born : 0 .. MaxStep]
    PROVE  [x EXCEPT !.open = FALSE] \in [open : BOOLEAN, born : 0 .. MaxStep]
  OBVIOUS

LEMMA SweptFlow ==
    ASSUME NEW x \in [open : BOOLEAN, born : 0 .. MaxStep], NEW f \in Flows
    PROVE  [x EXCEPT !.open = @ /\ ~Expired(f)] \in [open : BOOLEAN, born : 0 .. MaxStep]
  <1>1. (x.open /\ ~Expired(f)) \in BOOLEAN
    BY Zenon
  <1> QED BY <1>1

\* A mark leaves a session a session.
LEMMA MarkedSession ==
    ASSUME NEW x \in [made : BOOLEAN, totp : BOOLEAN, key : BOOLEAN,
                      admin : BOOLEAN, revoked : BOOLEAN], NEW p \in BOOLEAN
    PROVE  {[x EXCEPT !.totp = TRUE], [x EXCEPT !.key = TRUE], [x EXCEPT !.admin = p]}
             \subseteq [made : BOOLEAN, totp : BOOLEAN, key : BOOLEAN,
                        admin : BOOLEAN, revoked : BOOLEAN]
  OBVIOUS

LEMMA TypeStep ==
    ASSUME TypeOK, CallsInv, [Next]_vars
    PROVE  TypeOK'
  <1> USE DEF memory, database, calls, history, accepted
  <1>0. CallsOK'
    BY CallsStep DEF CallsInv
  <1>1. CASE UNCHANGED vars
    BY <1>0, <1>1 DEF TypeOK, vars
  <1>2. CASE Tick
    <2>1. now' \in Clock
      BY <1>2, IdentityAssumption DEF TypeOK, Tick, Clock
    <2> QED BY <1>0, <1>2, <2>1 DEF TypeOK, Tick
  <1>3. CASE Restart
    <2>1. \A f \in Flows : [flows[f] EXCEPT !.open = FALSE]
                             \in [open : BOOLEAN, born : 0 .. MaxStep]
      BY ClosedFlow DEF TypeOK
    <2>2. flows' \in [Flows -> [open : BOOLEAN, born : 0 .. MaxStep]]
      BY <1>3, <2>1 DEF Restart
    <2>3. cut' \subseteq Sessions
      <3>1. \A q \in Requests : at[q] = "promote" => of[q] \in Sessions
        BY SessionOf DEF OfSession, OfFlow, Points
      <3> QED BY <1>3, <3>1 DEF Restart, TypeOK
    <2>4. regs' \subseteq Sessions /\ auths' \in [Sessions -> SUBSET Keys]
      BY <1>3 DEF Restart
    <2> QED BY <1>0, <1>3, <2>2, <2>3, <2>4 DEF TypeOK, Restart
  <1>4. ASSUME NEW f \in Flows, BeginLogin(f) PROVE TypeOK'
    <2>1. [open |-> TRUE, born |-> now] \in [open : BOOLEAN, born : 0 .. MaxStep]
      BY DEF TypeOK, Clock
    <2>2. \A g \in Flows : [flows[g] EXCEPT !.open = @ /\ ~Expired(g)]
                             \in [open : BOOLEAN, born : 0 .. MaxStep]
      BY SweptFlow DEF TypeOK
    <2>3. flows' \in [Flows -> [open : BOOLEAN, born : 0 .. MaxStep]]
      BY <1>4, <2>1, <2>2 DEF BeginLogin
    <2> QED BY <1>0, <1>4, <2>3 DEF TypeOK, BeginLogin
  <1>5. ASSUME NEW s \in Sessions, Logout(s) PROVE TypeOK'
    BY <1>0, <1>5 DEF TypeOK, Logout
  <1>6. ASSUME NEW r \in Requests, Refuse(r) PROVE TypeOK'
    <2>1. cut' \subseteq Sessions
      BY <1>6, SessionOf DEF TypeOK, Refuse, OfSession, OfFlow, Points
    <2> QED BY <1>0, <1>6, <2>1 DEF TypeOK, Refuse
  <1>7. ASSUME NEW r \in Requests, TakeFlow(r) PROVE TypeOK'
    BY <1>0, <1>7 DEF TypeOK, TakeFlow
  <1>8. ASSUME NEW r \in Requests,
               \/ FindUser(r) \/ CheckCode(r) \/ CountForStart(r) \/ Recount(r)
               \/ LoadKeys(r) \/ \E s \in Sessions : Begin(r, s)
               \/ \E f \in Flows : Callback(r, f)
        PROVE  TypeOK'
    BY <1>0, <1>8 DEF TypeOK, FindUser, CheckCode, CountForStart, Recount, LoadKeys,
                      Begin, Callback
  <1>9. ASSUME NEW r \in Requests, NewUser(r) PROVE TypeOK'
    BY <1>0, <1>9 DEF TypeOK, NewUser
  <1>10. ASSUME NEW r \in Requests, NEW s \in Sessions, NewSession(r, s) PROVE TypeOK'
    <2>1. of[r] \in Flows
      BY <1>10 DEF NewSession, CallsInv, CallInv, OfFlow
    <2> QED BY <1>0, <1>10, <2>1 DEF TypeOK, NewSession
  <1>11. ASSUME NEW r \in Requests, NewSecret(r) PROVE TypeOK'
    BY <1>0, <1>11, IdentityAssumption DEF TypeOK, NewSecret, Rows, Secrets
  <1>12. ASSUME NEW r \in Requests, AcceptCode(r) PROVE TypeOK'
    <2>1. /\ arg[r].step \in Clock /\ arg[r].row.secret \in Secrets
          /\ arg[r].step \in 0 .. MaxStep
      BY <1>12 DEF AcceptCode, CallsInv, CallsOK, CallInv, Rows
    <2>2. totp' \in Rows
      BY <1>12, <2>1 DEF TypeOK, AcceptCode, Rows
    <2>3. spent' \subseteq Secrets \X Clock
      BY <1>12, <2>1 DEF TypeOK, AcceptCode, Code
    <2>4. earned' \in [Sessions -> SUBSET {"totp", "key"}]
      BY <1>12 DEF TypeOK, AcceptCode
    <2>5. fresh' \subseteq spent' /\ raced' \in BOOLEAN
      BY <1>12 DEF TypeOK, AcceptCode
    <2> QED BY <1>0, <1>12, <2>2, <2>3, <2>4, <2>5 DEF TypeOK, AcceptCode
  <1>13. ASSUME NEW r \in Requests, MarkTotp(r) \/ Promote(r) \/ MarkKey(r) PROVE TypeOK'
    <2>1. of[r] \in Sessions
      BY <1>13, SessionOf DEF MarkTotp, Promote, MarkKey, OfSession, OfFlow, Points
    <2>2. PICK p \in BOOLEAN :
            \/ session' = [session EXCEPT ![of[r]].totp = TRUE]
            \/ session' = [session EXCEPT ![of[r]].key = TRUE]
            \/ session' = [session EXCEPT ![of[r]].admin = p]
      <3>1. (session[of[r]].admin \/ (session[of[r]].totp /\ session[of[r]].key))
              \in BOOLEAN
        BY Zenon
      <3> QED BY <1>13, <3>1 DEF MarkTotp, Promote, MarkKey
    <2>3. session' \in [Sessions -> [made : BOOLEAN, totp : BOOLEAN, key : BOOLEAN,
                                     admin : BOOLEAN, revoked : BOOLEAN]]
      <3> DEFINE S == [made : BOOLEAN, totp : BOOLEAN, key : BOOLEAN,
                       admin : BOOLEAN, revoked : BOOLEAN]
      <3>1. session \in [Sessions -> S] /\ session[of[r]] \in S
        BY <2>1 DEF TypeOK
      <3>2. PICK x \in S : session' = [session EXCEPT ![of[r]] = x]
        <4>1. {[session[of[r]] EXCEPT !.totp = TRUE], [session[of[r]] EXCEPT !.key = TRUE],
               [session[of[r]] EXCEPT !.admin = p]} \subseteq S
          <5>1. \A x \in S : {[x EXCEPT !.totp = TRUE], [x EXCEPT !.key = TRUE],
                               [x EXCEPT !.admin = p]} \subseteq S
            BY MarkedSession
          <5> HIDE DEF S
          <5> QED BY <3>1, <5>1
        <4> HIDE DEF S
        <4> QED BY <2>2, <4>1
      <3> HIDE DEF S
      <3>3. session' \in [Sessions -> S]
        BY <3>1, <3>2
      <3> QED BY <3>3 DEF S
    <2> QED BY <1>0, <1>13, <2>3 DEF TypeOK, MarkTotp, Promote, MarkKey
  <1>14. ASSUME NEW r \in Requests, OpenRegistration(r) \/ TakeRegistration(r) PROVE TypeOK'
    <2>1. regs' \subseteq Sessions
      BY <1>14, SessionOf
      DEF TypeOK, OpenRegistration, TakeRegistration, OfSession, OfFlow, Points
    <2> QED BY <1>0, <1>14, <2>1 DEF TypeOK, OpenRegistration, TakeRegistration
  <1>15. ASSUME NEW r \in Requests, OpenAuthentication(r) \/ TakeAuthentication(r)
         PROVE  TypeOK'
    <2>1. arg[r].keys \in SUBSET Keys
      BY DEF CallsInv, CallsOK
    <2>2. auths' \in [Sessions -> SUBSET Keys]
      BY <1>15, <2>1 DEF TypeOK, OpenAuthentication, TakeAuthentication
    <2> QED BY <1>0, <1>15, <2>2 DEF TypeOK, OpenAuthentication, TakeAuthentication
  <1>16. ASSUME NEW r \in Requests, NEW k \in Keys,
                InsertKey(r, k) \/ DeleteKey(r, k)
         PROVE  TypeOK'
    <2>1. key' \in [Keys -> {"new", "registered", "deleted"}]
      BY <1>16 DEF TypeOK, InsertKey, DeleteKey
    <2>2. earned' \in [Sessions -> SUBSET {"totp", "key"}]
      BY <1>16 DEF TypeOK, InsertKey, DeleteKey
    <2> QED BY <1>0, <1>16, <2>1, <2>2 DEF TypeOK, InsertKey, DeleteKey
  <1>17. ASSUME NEW r \in Requests, FindKey(r) PROVE TypeOK'
    <2>1. earned' \in [Sessions -> SUBSET {"totp", "key"}]
      BY <1>17 DEF TypeOK, FindKey
    <2> QED BY <1>0, <1>17, <2>1 DEF TypeOK, FindKey
  <1> QED
    BY <1>1, <1>2, <1>3, <1>4, <1>5, <1>6, <1>7, <1>8, <1>9, <1>10, <1>11, <1>12,
       <1>13, <1>14, <1>15, <1>16, <1>17
    DEF Next, Step

LEMMA TypeInit == Init => TypeOK
  <1> SUFFICES ASSUME Init PROVE TypeOK
    OBVIOUS
  <1>1. CallsOK
    BY CallsInit DEF CallsInv
  <1>2. now \in Clock /\ 0 \in 0 .. MaxStep
    BY IdentityAssumption DEF Init, Clock
  <1>3. flows \in [Flows -> [open : BOOLEAN, born : 0 .. MaxStep]]
    BY <1>2 DEF Init
  <1>4. totp \in Rows
    BY NoArgTyped DEF Init
  <1> QED BY <1>1, <1>2, <1>3, <1>4 DEF Init, TypeOK

\* Types and requests are in order in every reachable state.
THEOREM IdentityTypeCorrect == Spec => []TypeOK
  <1>1. Init => TypeOK /\ CallsInv
    BY TypeInit, CallsInit
  <1>2. TypeOK /\ CallsInv /\ [Next]_vars => TypeOK' /\ CallsInv'
    BY TypeStep, CallsStep
  <1> QED BY <1>1, <1>2, PTL DEF Spec
------------------------------------------------------------------------------
(* The cap on devices: only the insert adds one, and it counts itself.     *)

LEMMA DeviceStep ==
    ASSUME DeviceCap, [Next]_vars
    PROVE  DeviceCap'
  <1> USE DEF memory, database, calls, history, accepted
  <1>1. IsFiniteSet(Registered)
    BY IdentityAssumption, FS_Subset DEF Registered
  <1>2. CASE UNCHANGED key
    BY <1>2 DEF DeviceCap, Registered
  <1>3. ASSUME NEW r \in Requests, NEW k \in Keys, InsertKey(r, k) PROVE DeviceCap'
    <2>1. Registered' \subseteq Registered \union {k} /\ k \notin Registered
      BY <1>3 DEF InsertKey, Registered
    <2>2. /\ IsFiniteSet(Registered \union {k})
          /\ Cardinality(Registered \union {k}) = Cardinality(Registered) + 1
      BY <1>1, <2>1, FS_AddElement
    <2>3. IsFiniteSet(Registered') /\ Cardinality(Registered') <= Cardinality(Registered \union {k})
      BY <2>1, <2>2, FS_Subset
    <2>4. Cardinality(Registered) < Cap
      BY <1>3 DEF InsertKey, Room
    <2> QED
      BY <1>1, <2>2, <2>3, <2>4, FS_CardinalityType, IdentityAssumption DEF DeviceCap
  <1>4. ASSUME NEW r \in Requests, NEW k \in Keys, DeleteKey(r, k) PROVE DeviceCap'
    <2>1. Registered' \subseteq Registered
      BY <1>4 DEF DeleteKey, Registered
    <2>2. IsFiniteSet(Registered') /\ Cardinality(Registered') <= Cardinality(Registered)
      BY <1>1, <2>1, FS_Subset
    <2> QED BY <1>1, <2>2, FS_CardinalityType, IdentityAssumption DEF DeviceCap
  <1> QED
    BY <1>2, <1>3, <1>4
    DEF Next, Step, vars, Tick, Restart, BeginLogin, Logout, Refuse, TakeFlow, FindUser,
        NewUser, NewSecret, CheckCode, AcceptCode, MarkTotp, Promote, CountForStart,
        OpenRegistration, TakeRegistration, Recount, LoadKeys, OpenAuthentication,
        TakeAuthentication, FindKey, MarkKey, Begin, NewSession, Callback

\* However many registrations are in progress, the devices stay within
\* ADMIN_CREDENTIAL_CAP (webauthn.rs:120-127, migrations/0001).
THEOREM DeviceCapCorrect == Spec => []DeviceCap
  <1>1. Init => DeviceCap
    <2> SUFFICES ASSUME Init PROVE DeviceCap
      OBVIOUS
    <2>1. Registered = {}
      BY DEF Init, Registered
    <2> QED BY <2>1, FS_EmptySet, IdentityAssumption DEF DeviceCap
  <1>2. DeviceCap /\ [Next]_vars => DeviceCap'
    BY DeviceStep
  <1> QED BY <1>1, <1>2, PTL DEF Spec

------------------------------------------------------------------------------
(* Signing out is for good: a session that is not Active gets no request.  *)

LEMMA ClosedStep ==
    ASSUME TypeOK, CallsInv, [Next]_vars, NEW s \in Sessions, Closed(s)
    PROVE  Closed(s)'
  <1> USE DEF memory, database, calls, history, accepted
  <1>1. session'[s].revoked
    <2>1. CASE UNCHANGED session
      BY <2>1 DEF Closed
    <2>2. ASSUME NEW t \in Sessions, Logout(t) PROVE session'[s].revoked
      BY <2>2 DEF Logout, TypeOK, Closed
    <2>3. ASSUME NEW r \in Requests, NEW t \in Sessions, NewSession(r, t)
          PROVE  session'[s].revoked
      BY <2>3 DEF NewSession, TypeOK, Closed
    <2>4. ASSUME NEW r \in Requests, MarkTotp(r) \/ Promote(r) \/ MarkKey(r)
          PROVE  session'[s].revoked
      BY <2>4 DEF MarkTotp, Promote, MarkKey, TypeOK, Closed
    <2> QED
      BY <2>1, <2>2, <2>3, <2>4
      DEF Next, Step, vars, Tick, Restart, BeginLogin, Refuse, TakeFlow, FindUser,
          NewUser, NewSecret, CheckCode, AcceptCode, CountForStart, OpenRegistration,
          TakeRegistration, Recount, LoadKeys, OpenAuthentication, TakeAuthentication,
          FindKey, Begin, Callback, InsertKey, DeleteKey
  <1>2. ASSUME NEW q \in Requests PROVE of'[q] # s
    <2>0. of[q] # s /\ of \in [Requests -> Sessions \union Flows \union {None}] /\ None # s
      BY IdentityAssumption DEF Closed, CallsInv, CallsOK
    <2>1. CASE UNCHANGED of
      BY <2>0, <2>1
    <2>2. ASSUME NEW r \in Requests, Answer(r) PROVE of'[q] # s
      BY <2>0, <2>2 DEF Answer
    <2>3. CASE Restart
      BY <2>0, <2>3 DEF Restart
    <2>4. ASSUME NEW r \in Requests, NEW t \in Sessions, Begin(r, t) PROVE of'[q] # s
      BY <2>0, <2>4 DEF Begin, Active, Closed
    <2>5. ASSUME NEW r \in Requests, NEW f \in Flows, Callback(r, f) PROVE of'[q] # s
      BY <2>0, <2>5, IdentityAssumption DEF Callback
    <2> QED
      BY <2>1, <2>2, <2>3, <2>4, <2>5
      DEF Next, Step, vars, Tick, BeginLogin, Logout, Refuse, TakeFlow, FindUser, NewUser,
          NewSecret, CheckCode, AcceptCode, MarkTotp, Promote, CountForStart,
          OpenRegistration, TakeRegistration, Recount, LoadKeys, OpenAuthentication,
          TakeAuthentication, FindKey, MarkKey, NewSession, InsertKey, DeleteKey, Keep
  <1> QED BY <1>1, <1>2 DEF Closed

\* Nothing happens in the name of a session that was signed out and has no
\* request left (session.rs:112-128).
THEOREM SignedOutForGoodCorrect == Spec => SignedOutForGood
  <1>1. Init => TypeOK /\ CallsInv
    BY TypeInit, CallsInit
  <1>2. TypeOK /\ CallsInv /\ [Next]_vars => TypeOK' /\ CallsInv'
    BY TypeStep, CallsStep
  <1>3. TypeOK /\ CallsInv /\ [Next]_vars
          => [\A s \in Sessions : Closed(s) => Closed(s)']_vars
    BY ClosedStep
  <1> QED BY <1>1, <1>2, <1>3, PTL DEF Spec, SignedOutForGood
------------------------------------------------------------------------------
(* The stages.  A request that is about to mark a stage has passed it, so  *)
(* what is marked was earned; only marks that stand together promote.      *)

MarkInv(r) ==
    /\ at[r] = "markTotp" => "totp" \in earned[of[r]]
    /\ at[r] = "markKey" => "key" \in earned[of[r]]

StageInv(s) ==
    /\ session[s].totp => "totp" \in earned[s]
    /\ session[s].key => "key" \in earned[s]
    /\ session[s].admin => session[s].totp /\ session[s].key

EarnInv == (\A r \in Requests : MarkInv(r)) /\ (\A s \in Sessions : StageInv(s))

\* What was earned stays earned, and a request only gets to a mark by earning it.
LEMMA MarkStep ==
    ASSUME TypeOK, CallsInv, \A r \in Requests : MarkInv(r), [Next]_vars
    PROVE  \A r \in Requests : MarkInv(r)'
  <1> USE DEF memory, database, calls, history, accepted
  <1> SUFFICES ASSUME NEW q \in Requests PROVE MarkInv(q)'
    OBVIOUS
  <1>0. /\ at \in [Requests -> Points] /\ of \in [Requests -> Sessions \union Flows \union {None}]
        /\ earned \in [Sessions -> SUBSET {"totp", "key"}]
    BY DEF CallsInv, CallsOK, TypeOK
  <1>1. CASE UNCHANGED <<at, of, earned>>
    BY <1>1 DEF MarkInv
  <1>2. ASSUME NEW r \in Requests, NEW to \in Points \ {"markTotp", "markKey"},
               at' = [at EXCEPT ![r] = to],
               of' = of \/ \E x : of' = [of EXCEPT ![r] = x], UNCHANGED earned
        PROVE  MarkInv(q)'
    BY <1>0, <1>2 DEF MarkInv
  <1>3. ASSUME NEW r \in Requests, FindKey(r) \/ \E k \in Keys : InsertKey(r, k)
        PROVE  MarkInv(q)'
    <2>1. of[r] \in Sessions
      BY <1>3, SessionOf DEF FindKey, InsertKey, OfSession, OfFlow, Points
    <2>2. /\ at' = [at EXCEPT ![r] = "markKey"] /\ of' = of
          /\ earned' = [earned EXCEPT ![of[r]] = @ \union {"key"}]
      BY <1>3 DEF FindKey, InsertKey, Move
    <2>3. CASE q = r
      BY <1>0, <2>1, <2>2, <2>3 DEF MarkInv
    <2>4. CASE q # r
      BY <1>0, <2>2, <2>4, SessionOf DEF MarkInv, OfSession, OfFlow, Points
    <2> QED BY <2>3, <2>4
  <1>4. CASE Restart
    BY <1>4 DEF Restart, MarkInv
  <1>5. ASSUME NEW r \in Requests, Answer(r), UNCHANGED earned PROVE MarkInv(q)'
    BY <1>2, <1>5 DEF Answer, Move, Points
  <1>6. ASSUME NEW r \in Requests,
               \/ FindUser(r) \/ NewUser(r) \/ CheckCode(r) \/ MarkTotp(r) \/ MarkKey(r)
               \/ CountForStart(r) \/ TakeRegistration(r) \/ Recount(r) \/ LoadKeys(r)
               \/ TakeAuthentication(r) \/ \E s \in Sessions : Begin(r, s)
               \/ \E f \in Flows : Callback(r, f)
        PROVE  MarkInv(q)'
    <2>1. PICK to \in Points \ {"markTotp", "markKey"} : at' = [at EXCEPT ![r] = to]
      BY <1>6 DEF FindUser, NewUser, CheckCode, MarkTotp, MarkKey, CountForStart,
                  TakeRegistration, Recount, LoadKeys, TakeAuthentication, Begin, Callback,
                  Move, Arrive, Points
    <2>2. UNCHANGED earned /\ (of' = of \/ \E x : of' = [of EXCEPT ![r] = x])
      BY <1>6 DEF FindUser, NewUser, CheckCode, MarkTotp, MarkKey, CountForStart,
                  TakeRegistration, Recount, LoadKeys, TakeAuthentication, Begin, Callback,
                  Keep
    <2> QED BY <1>2, <2>1, <2>2
  <1>7. ASSUME NEW r \in Requests,
               \/ Refuse(r) \/ NewSecret(r) \/ Promote(r) \/ OpenRegistration(r)
               \/ OpenAuthentication(r) \/ \E s \in Sessions : NewSession(r, s)
               \/ \E k \in Keys : DeleteKey(r, k)
        PROVE  MarkInv(q)'
    <2>1. Answer(r) /\ UNCHANGED earned
      BY <1>7 DEF Refuse, NewSecret, Promote, OpenRegistration, OpenAuthentication,
                  NewSession, DeleteKey
    <2> QED BY <1>5, <2>1
  <1>8. ASSUME NEW r \in Requests, TakeFlow(r) PROVE MarkInv(q)'
    <2>1. UNCHANGED earned
      BY <1>8 DEF TakeFlow
    <2>2. CASE Answer(r)
      BY <1>5, <2>1, <2>2
    <2>3. CASE ~Answer(r)
      <3>1. at' = [at EXCEPT ![r] = "findUser"] /\ UNCHANGED of
        BY <1>8, <2>3 DEF TakeFlow, Move
      <3> QED BY <1>2, <2>1, <3>1 DEF Points
    <2> QED BY <2>2, <2>3
  <1>9. ASSUME NEW r \in Requests, AcceptCode(r) PROVE MarkInv(q)'
    <2>1. of[r] \in Sessions
      BY <1>9, SessionOf DEF AcceptCode, OfSession, OfFlow, Points
    <2>2. CASE Answer(r) /\ UNCHANGED earned
      BY <1>5, <2>2
    <2>3. CASE ~(Answer(r) /\ UNCHANGED earned)
      <3>1. /\ at' = [at EXCEPT ![r] = "markTotp"] /\ of' = of
            /\ earned' = [earned EXCEPT ![of[r]] = @ \union {"totp"}]
        BY <1>9, <2>3 DEF AcceptCode, Move
      <3>2. CASE q = r
        BY <1>0, <2>1, <3>1, <3>2 DEF MarkInv
      <3>3. CASE q # r
        BY <1>0, <3>1, <3>3, SessionOf DEF MarkInv, OfSession, OfFlow, Points
      <3> QED BY <3>2, <3>3
    <2> QED BY <2>2, <2>3
  <1> QED
    BY <1>1, <1>3, <1>4, <1>6, <1>7, <1>8, <1>9
    DEF Next, Step, vars, Tick, BeginLogin, Logout
\* The steps that write to a row of sessions.
LEMMA SessionWrites ==
    ASSUME [Next]_vars
    PROVE  \/ UNCHANGED session
           \/ \E r \in Requests : MarkTotp(r) \/ MarkKey(r) \/ Promote(r)
           \/ \E s \in Sessions : Logout(s) \/ \E r \in Requests : NewSession(r, s)
  BY DEF Next, Step, vars, memory, database, calls, history, accepted, Tick, Restart, BeginLogin,
         Refuse, TakeFlow, FindUser, NewUser, NewSecret, CheckCode, AcceptCode,
         CountForStart, OpenRegistration, TakeRegistration, Recount, LoadKeys,
         OpenAuthentication, TakeAuthentication, FindKey, Begin, Callback, InsertKey,
         DeleteKey

LEMMA EarnedGrows ==
    ASSUME TypeOK, [Next]_vars, NEW s \in Sessions
    PROVE  earned[s] \subseteq earned'[s]
  <1>1. \/ UNCHANGED earned
        \/ \E r \in Requests, x \in {"totp", "key"} :
              earned' = [earned EXCEPT ![of[r]] = @ \union {x}]
    BY DEF Next, Step, vars, memory, database, calls, history, accepted, Tick, Restart,
           BeginLogin, Logout, Refuse, TakeFlow, FindUser, NewUser, NewSecret, CheckCode,
           AcceptCode, MarkTotp, MarkKey, Promote, NewSession, CountForStart,
           OpenRegistration, TakeRegistration, Recount, LoadKeys, OpenAuthentication,
           TakeAuthentication, FindKey, Begin, Callback, InsertKey, DeleteKey
  <1>2. earned \in [Sessions -> SUBSET {"totp", "key"}]
    BY DEF TypeOK
  <1> QED BY <1>1, <1>2

LEMMA StageStep ==
    ASSUME TypeOK, CallsInv, EarnInv, [Next]_vars
    PROVE  \A s \in Sessions : StageInv(s)'
  <1> SUFFICES ASSUME NEW s \in Sessions PROVE StageInv(s)'
    OBVIOUS
  <1>0. session \in [Sessions -> [made : BOOLEAN, totp : BOOLEAN, key : BOOLEAN,
                                  admin : BOOLEAN, revoked : BOOLEAN]]
    BY DEF TypeOK
  <1>1. earned[s] \subseteq earned'[s] /\ StageInv(s)
    BY EarnedGrows DEF EarnInv
  <1>2. CASE UNCHANGED session
    BY <1>1, <1>2 DEF StageInv
  <1>3. ASSUME NEW t \in Sessions, Logout(t) \/ \E r \in Requests : NewSession(r, t)
        PROVE  StageInv(s)'
    <2>1. /\ session'[s].totp = session[s].totp /\ session'[s].key = session[s].key
          /\ session'[s].admin = session[s].admin
      BY <1>0, <1>3 DEF Logout, NewSession
    <2> QED BY <1>1, <2>1 DEF StageInv
  <1>4. ASSUME NEW r \in Requests, MarkTotp(r) PROVE StageInv(s)'
    <2>1. of[r] \in Sessions /\ "totp" \in earned[of[r]]
      BY <1>4, SessionOf DEF MarkTotp, EarnInv, MarkInv, OfSession, OfFlow, Points
    <2>2. /\ session'[s].totp => session[s].totp \/ s = of[r]
          /\ session[s].totp => session'[s].totp
          /\ session'[s].key = session[s].key /\ session'[s].admin = session[s].admin
      BY <1>0, <1>4, <2>1 DEF MarkTotp
    <2> QED BY <1>1, <2>1, <2>2 DEF StageInv
  <1>5. ASSUME NEW r \in Requests, MarkKey(r) PROVE StageInv(s)'
    <2>1. of[r] \in Sessions /\ "key" \in earned[of[r]]
      BY <1>5, SessionOf DEF MarkKey, EarnInv, MarkInv, OfSession, OfFlow, Points
    <2>2. /\ session'[s].key => session[s].key \/ s = of[r]
          /\ session[s].key => session'[s].key
          /\ session'[s].totp = session[s].totp /\ session'[s].admin = session[s].admin
      BY <1>0, <1>5, <2>1 DEF MarkKey
    <2> QED BY <1>1, <2>1, <2>2 DEF StageInv
  <1>6. ASSUME NEW r \in Requests, Promote(r) PROVE StageInv(s)'
    <2>1. of[r] \in Sessions
      BY <1>6, SessionOf DEF Promote, OfSession, OfFlow, Points
    <2>2. /\ session'[s].totp = session[s].totp /\ session'[s].key = session[s].key
          /\ session'[s].admin => session[s].admin \/ (session[s].totp /\ session[s].key)
      BY <1>0, <1>6, <2>1 DEF Promote
    <2> QED BY <1>1, <2>2 DEF StageInv
  <1> QED BY <1>2, <1>3, <1>4, <1>5, <1>6, SessionWrites

\* An admin_tier session has passed both stages itself (session.rs:140-177).
THEOREM AdminEarnedCorrect == Spec => []AdminEarned
  <1>1. Init => TypeOK /\ CallsInv /\ EarnInv
    <2>1. Init => EarnInv
      BY DEF Init, EarnInv, MarkInv, StageInv
    <2> QED BY <2>1, TypeInit, CallsInit
  <1>2. TypeOK /\ CallsInv /\ EarnInv /\ [Next]_vars => TypeOK' /\ CallsInv' /\ EarnInv'
    <2> SUFFICES ASSUME TypeOK, CallsInv, EarnInv, [Next]_vars
                 PROVE  TypeOK' /\ CallsInv' /\ EarnInv'
      OBVIOUS
    <2>1. EarnInv'
      <3>1. \A r \in Requests : MarkInv(r)'
        BY MarkStep DEF EarnInv
      <3>2. \A s \in Sessions : StageInv(s)'
        BY StageStep
      <3> QED BY <3>1, <3>2 DEF EarnInv
    <2> QED BY <2>1, TypeStep, CallsStep
  <1>3. TypeOK /\ EarnInv => AdminEarned
    BY DEF TypeOK, EarnInv, StageInv, AdminEarned
  <1> QED BY <1>1, <1>2, <1>3, PTL DEF Spec

\* Two stages marked at one time still promote: the mark that stands second
\* is followed by a promotion that finds both (session.rs:140-143).
LEMMA PromoteStep ==
    ASSUME TypeOK, CallsInv, StagesPromote, [Next]_vars
    PROVE  StagesPromote'
  <1> USE DEF memory, database, calls, history, accepted
  <1> SUFFICES ASSUME NEW s \in Sessions, s \notin cut',
                      session'[s].totp, session'[s].key, ~session'[s].admin
               PROVE  \E q \in Requests : at'[q] = "promote" /\ of'[q] = s
    BY DEF StagesPromote
  <1>0. /\ at \in [Requests -> Points] /\ of \in [Requests -> Sessions \union Flows \union {None}]
        /\ session \in [Sessions -> [made : BOOLEAN, totp : BOOLEAN, key : BOOLEAN,
                                     admin : BOOLEAN, revoked : BOOLEAN]]
    BY DEF CallsInv, CallsOK, TypeOK
  <1>1. ASSUME NEW r \in Requests, MarkTotp(r) \/ MarkKey(r), of[r] = s
        PROVE  \E q \in Requests : at'[q] = "promote" /\ of'[q] = s
    BY <1>0, <1>1 DEF MarkTotp, MarkKey, Move
  <1>2. ASSUME \A r \in Requests : MarkTotp(r) \/ MarkKey(r) => of[r] # s
        PROVE  \E q \in Requests : at'[q] = "promote" /\ of'[q] = s
    <2>1. session[s].totp /\ session[s].key /\ ~session[s].admin
      <3>1. ASSUME NEW t \in Sessions, Logout(t) \/ \E r \in Requests : NewSession(r, t)
            PROVE  session[s].totp /\ session[s].key /\ ~session[s].admin
        BY <1>0, <3>1 DEF Logout, NewSession
      <3>2. ASSUME NEW r \in Requests, MarkTotp(r) \/ MarkKey(r)
            PROVE  session[s].totp /\ session[s].key /\ ~session[s].admin
        BY <1>0, <1>2, <3>2 DEF MarkTotp, MarkKey
      <3>3. ASSUME NEW r \in Requests, Promote(r)
            PROVE  session[s].totp /\ session[s].key /\ ~session[s].admin
        BY <1>0, <3>3 DEF Promote
      <3> QED BY <3>1, <3>2, <3>3, SessionWrites
    <2>2. s \notin cut
      BY DEF Next, Step, vars, Tick, Restart, BeginLogin, Logout, Refuse, TakeFlow,
             FindUser, NewUser, NewSecret, CheckCode, AcceptCode, MarkTotp, MarkKey,
             Promote, NewSession, CountForStart, OpenRegistration, TakeRegistration,
             Recount, LoadKeys, OpenAuthentication, TakeAuthentication, FindKey, Begin,
             Callback, InsertKey, DeleteKey
    <2>3. PICK q \in Requests : at[q] = "promote" /\ of[q] = s
      BY <2>1, <2>2 DEF StagesPromote
    <2>4. ~Restart
      BY <2>3 DEF Restart
    <2>5. ASSUME NEW r \in Requests, Promote(r) PROVE r # q
      BY <1>0, <2>1, <2>3, <2>5 DEF Promote
    <2>6. ASSUME NEW r \in Requests, Refuse(r) PROVE r # q
      BY <2>3, <2>6 DEF Refuse
    <2>7. ASSUME NEW r \in Requests, NEW to, at' = [at EXCEPT ![r] = to], r # q,
                 of' = of \/ \E x : of' = [of EXCEPT ![r] = x]
          PROVE  at'[q] = "promote" /\ of'[q] = s
      BY <1>0, <2>3, <2>7
    <2>8. \/ UNCHANGED <<at, of>>
          \/ \E r \in Requests \ {q} :
                /\ \E to : at' = [at EXCEPT ![r] = to]
                /\ of' = of \/ \E x : of' = [of EXCEPT ![r] = x]
      <3> DEFINE Other == \E r \in Requests \ {q} :
                             /\ \E to : at' = [at EXCEPT ![r] = to]
                             /\ of' = of \/ \E x : of' = [of EXCEPT ![r] = x]
      <3>1. ASSUME NEW r \in Requests,
                   \/ Refuse(r) \/ NewSecret(r) \/ Promote(r) \/ OpenRegistration(r)
                   \/ OpenAuthentication(r) \/ \E t \in Sessions : NewSession(r, t)
                   \/ \E k \in Keys : DeleteKey(r, k)
            PROVE  Other
        <4>1. Answer(r)
          BY <3>1 DEF Refuse, NewSecret, Promote, OpenRegistration, OpenAuthentication,
                      NewSession, DeleteKey
        <4>2. r # q
          BY <2>3, <2>5, <2>6, <3>1 DEF NewSecret, OpenRegistration, OpenAuthentication,
                                       NewSession, DeleteKey
        <4> QED BY <4>1, <4>2 DEF Answer, Move
      <3>2. ASSUME NEW r \in Requests,
                   \/ FindUser(r) \/ NewUser(r) \/ CheckCode(r) \/ MarkTotp(r) \/ MarkKey(r)
                   \/ CountForStart(r) \/ TakeRegistration(r) \/ Recount(r) \/ LoadKeys(r)
                   \/ TakeAuthentication(r) \/ FindKey(r)
                   \/ \E k \in Keys : InsertKey(r, k)
            PROVE  Other
        <4>1. UNCHANGED of /\ r # q
          BY <2>3, <3>2 DEF FindUser, NewUser, CheckCode, MarkTotp, MarkKey, CountForStart,
                  TakeRegistration, Recount, LoadKeys, TakeAuthentication, FindKey,
                  InsertKey, Keep
        <4>2. PICK to \in Points : at' = [at EXCEPT ![r] = to]
          BY <3>2 DEF FindUser, NewUser, CheckCode, MarkTotp, MarkKey, CountForStart,
                  TakeRegistration, Recount, LoadKeys, TakeAuthentication, FindKey,
                  InsertKey, Move, Points
        <4> QED BY <4>1, <4>2
      <3>3. ASSUME NEW r \in Requests, TakeFlow(r) \/ AcceptCode(r) PROVE Other
        <4>1. r # q
          BY <2>3, <3>3 DEF TakeFlow, AcceptCode
        <4>2. /\ \E to : Move(r, to)
              /\ UNCHANGED of \/ of' = [of EXCEPT ![r] = None]
          <5>1. CASE Answer(r)
            BY <5>1 DEF Answer
          <5>2. CASE ~Answer(r)
            BY <3>3, <5>2 DEF TakeFlow, AcceptCode
          <5> QED BY <5>1, <5>2
        <4> QED BY <4>1, <4>2 DEF Move
      <3>4. ASSUME NEW r \in Requests,
                   \/ \E t \in Sessions : Begin(r, t)
                   \/ \E f \in Flows : Callback(r, f)
            PROVE  Other
        <4>1. at[r] = "idle" /\ \E to : at' = [at EXCEPT ![r] = to]
          BY <3>4 DEF Begin, Callback, Arrive
        <4>2. \E x : of' = [of EXCEPT ![r] = x]
          BY <3>4 DEF Begin, Callback
        <4> QED BY <2>3, <4>1, <4>2
      <3> HIDE DEF Other
      <3>5. UNCHANGED <<at, of>> \/ Other
        BY <2>4, <3>1, <3>2, <3>3, <3>4 DEF Next, Step, vars, Tick, BeginLogin, Logout
      <3> QED BY <3>5 DEF Other
    <2> QED BY <2>3, <2>7, <2>8
  <1> QED BY <1>1, <1>2

THEOREM StagesPromoteCorrect == Spec => []StagesPromote
  <1>1. Init => TypeOK /\ CallsInv /\ StagesPromote
    <2>1. Init => StagesPromote
      BY DEF Init, StagesPromote
    <2> QED BY <2>1, TypeInit, CallsInit
  <1>2. TypeOK /\ CallsInv /\ StagesPromote /\ [Next]_vars
          => TypeOK' /\ CallsInv' /\ StagesPromote'
    BY TypeStep, CallsStep, PromoteStep
  <1> QED BY <1>1, <1>2, PTL DEF Spec
------------------------------------------------------------------------------
(* One session for a login flow: the callback that took the flow owns it   *)
(* until its session is made.                                              *)

Past == {"findUser", "newUser", "newSession"}

UsedUp(f) == f \in Flows /\ flows[f].born > 0 /\ ~flows[f].open

OwnerInv ==
    /\ \A r \in Requests : at[r] \in Past =>
          UsedUp(of[r]) /\ \A s \in Sessions : source[s] # of[r]
    /\ \A q, r \in Requests : at[q] \in Past /\ at[r] \in Past /\ of[q] = of[r] => q = r

SourceInv ==
    \A s \in Sessions : IF session[s].made THEN UsedUp(source[s]) ELSE source[s] = None

FlowInv ==
    /\ OwnerInv /\ SourceInv /\ OneSessionPerFlow
    /\ \A f \in Flows : flows[f].open => flows[f].born > 0

\* What any step does to flows other than the one it starts.
LEMMA FlowsKept ==
    ASSUME TypeOK, [Next]_vars, NEW f \in Flows, flows[f].born > 0
    PROVE  flows'[f].born = flows[f].born /\ (flows'[f].open => flows[f].open)
  <1> USE DEF memory, database, calls, history, accepted
  <1>0. flows \in [Flows -> [open : BOOLEAN, born : 0 .. MaxStep]]
    BY DEF TypeOK
  <1>1. CASE UNCHANGED flows
    BY <1>1
  <1>2. ASSUME NEW g \in Flows, BeginLogin(g)
        PROVE  flows'[f].born = flows[f].born /\ (flows'[f].open => flows[f].open)
    BY <1>0, <1>2 DEF BeginLogin
  <1>3. ASSUME NEW r \in Requests, TakeFlow(r)
        PROVE  flows'[f].born = flows[f].born /\ (flows'[f].open => flows[f].open)
    BY <1>0, <1>3 DEF TakeFlow
  <1>4. CASE Restart
    BY <1>0, <1>4 DEF Restart
  <1> QED
    BY <1>1, <1>2, <1>3, <1>4
    DEF Next, Step, vars, Tick, Logout, Refuse, FindUser, NewUser, NewSecret, CheckCode,
        AcceptCode, MarkTotp, MarkKey, Promote, NewSession, CountForStart,
        OpenRegistration, TakeRegistration, Recount, LoadKeys, OpenAuthentication,
        TakeAuthentication, FindKey, Begin, Callback, InsertKey, DeleteKey

LEMMA UsedUpKept ==
    ASSUME TypeOK, [Next]_vars, NEW f, UsedUp(f)
    PROVE  f \in Flows /\ flows'[f].born > 0 /\ ~flows'[f].open
  BY FlowsKept DEF UsedUp

\* A request gets past the flow only by taking it.
LEMMA PastKept ==
    ASSUME TypeOK, CallsInv, [Next]_vars, NEW q \in Requests, at'[q] \in Past
    PROVE  \/ at[q] \in Past /\ of'[q] = of[q]
           \/ TakeFlow(q) /\ of'[q] = of[q]
  <1> USE DEF memory, database, calls, history, accepted
  <1>0. /\ at \in [Requests -> Points]
        /\ of \in [Requests -> Sessions \union Flows \union {None}]
    BY DEF CallsInv, CallsOK
  <1>1. CASE UNCHANGED <<at, of>>
    BY <1>1
  <1>2. ASSUME NEW r \in Requests, NEW to \in Points \ Past, at' = [at EXCEPT ![r] = to],
               of' = of \/ \E x : of' = [of EXCEPT ![r] = x]
        PROVE  at[q] \in Past /\ of'[q] = of[q]
    BY <1>0, <1>2
  <1>3. CASE Restart
    BY <1>3 DEF Restart, Past
  <1>4. ASSUME NEW r \in Requests, Answer(r)
        PROVE  at[q] \in Past /\ of'[q] = of[q]
    BY <1>2, <1>4 DEF Answer, Move, Past, Points
  <1>5. ASSUME NEW r \in Requests, FindUser(r) \/ NewUser(r)
        PROVE  at[q] \in Past /\ of'[q] = of[q]
    BY <1>0, <1>5 DEF FindUser, NewUser, Move, Past
  <1>6. ASSUME NEW r \in Requests,
               \/ CheckCode(r) \/ MarkTotp(r) \/ MarkKey(r)
               \/ CountForStart(r) \/ TakeRegistration(r) \/ Recount(r) \/ LoadKeys(r)
               \/ TakeAuthentication(r) \/ FindKey(r) \/ \E k \in Keys : InsertKey(r, k)
               \/ \E s \in Sessions : Begin(r, s)
               \/ \E f \in Flows : Callback(r, f)
        PROVE  at[q] \in Past /\ of'[q] = of[q]
    <2>1. PICK to \in Points \ Past : at' = [at EXCEPT ![r] = to]
      BY <1>6 DEF CheckCode, MarkTotp, MarkKey, CountForStart, TakeRegistration, Recount,
                  LoadKeys, TakeAuthentication, FindKey, InsertKey, Begin, Callback,
                  Move, Arrive, Points, Past
    <2>2. of' = of \/ \E x : of' = [of EXCEPT ![r] = x]
      BY <1>6 DEF CheckCode, MarkTotp, MarkKey, CountForStart, TakeRegistration, Recount,
                  LoadKeys, TakeAuthentication, FindKey, InsertKey, Begin, Callback, Keep
    <2> QED BY <1>2, <2>1, <2>2
  <1>7. ASSUME NEW r \in Requests,
               \/ Refuse(r) \/ NewSecret(r) \/ Promote(r) \/ OpenRegistration(r)
               \/ OpenAuthentication(r) \/ \E s \in Sessions : NewSession(r, s)
               \/ \E k \in Keys : DeleteKey(r, k)
        PROVE  at[q] \in Past /\ of'[q] = of[q]
    <2>1. Answer(r)
      BY <1>7 DEF Refuse, NewSecret, Promote, OpenRegistration, OpenAuthentication,
                  NewSession, DeleteKey
    <2> QED BY <1>4, <2>1
  <1>8. ASSUME NEW r \in Requests, TakeFlow(r)
        PROVE  \/ at[q] \in Past /\ of'[q] = of[q]
               \/ TakeFlow(q) /\ of'[q] = of[q]
    <2>1. CASE Answer(r)
      BY <1>4, <2>1
    <2>2. CASE ~Answer(r)
      <3>1. at' = [at EXCEPT ![r] = "findUser"] /\ UNCHANGED of
        BY <1>8, <2>2 DEF TakeFlow, Move
      <3> QED BY <1>0, <1>8, <3>1
    <2> QED BY <2>1, <2>2
  <1>9. ASSUME NEW r \in Requests, AcceptCode(r)
        PROVE  at[q] \in Past /\ of'[q] = of[q]
    <2>1. CASE Answer(r)
      BY <1>4, <2>1
    <2>2. CASE ~Answer(r)
      <3>1. at' = [at EXCEPT ![r] = "markTotp"] /\ UNCHANGED of
        BY <1>9, <2>2 DEF AcceptCode, Move
      <3> QED BY <1>2, <3>1 DEF Points, Past
    <2> QED BY <2>1, <2>2
  <1> DEFINE Goal == \/ at[q] \in Past /\ of'[q] = of[q]
                     \/ TakeFlow(q) /\ of'[q] = of[q]
  <1>10. ASSUME NEW r \in Requests, Step(r) PROVE Goal
    BY <1>5, <1>6, <1>7, <1>8, <1>9, <1>10 DEF Step
  <1>11. UNCHANGED <<at, of>> => Goal
    BY <1>1
  <1>12. Restart => Goal
    BY <1>3
  <1> HIDE DEF Goal
  <1>13. Goal
    BY <1>10, <1>11, <1>12 DEF Next, vars, Tick, BeginLogin, Logout
  <1> QED BY <1>13 DEF Goal
\* The steps that write where a session came from.
LEMMA SourceWrites ==
    ASSUME TypeOK, [Next]_vars
    PROVE  \/ /\ UNCHANGED source
              /\ \A s \in Sessions : session'[s].made = session[s].made
           \/ \E r \in Requests, s \in Sessions : NewSession(r, s)
  <1>0. session \in [Sessions -> [made : BOOLEAN, totp : BOOLEAN, key : BOOLEAN,
                                  admin : BOOLEAN, revoked : BOOLEAN]]
    BY DEF TypeOK
  <1>1. UNCHANGED source \/ \E r \in Requests, s \in Sessions : NewSession(r, s)
    BY DEF Next, Step, vars, memory, database, calls, history, accepted, Tick, Restart, BeginLogin,
           Logout, Refuse, TakeFlow, FindUser, NewUser, NewSecret, CheckCode, AcceptCode,
           MarkTotp, MarkKey, Promote, CountForStart, OpenRegistration, TakeRegistration,
           Recount, LoadKeys, OpenAuthentication, TakeAuthentication, FindKey, Begin,
           Callback, InsertKey, DeleteKey
  <1>2. ASSUME NEW r \in Requests, MarkTotp(r) \/ MarkKey(r) \/ Promote(r)
        PROVE  \A s \in Sessions : session'[s].made = session[s].made
    BY <1>0, <1>2 DEF MarkTotp, MarkKey, Promote
  <1>3. ASSUME NEW t \in Sessions, Logout(t)
        PROVE  \A s \in Sessions : session'[s].made = session[s].made
    BY <1>0, <1>3 DEF Logout
  <1> QED BY <1>1, <1>2, <1>3, SessionWrites

LEMMA FlowStep ==
    ASSUME TypeOK, CallsInv, FlowInv, [Next]_vars
    PROVE  FlowInv'
  <1> USE DEF memory, database, calls, history, accepted
  <1>1. \A f \in Flows : flows'[f].open => flows'[f].born > 0
    <2>0. flows \in [Flows -> [open : BOOLEAN, born : 0 .. MaxStep]] /\ now > 0
      BY DEF TypeOK, Clock
    <2>1. ASSUME NEW f \in Flows, flows[f].born > 0 PROVE flows'[f].born > 0
      BY <2>1, FlowsKept
    <2>2. ASSUME NEW f \in Flows, ~(flows[f].born > 0), flows'[f].open
          PROVE  flows'[f].born > 0
      <3>1. ~flows[f].open
        BY <2>2 DEF FlowInv
      <3>2. ASSUME NEW r \in Requests PROVE ~TakeFlow(r)
        BY <2>0, <2>2, <3>1, <3>2 DEF TakeFlow
      <3>3. ~Restart
        BY <2>0, <2>2 DEF Restart
      <3>4. ~UNCHANGED flows
        BY <2>2, <3>1
      <3>5. PICK g \in Flows : BeginLogin(g)
        BY <3>2, <3>3, <3>4
        DEF Next, Step, vars, Tick, Logout, Refuse, FindUser, NewUser, NewSecret,
            CheckCode, AcceptCode, MarkTotp, MarkKey, Promote, NewSession, CountForStart,
            OpenRegistration, TakeRegistration, Recount, LoadKeys, OpenAuthentication,
            TakeAuthentication, FindKey, Begin, Callback, InsertKey, DeleteKey
      <3> QED BY <2>0, <2>2, <3>1, <3>5 DEF BeginLogin
    <2> QED BY <2>1, <2>2
  <1>2. ASSUME NEW r \in Requests, at[r] \in Past, of'[r] = of[r] PROVE UsedUp(of[r])'
    <2>1. UsedUp(of[r])
      BY <1>2 DEF FlowInv, OwnerInv
    <2> QED BY <1>2, <2>1, UsedUpKept DEF UsedUp
  <1>3. ASSUME NEW r \in Requests, TakeFlow(r), of'[r] = of[r]
        PROVE  of[r] \in Flows /\ flows[of[r]].open /\ UsedUp(of[r])'
    <2>1. of[r] \in Flows /\ flows[of[r]].open /\ flows[of[r]].born > 0
      BY <1>3 DEF TakeFlow, CallsInv, CallInv, OfFlow, FlowInv
    <2>2. flows'[of[r]].born = flows[of[r]].born /\ ~flows'[of[r]].open
      <3>1. flows \in [Flows -> [open : BOOLEAN, born : 0 .. MaxStep]]
        BY DEF TypeOK
      <3>2. flows' = [flows EXCEPT ![of[r]].open = FALSE]
        BY <1>3 DEF TakeFlow
      <3> QED BY <2>1, <3>1, <3>2
    <2> QED BY <1>3, <2>1, <2>2 DEF UsedUp
  <1>4. CASE /\ UNCHANGED source
             /\ \A s \in Sessions : session'[s].made = session[s].made
    <2>1. OwnerInv'
      <3>1. ASSUME NEW r \in Requests, at'[r] \in Past
            PROVE  UsedUp(of[r])' /\ of'[r] = of[r]
                   /\ \A s \in Sessions : source'[s] # of'[r]
        <4>1. CASE at[r] \in Past /\ of'[r] = of[r]
          <5>1. UsedUp(of[r])' /\ \A s \in Sessions : source[s] # of[r]
            BY <1>2, <4>1 DEF FlowInv, OwnerInv
          <5> QED BY <1>4, <4>1, <5>1
        <4>2. CASE TakeFlow(r) /\ of'[r] = of[r]
          BY <1>3, <1>4, <4>2, IdentityAssumption DEF FlowInv, SourceInv, UsedUp
        <4> QED BY <3>1, <4>1, <4>2, PastKept
      <3>2. ASSUME NEW q \in Requests, NEW r \in Requests,
                   at'[q] \in Past, at'[r] \in Past, of'[q] = of'[r]
            PROVE  q = r
        <4>1. CASE at[q] \in Past /\ at[r] \in Past
          BY <3>1, <3>2, <4>1 DEF FlowInv, OwnerInv
        <4>2. CASE TakeFlow(q) /\ at[r] \in Past
          BY <1>3, <3>1, <3>2, <4>2 DEF FlowInv, OwnerInv, UsedUp
        <4>3. CASE at[q] \in Past /\ TakeFlow(r)
          BY <1>3, <3>1, <3>2, <4>3 DEF FlowInv, OwnerInv, UsedUp
        <4>4. CASE TakeFlow(q) /\ TakeFlow(r)
          <5>1. flows' = [flows EXCEPT ![of[q]].open = FALSE]
            BY <4>4 DEF TakeFlow
          <5>2. at[q] = "flowTake" /\ at'[q] # at[q] /\ at[r] = "flowTake" /\ at'[r] # at[r]
            BY <3>2, <4>4 DEF TakeFlow, Past
          <5>3. \A p \in Requests : TakeFlow(p) => \A x \in Requests \ {p} : at'[x] = at[x]
            BY DEF TakeFlow, Answer, Move, CallsInv, CallsOK
          <5> QED BY <4>4, <5>2, <5>3
        <4> QED BY <3>2, <4>1, <4>2, <4>3, <4>4, PastKept
      <3> QED BY <3>1, <3>2 DEF OwnerInv, UsedUp
    <2>2. SourceInv'
      BY <1>4, UsedUpKept DEF FlowInv, SourceInv, UsedUp
    <2>3. OneSessionPerFlow'
      BY <1>4 DEF FlowInv, OneSessionPerFlow
    <2> QED BY <1>1, <2>1, <2>2, <2>3 DEF FlowInv
  <1>5. ASSUME NEW r \in Requests, NEW s \in Sessions, NewSession(r, s) PROVE FlowInv'
    <2>0. /\ at[r] \in Past /\ ~session[s].made /\ UNCHANGED flows
          /\ source' = [source EXCEPT ![s] = of[r]]
          /\ session' = [session EXCEPT ![s].made = TRUE]
      BY <1>5 DEF NewSession, Past
    <2>1. /\ source'[s] = of[r] /\ session'[s].made
          /\ \A t \in Sessions \ {s} : source'[t] = source[t]
                                        /\ session'[t].made = session[t].made
      BY <2>0 DEF TypeOK
    <2>2. UsedUp(of[r]) /\ \A t \in Sessions : source[t] # of[r]
      BY <2>0 DEF FlowInv, OwnerInv
    <2>3. ASSUME NEW q \in Requests, at'[q] \in Past
          PROVE  at[q] \in Past /\ of'[q] = of[q] /\ q # r
      <3>1. at'[r] = "idle"
        BY <1>5 DEF NewSession, Answer, Move, CallsInv, CallsOK
      <3>2. at[q] \in Past /\ of'[q] = of[q]
        BY <2>3, <1>5 DEF NewSession, Answer, Move, CallsInv, CallsOK, Past
      <3> QED BY <2>3, <3>1, <3>2 DEF Past
    <2>4. OwnerInv'
      <3>1. ASSUME NEW q \in Requests, at'[q] \in Past
            PROVE  UsedUp(of[q])' /\ \A t \in Sessions : source'[t] # of'[q]
        <4>1. of[q] # of[r] /\ UsedUp(of[q]) /\ \A t \in Sessions : source[t] # of[q]
          BY <2>0, <2>3, <3>1 DEF FlowInv, OwnerInv
        <4> QED BY <2>0, <2>1, <2>3, <3>1, <4>1 DEF UsedUp
      <3>2. ASSUME NEW p \in Requests, NEW q \in Requests,
                   at'[p] \in Past, at'[q] \in Past, of'[p] = of'[q]
            PROVE  p = q
        BY <2>3, <3>2 DEF FlowInv, OwnerInv
      <3> QED BY <3>1, <3>2 DEF OwnerInv, UsedUp
    <2>5. SourceInv'
      <3>1. \A f : UsedUp(f) => UsedUp(f)'
        BY <2>0 DEF UsedUp
      <3> QED BY <2>1, <2>2, <3>1 DEF FlowInv, SourceInv
    <2>6. OneSessionPerFlow'
      BY <2>1, <2>2 DEF FlowInv, OneSessionPerFlow
    <2> QED BY <1>1, <2>4, <2>5, <2>6 DEF FlowInv
  <1> QED BY <1>4, <1>5, SourceWrites

\* A login flow makes one session at most (oidc.rs:150-160).
THEOREM OneSessionPerFlowCorrect == Spec => []OneSessionPerFlow
  <1>1. Init => TypeOK /\ CallsInv /\ FlowInv
    <2>1. Init => FlowInv
      BY DEF Init, FlowInv, OwnerInv, SourceInv, OneSessionPerFlow, Past
    <2> QED BY <2>1, TypeInit, CallsInit
  <1>2. TypeOK /\ CallsInv /\ FlowInv /\ [Next]_vars => TypeOK' /\ CallsInv' /\ FlowInv'
    BY TypeStep, CallsStep, FlowStep
  <1>3. FlowInv => OneSessionPerFlow
    BY DEF FlowInv
  <1> QED BY <1>1, <1>2, <1>3, PTL DEF Spec
------------------------------------------------------------------------------
(* Codes.  As long as requests take turns, TOTP counts as set up only for  *)
(* a secret with an accepted code, and since that setup the row names the  *)
(* last code that was accepted.                                            *)

WriteInv(r) ==
    at[r] = "write" /\ arg[r].kind # "setup"
        => arg[r].row.enabled /\ arg[r].step > arg[r].row.last

CodeInv ==
    totp.enabled /\ ~raced =>
        /\ \A c \in fresh : c[1] = totp.secret /\ c[2] <= totp.last
        /\ \E step \in Clock : <<totp.secret, step>> \in spent

LEMMA WriteStep ==
    ASSUME TypeOK, CallsInv, \A r \in Requests : WriteInv(r), [Next]_vars
    PROVE  \A r \in Requests : WriteInv(r)'
  <1> USE DEF memory, database, calls, history, accepted
  <1> SUFFICES ASSUME NEW q \in Requests, at'[q] = "write" PROVE WriteInv(q)'
    BY DEF WriteInv
  <1>0. /\ at \in [Requests -> Points]
        /\ arg \in [Requests -> [kind : Kinds, row : Rows, step : 0 .. MaxStep,
                                 keys : SUBSET Keys]]
    BY DEF CallsInv, CallsOK
  <1>1. CASE at[q] = "write" /\ arg'[q] = arg[q]
    BY <1>1 DEF WriteInv
  <1>2. CASE CheckCode(q)
    <2>1. PICK step \in Window :
            /\ arg[q].kind # "setup" => step > totp.last
            /\ arg' = [arg EXCEPT ![q] = [arg[q] EXCEPT !.row = totp, !.step = step]]
      BY <1>2 DEF CheckCode, Keep
    <2>2. arg'[q].row = totp /\ arg'[q].step = step /\ arg'[q].kind = arg[q].kind
      BY <1>0, <2>1
    <2> QED BY <1>2, <2>1, <2>2 DEF CheckCode, WriteInv
  <1> DEFINE Goal == (at[q] = "write" /\ arg'[q] = arg[q]) \/ CheckCode(q)
  <1>3. ASSUME UNCHANGED <<at, arg>> PROVE Goal
    BY <1>3
  <1>4. ASSUME NEW r \in Requests, NEW to \in Points \ {"write"},
               at' = [at EXCEPT ![r] = to],
               arg' = arg \/ \E x : arg' = [arg EXCEPT ![r] = x]
        PROVE  Goal
    BY <1>0, <1>4
  <1>5. ASSUME Restart PROVE Goal
    BY <1>5 DEF Restart
  <1>6. ASSUME NEW r \in Requests, Answer(r) PROVE Goal
    BY <1>4, <1>6 DEF Answer, Move, Points
  <1>7. ASSUME NEW r \in Requests,
               \/ FindUser(r) \/ NewUser(r) \/ MarkTotp(r) \/ MarkKey(r)
               \/ CountForStart(r) \/ TakeRegistration(r) \/ Recount(r) \/ LoadKeys(r)
               \/ TakeAuthentication(r) \/ FindKey(r)
               \/ \E k \in Keys : InsertKey(r, k)
               \/ \E f \in Flows : Callback(r, f)
        PROVE  Goal
    <2>1. PICK to \in Points \ {"write"} : at' = [at EXCEPT ![r] = to]
      BY <1>7 DEF FindUser, NewUser, MarkTotp, MarkKey, CountForStart, TakeRegistration,
                  Recount, LoadKeys, TakeAuthentication, FindKey, InsertKey, Callback,
                  Move, Arrive, Points
    <2>2. arg' = arg \/ \E x : arg' = [arg EXCEPT ![r] = x]
      BY <1>7 DEF FindUser, NewUser, MarkTotp, MarkKey, CountForStart, TakeRegistration,
                  Recount, LoadKeys, TakeAuthentication, FindKey, InsertKey, Callback, Keep
    <2> QED BY <1>4, <2>1, <2>2
  <1>8. ASSUME NEW r \in Requests, NEW s \in Sessions, Begin(r, s) PROVE Goal
    <2>1. PICK to \in Points \ {"write"} : at' = [at EXCEPT ![r] = to]
      BY <1>8 DEF Begin, Arrive, Points
    <2>2. arg' = arg \/ \E x : arg' = [arg EXCEPT ![r] = x]
      BY <1>8 DEF Begin
    <2> QED BY <1>4, <2>1, <2>2
  <1>9. ASSUME NEW r \in Requests,
               \/ Refuse(r) \/ NewSecret(r) \/ Promote(r) \/ OpenRegistration(r)
               \/ OpenAuthentication(r)
               \/ \E s \in Sessions : NewSession(r, s)
               \/ \E k \in Keys : DeleteKey(r, k)
        PROVE  Goal
    <2>1. Answer(r)
      BY <1>9 DEF Refuse, NewSecret, Promote, OpenRegistration, OpenAuthentication,
                  NewSession, DeleteKey
    <2> QED BY <1>6, <2>1
  <1>10. ASSUME NEW r \in Requests, TakeFlow(r) \/ AcceptCode(r) PROVE Goal
    <2>1. CASE Answer(r)
      BY <1>6, <2>1
    <2>2. CASE ~Answer(r)
      <3>1. /\ UNCHANGED arg
            /\ \E to \in {"findUser", "markTotp"} : at' = [at EXCEPT ![r] = to]
        BY <1>10, <2>2 DEF TakeFlow, AcceptCode, Move
      <3> QED BY <1>4, <3>1 DEF Points
    <2> QED BY <2>1, <2>2
  <1>11. ASSUME NEW r \in Requests, CheckCode(r) PROVE Goal
    BY <1>0, <1>11 DEF CheckCode, Move, Keep
  <1>12. ASSUME NEW r \in Requests, Step(r) PROVE Goal
    <2> HIDE DEF Goal
    <2> QED BY <1>7, <1>8, <1>9, <1>10, <1>11, <1>12 DEF Step
  <1>13. UNCHANGED <<at, arg>> \/ Restart => Goal
    BY <1>3, <1>5
  <1>14. Goal
    <2> HIDE DEF Goal
    <2> QED BY <1>12, <1>13 DEF Next, vars, Tick, BeginLogin, Logout
  <1> QED BY <1>1, <1>2, <1>14

\* The steps that write the row, and those that accept a code.
LEMMA SecretWrites ==
    ASSUME [Next]_vars
    PROVE  \/ UNCHANGED <<totp, accepted>>
           \/ \E r \in Requests : NewSecret(r) \/ AcceptCode(r)
  <1> USE DEF memory, database, calls, history, accepted
  <1>1. ASSUME NEW r \in Requests, Step(r), ~NewSecret(r), ~AcceptCode(r)
        PROVE  UNCHANGED <<totp, accepted>>
    BY <1>1
    DEF Step, Refuse, TakeFlow, FindUser, NewUser, CheckCode, MarkTotp, MarkKey, Promote,
        NewSession, CountForStart, OpenRegistration, TakeRegistration, Recount, LoadKeys,
        OpenAuthentication, TakeAuthentication, FindKey, Begin, Callback, InsertKey,
        DeleteKey
  <1> QED BY <1>1 DEF Next, vars, Tick, Restart, BeginLogin, Logout

\* A code accepted in its turn is for the secret of the row, and a login's is
\* none of those accepted since the last verified setup.
LEMMA AcceptInTurn ==
    ASSUME TypeOK, CallsInv, CodeInv, NEW r \in Requests, WriteInv(r),
           AcceptCode(r), ~raced'
    PROVE  /\ Code(r) = <<totp.secret, arg[r].step>>
           /\ arg[r].step \in Clock
           /\ arg[r].kind # "setup" =>
                 ~raced /\ totp.enabled /\ arg[r].step > totp.last /\ Code(r) \notin fresh
  <1>1. totp = arg[r].row /\ (arg[r].kind # "setup" => ~raced)
    BY DEF AcceptCode
  <1>2. arg[r].step \in Clock /\ totp \in Rows
    BY DEF AcceptCode, CallsInv, CallInv, TypeOK
  <1>3. arg[r].kind # "setup" => totp.enabled /\ arg[r].step > totp.last
    BY <1>1 DEF AcceptCode, WriteInv
  <1>4. Code(r) = <<totp.secret, arg[r].step>>
    BY <1>1 DEF Code
  <1>5. ASSUME arg[r].kind # "setup", Code(r) \in fresh PROVE FALSE
    <2>1. arg[r].step <= totp.last
      BY <1>1, <1>3, <1>4, <1>5 DEF CodeInv
    <2> QED BY <1>2, <1>3, <1>5, <2>1, IdentityAssumption DEF Rows, Clock
  <1> QED BY <1>1, <1>2, <1>3, <1>4, <1>5

LEMMA CodeStep ==
    ASSUME TypeOK, CallsInv, CodeInv, \A r \in Requests : WriteInv(r), [Next]_vars
    PROVE  CodeInv'
  <1>0. totp \in Rows
    BY DEF TypeOK
  <1>1. CASE UNCHANGED <<totp, accepted>>
    BY <1>1 DEF CodeInv, accepted
  <1>2. ASSUME NEW r \in Requests, NewSecret(r) PROVE CodeInv'
    BY <1>2 DEF NewSecret, CodeInv
  <1>3. ASSUME NEW r \in Requests, AcceptCode(r) PROVE CodeInv'
    <2> SUFFICES ASSUME ~raced' PROVE CodeInv'
      BY DEF CodeInv
    <2>1. /\ Code(r) = <<totp.secret, arg[r].step>> /\ arg[r].step \in Clock
          /\ arg[r].kind # "setup" =>
                ~raced /\ totp.enabled /\ arg[r].step > totp.last
      BY <1>3, AcceptInTurn
    <2>2. totp'.secret = totp.secret /\ totp'.last = arg[r].step
      BY <1>0, <1>3 DEF AcceptCode, Rows
    <2>3. <<totp'.secret, arg[r].step>> \in spent'
      BY <1>3, <2>1, <2>2 DEF AcceptCode
    <2>4. ASSUME NEW c \in fresh' PROVE c[1] = totp.secret /\ c[2] <= arg[r].step
      <3>1. CASE c = Code(r)
        BY <2>1, <3>1 DEF Clock
      <3>2. CASE arg[r].kind # "setup" /\ c \in fresh
        <4>1. c[1] = totp.secret /\ c[2] <= totp.last
          BY <2>1, <3>2 DEF CodeInv
        <4>2. c[2] \in Nat
          BY <3>2 DEF TypeOK, Clock
        <4> QED BY <1>0, <2>1, <3>2, <4>1, <4>2, IdentityAssumption DEF Rows, Clock
      <3> QED BY <1>3, <3>1, <3>2 DEF AcceptCode
    <2> QED BY <2>1, <2>2, <2>3, <2>4 DEF CodeInv
  <1> QED BY <1>1, <1>2, <1>3, SecretWrites

SecretInv == CodeInv /\ \A r \in Requests : WriteInv(r)

LEMMA SecretInit == Init => SecretInv
  BY DEF Init, SecretInv, CodeInv, WriteInv, NoArg

LEMMA SecretStep ==
    ASSUME TypeOK, CallsInv, SecretInv, [Next]_vars
    PROVE  SecretInv'
  BY CodeStep, WriteStep DEF SecretInv

\* TOTP counts as set up only for a secret that a code was checked against,
\* as long as requests take turns (totp.rs:14-17).
THEOREM EnabledIsProvenCorrect == Spec => []EnabledIsProven
  <1>1. Init => TypeOK /\ CallsInv /\ SecretInv
    BY TypeInit, CallsInit, SecretInit
  <1>2. TypeOK /\ CallsInv /\ SecretInv /\ [Next]_vars => TypeOK' /\ CallsInv' /\ SecretInv'
    BY TypeStep, CallsStep, SecretStep
  <1>3. SecretInv => EnabledIsProven
    BY DEF SecretInv, CodeInv, EnabledIsProven
  <1> QED BY <1>1, <1>2, <1>3, PTL DEF Spec

\* From one verified setup to the next, the login and step-up routes accept no
\* code twice, as long as requests take turns (totp.rs:150-154).
THEOREM LoginCodesOnceCorrect == Spec => LoginCodesOnce
  <1>1. Init => TypeOK /\ CallsInv /\ SecretInv
    BY TypeInit, CallsInit, SecretInit
  <1>2. TypeOK /\ CallsInv /\ SecretInv /\ [Next]_vars => TypeOK' /\ CallsInv' /\ SecretInv'
    BY TypeStep, CallsStep, SecretStep
  <1>3. TypeOK /\ CallsInv /\ SecretInv /\ [Next]_vars
          => [\A r \in Requests :
                 AcceptCode(r) /\ arg[r].kind # "setup" /\ ~raced' => Code(r) \notin fresh]_vars
    BY AcceptInTurn DEF SecretInv
  <1> QED BY <1>1, <1>2, <1>3, PTL DEF Spec, LoginCodesOnce

------------------------------------------------------------------------------
(* The promise.  A request acts for a session that was made, so a stage is *)
(* passed and a promotion happens only there.                              *)

MadeInv ==
    /\ \A r \in Requests : at[r] \in OfSession => session[of[r]].made
    /\ \A s \in Sessions : session[s].admin => session[s].made

\* A request acts for the session it acted for, or for one it begins with.
LEMMA SessionKept ==
    ASSUME TypeOK, CallsInv, [Next]_vars, NEW q \in Requests, at'[q] \in OfSession
    PROVE  \/ at[q] \in OfSession /\ of'[q] = of[q]
           \/ \E s \in Sessions : Active(s) /\ of'[q] = s
  <1> USE DEF memory, database, calls, history, accepted
  <1>0. /\ at \in [Requests -> Points]
        /\ of \in [Requests -> Sessions \union Flows \union {None}]
    BY DEF CallsInv, CallsOK
  <1> DEFINE Goal == \/ at[q] \in OfSession /\ of'[q] = of[q]
                     \/ \E s \in Sessions : Active(s) /\ of'[q] = s
  <1>1. UNCHANGED <<at, of>> => Goal
    OBVIOUS
  <1>2. ASSUME Restart PROVE Goal
    BY <1>2 DEF Restart, OfSession
  <1>3. ASSUME NEW r \in Requests, Answer(r) PROVE Goal
    BY <1>0, <1>3 DEF Answer, Move, OfSession
  <1>4. ASSUME NEW r \in Requests, NEW to, at' = [at EXCEPT ![r] = to], of' = of,
               at[r] \in OfSession \/ to \in OfFlow
        PROVE  Goal
    BY <1>0, <1>4 DEF OfSession
  <1>5. ASSUME NEW r \in Requests, NEW f \in Flows, Callback(r, f) PROVE Goal
    BY <1>0, <1>5 DEF Callback, Arrive, OfSession, OfFlow
  <1>6. ASSUME NEW r \in Requests, NEW s \in Sessions, Begin(r, s) PROVE Goal
    <2>1. PICK p : at' = [at EXCEPT ![r] = p]
      BY <1>6 DEF Begin, Arrive
    <2> QED BY <1>0, <1>6, <2>1 DEF Begin
  <1>7. ASSUME NEW r \in Requests,
               \/ FindUser(r) \/ NewUser(r) \/ MarkTotp(r) \/ MarkKey(r)
               \/ CountForStart(r) \/ TakeRegistration(r) \/ Recount(r) \/ FindKey(r)
               \/ CheckCode(r) \/ LoadKeys(r) \/ TakeAuthentication(r)
               \/ \E k \in Keys : InsertKey(r, k)
        PROVE  Goal
    <2>1. PICK to : /\ at' = [at EXCEPT ![r] = to]
                    /\ at[r] \in OfSession \/ to \in OfFlow
      BY <1>7 DEF FindUser, NewUser, MarkTotp, MarkKey, CountForStart, TakeRegistration,
                  Recount, FindKey, CheckCode, LoadKeys, TakeAuthentication, InsertKey,
                  Move, OfFlow, OfSession, Points
    <2>2. of' = of
      BY <1>7 DEF FindUser, NewUser, MarkTotp, MarkKey, CountForStart, TakeRegistration,
                  Recount, FindKey, CheckCode, LoadKeys, TakeAuthentication, InsertKey, Keep
    <2> QED BY <1>4, <2>1, <2>2
  <1>8. ASSUME NEW r \in Requests,
               \/ Refuse(r) \/ NewSecret(r) \/ Promote(r)
               \/ OpenRegistration(r) \/ OpenAuthentication(r)
               \/ \E s \in Sessions : NewSession(r, s)
               \/ \E k \in Keys : DeleteKey(r, k)
        PROVE  Goal
    <2>1. Answer(r)
      BY <1>8 DEF Refuse, NewSecret, Promote, OpenRegistration, OpenAuthentication,
                  NewSession, DeleteKey
    <2> QED BY <1>3, <2>1
  <1>9. ASSUME NEW r \in Requests, TakeFlow(r) \/ AcceptCode(r) PROVE Goal
    <2>1. CASE Answer(r)
      BY <1>3, <2>1
    <2>2. CASE ~Answer(r)
      <3>1. /\ of' = of
            /\ \E to : /\ at' = [at EXCEPT ![r] = to]
                       /\ at[r] \in OfSession \/ to \in OfFlow
        BY <1>9, <2>2 DEF TakeFlow, AcceptCode, Move, OfFlow, OfSession, Points
      <3> QED BY <1>4, <3>1
    <2> QED BY <2>1, <2>2
  <1> HIDE DEF Goal
  <1>10. ASSUME NEW r \in Requests, Step(r) PROVE Goal
    BY <1>5, <1>6, <1>7, <1>8, <1>9, <1>10 DEF Step
  <1>11. Goal
    BY <1>1, <1>2, <1>10 DEF Next, vars, Tick, BeginLogin, Logout
  <1> QED BY <1>11 DEF Goal

\* What the steps that write to a row leave of it.
LEMMA RowSteps ==
    ASSUME TypeOK, CallsInv, [Next]_vars
    PROVE  /\ \A s \in Sessions : session[s].made => session'[s].made
           /\ \A s \in Sessions : session'[s].admin =>
                \/ session[s].admin
                \/ \E r \in Requests : Promote(r) /\ of[r] = s
  <1>0. session \in [Sessions -> [made : BOOLEAN, totp : BOOLEAN, key : BOOLEAN,
                                  admin : BOOLEAN, revoked : BOOLEAN]]
    BY DEF TypeOK
  <1>1. ASSUME NEW r \in Requests, MarkTotp(r) \/ MarkKey(r)
        PROVE  \A s \in Sessions : /\ session'[s].made = session[s].made
                                   /\ session'[s].admin = session[s].admin
    BY <1>0, <1>1 DEF MarkTotp, MarkKey
  <1>2. ASSUME NEW r \in Requests, Promote(r)
        PROVE  \A s \in Sessions : /\ session'[s].made = session[s].made
                                   /\ s # of[r] => session'[s].admin = session[s].admin
    BY <1>0, <1>2 DEF Promote
  <1>3. ASSUME NEW t \in Sessions, Logout(t) \/ \E r \in Requests : NewSession(r, t)
        PROVE  \A s \in Sessions : /\ session[s].made => session'[s].made
                                   /\ session'[s].admin = session[s].admin
    BY <1>0, <1>3 DEF Logout, NewSession
  <1> QED BY <1>1, <1>2, <1>3, SessionWrites

LEMMA MadeStep ==
    ASSUME TypeOK, CallsInv, MadeInv, [Next]_vars
    PROVE  MadeInv'
  <1>1. ASSUME NEW q \in Requests, at'[q] \in OfSession PROVE session'[of'[q]].made
    <2>1. CASE at[q] \in OfSession /\ of'[q] = of[q]
      BY <2>1, SessionOf, RowSteps DEF MadeInv
    <2>2. ASSUME NEW s \in Sessions, Active(s), of'[q] = s PROVE session'[of'[q]].made
      BY <2>2, RowSteps DEF Active
    <2> QED BY <1>1, <2>1, <2>2, SessionKept
  <1>2. ASSUME NEW s \in Sessions, session'[s].admin PROVE session'[s].made
    <2>1. CASE session[s].admin
      BY <2>1, RowSteps DEF MadeInv
    <2>2. ASSUME NEW r \in Requests, Promote(r), of[r] = s PROVE session'[s].made
      BY <2>2, RowSteps DEF Promote, MadeInv, OfSession, OfFlow, Points
    <2> QED BY <1>2, <2>1, <2>2, RowSteps
  <1> QED BY <1>1, <1>2 DEF MadeInv

\* The steps that sign-in is about.
LEMMA SignInWrites ==
    ASSUME [Next]_vars
    PROVE  \/ UNCHANGED <<session, source, earned>>
           \/ \E r \in Requests :
                 \/ AcceptCode(r) \/ FindKey(r) \/ \E k \in Keys : InsertKey(r, k)
                 \/ MarkTotp(r) \/ MarkKey(r) \/ Promote(r)
           \/ \E s \in Sessions : Logout(s) \/ \E r \in Requests : NewSession(r, s)
  BY DEF Next, Step, vars, memory, database, calls, history, accepted, Tick, Restart, BeginLogin,
         Refuse, TakeFlow, FindUser, NewUser, NewSecret, CheckCode,
         CountForStart, OpenRegistration, TakeRegistration, Recount, LoadKeys,
         OpenAuthentication, TakeAuthentication, Begin, Callback, DeleteKey

\* The refinement mapping, named for the proof.
Tiers   == [s \in Sessions |-> Tier(s)]
Revoked == {s \in Sessions : session[s].revoked}

LEMMA SignInStep ==
    ASSUME TypeOK, CallsInv, EarnInv, FlowInv, MadeInv, [Next]_vars
    PROVE  [SignIn!Next]_(SignIn!vars)
  <1> USE DEF memory, database, calls, history, accepted
  <1> DEFINE Row == [made : BOOLEAN, totp : BOOLEAN, key : BOOLEAN,
                     admin : BOOLEAN, revoked : BOOLEAN]
  <1>0. /\ session \in [Sessions -> Row]
        /\ earned \in [Sessions -> SUBSET {"totp", "key"}]
        /\ source \in [Sessions -> Flows \union {None}]
    BY DEF TypeOK
  <1>1. ASSUME Tiers' = Tiers, Revoked' = Revoked, UNCHANGED <<source, earned>>
        PROVE  [SignIn!Next]_(SignIn!vars)
    BY <1>1 DEF SignIn!vars, Tiers, Revoked
  <1>2. ASSUME NEW s \in Sessions, NEW stage \in {"totp", "key"}, session[s].made,
               earned' = [earned EXCEPT ![s] = @ \union {stage}],
               UNCHANGED <<session, source>>
        PROVE  [SignIn!Next]_(SignIn!vars)
    <2>1. Tiers' = Tiers /\ Revoked' = Revoked /\ Tiers[s] # "none"
      BY <1>2 DEF Tiers, Tier, Revoked
    <2>2. SignIn!Pass(s, stage)
      BY <1>2, <2>1 DEF SignIn!Pass, Tiers, Revoked
    <2> QED BY <2>2 DEF SignIn!Next, SignIn!Stages
  <1>3. CASE UNCHANGED <<session, source, earned>>
    <2>1. Tiers' = Tiers /\ Revoked' = Revoked
      BY <1>3 DEF Tiers, Tier, Revoked
    <2> QED BY <1>1, <1>3, <2>1
  <1>4. ASSUME NEW r \in Requests,
               \/ AcceptCode(r) \/ FindKey(r) \/ \E k \in Keys : InsertKey(r, k)
        PROVE  [SignIn!Next]_(SignIn!vars)
    <2>1. of[r] \in Sessions /\ session[of[r]].made
      <3>1. at[r] \in OfSession
        BY <1>4 DEF AcceptCode, FindKey, InsertKey, OfSession, OfFlow, Points
      <3> QED BY <3>1, SessionOf DEF MadeInv
    <2>2. UNCHANGED <<session, source>>
      BY <1>4 DEF AcceptCode, FindKey, InsertKey
    <2>3. \/ UNCHANGED earned
          \/ \E stage \in {"totp", "key"} : earned' = [earned EXCEPT ![of[r]] = @ \union {stage}]
      BY <1>4 DEF AcceptCode, FindKey, InsertKey
    <2> QED BY <1>2, <1>3, <2>1, <2>2, <2>3
  <1>5. ASSUME NEW r \in Requests, MarkTotp(r) \/ MarkKey(r)
        PROVE  [SignIn!Next]_(SignIn!vars)
    <2>1. \A s \in Sessions : /\ session'[s].made = session[s].made
                              /\ session'[s].admin = session[s].admin
                              /\ session'[s].revoked = session[s].revoked
      BY <1>0, <1>5 DEF MarkTotp, MarkKey
    <2>2. Tiers' = Tiers /\ Revoked' = Revoked
      BY <2>1 DEF Tiers, Tier, Revoked
    <2>3. UNCHANGED <<source, earned>>
      BY <1>5 DEF MarkTotp, MarkKey
    <2> QED BY <1>1, <2>2, <2>3
  <1>6. ASSUME NEW r \in Requests, NEW x, x = of[r], Promote(r)
        PROVE  [SignIn!Next]_(SignIn!vars)
    <2>1. x \in Sessions /\ session[x].made
      <3>1. at[r] \in OfSession
        BY <1>6 DEF Promote, OfSession, OfFlow, Points
      <3> QED BY <1>6, <3>1, SessionOf DEF MadeInv
    <2>2. UNCHANGED <<source, earned>>
      BY <1>6 DEF Promote
    <2>3. /\ \A s \in Sessions : /\ session'[s].made = session[s].made
                                 /\ session'[s].revoked = session[s].revoked
                                 /\ s # x => session'[s].admin = session[s].admin
          /\ session'[x].admin <=> session[x].admin \/ (session[x].totp /\ session[x].key)
      BY <1>0, <1>6, <2>1 DEF Promote
    <2>4. Revoked' = Revoked
      BY <2>3 DEF Revoked
    <2>5. CASE session'[x].admin <=> session[x].admin
      <3>1. \A s \in Sessions : Tier(s)' = Tier(s)
        BY <2>3, <2>5 DEF Tier
      <3>2. Tiers' = Tiers
        BY <3>1 DEF Tiers
      <3> QED BY <1>1, <2>2, <2>4, <3>2
    <2>6. CASE ~(session'[x].admin <=> session[x].admin)
      <3>1. ~session[x].admin /\ session'[x].admin /\ session[x].totp /\ session[x].key
        BY <2>3, <2>6
      <3>2. earned[x] = {"totp", "key"}
        <4>1. "totp" \in earned[x] /\ "key" \in earned[x]
          BY <2>1, <3>1 DEF EarnInv, StageInv
        <4> QED BY <1>0, <2>1, <4>1
      <3>3. Tier(x) = "signedIn" /\ Tier(x)' = "admin"
        BY <2>1, <3>1 DEF Tier
      <3>4. \A s \in Sessions \ {x} : Tier(s)' = Tier(s)
        BY <2>3 DEF Tier
      <3>5. Tiers' = [Tiers EXCEPT ![x] = "admin"]
        BY <2>1, <3>3, <3>4 DEF Tiers
      <3>6. SignIn!Promote(x)
        BY <2>1, <2>2, <2>4, <3>2, <3>3, <3>5
        DEF SignIn!Promote, SignIn!Stages, Tiers, Revoked
      <3> QED BY <2>1, <3>6 DEF SignIn!Next
    <2> QED BY <2>5, <2>6
  <1>7. ASSUME NEW x \in Sessions, Logout(x)
        PROVE  [SignIn!Next]_(SignIn!vars)
    <2>1. session[x].made /\ ~session[x].revoked /\ UNCHANGED <<source, earned>>
      BY <1>7 DEF Logout, Active
    <2>2. /\ \A s \in Sessions : /\ session'[s].made = session[s].made
                                 /\ session'[s].admin = session[s].admin
                                 /\ s # x => session'[s].revoked = session[s].revoked
          /\ session'[x].revoked
      BY <1>0, <1>7 DEF Logout
    <2>3. Tiers' = Tiers /\ Revoked' = Revoked \union {x} /\ x \notin Revoked /\ Tiers[x] # "none"
      BY <2>1, <2>2 DEF Tiers, Tier, Revoked
    <2>4. SignIn!SignOut(x)
      BY <2>1, <2>3 DEF SignIn!SignOut, Tiers, Revoked
    <2> QED BY <2>4 DEF SignIn!Next
  <1>8. ASSUME NEW x \in Sessions, NEW r \in Requests, NewSession(r, x)
        PROVE  [SignIn!Next]_(SignIn!vars)
    <2> DEFINE f == of[r]
    <2>1. f \in Flows /\ \A t \in Sessions : source[t] # f
      BY <1>8 DEF NewSession, CallsInv, CallInv, OfFlow, FlowInv, OwnerInv, Past
    <2>2. /\ ~session[x].made /\ source' = [source EXCEPT ![x] = f] /\ UNCHANGED earned
      BY <1>8 DEF NewSession
    <2>3. ~session[x].admin
      BY <2>2 DEF MadeInv
    <2>4. /\ \A s \in Sessions : /\ s # x => session'[s].made = session[s].made
                                 /\ session'[s].admin = session[s].admin
                                 /\ session'[s].revoked = session[s].revoked
          /\ session'[x].made
      BY <1>0, <1>8 DEF NewSession
    <2> HIDE DEF f
    <2>5. Revoked' = Revoked
      BY <2>4 DEF Revoked
    <2>6. Tier(x) = "none" /\ Tier(x)' = "signedIn"
      BY <2>2, <2>3, <2>4 DEF Tier
    <2>7. \A s \in Sessions \ {x} : Tier(s)' = Tier(s)
      BY <2>4 DEF Tier
    <2>8. Tiers' = [Tiers EXCEPT ![x] = "signedIn"]
      BY <2>6, <2>7 DEF Tiers
    <2>9. SignIn!SignIn(x, f)
      BY <2>1, <2>2, <2>5, <2>6, <2>8 DEF SignIn!SignIn, Tiers, Revoked
    <2> QED BY <2>1, <2>9 DEF SignIn!Next
  <1> QED BY <1>3, <1>4, <1>5, <1>6, <1>7, <1>8, SignInWrites

\* Sign-in keeps the promise of AdminSignIn, for any number of tabs, sessions,
\* flows, devices and secrets (session.rs:95-177, oidc.rs:150-160).
THEOREM SignInRefinement == Spec => ImplementsSignIn
  <1> DEFINE Inv == TypeOK /\ CallsInv /\ EarnInv /\ FlowInv /\ MadeInv
  <1>1. Init => Inv
    <2>1. Init => EarnInv
      BY DEF Init, EarnInv, MarkInv, StageInv
    <2>2. Init => FlowInv
      BY DEF Init, FlowInv, OwnerInv, SourceInv, OneSessionPerFlow, Past
    <2>3. Init => MadeInv
      BY DEF Init, MadeInv, OfSession
    <2> QED BY <2>1, <2>2, <2>3, TypeInit, CallsInit
  <1>2. Inv /\ [Next]_vars => Inv'
    BY TypeStep, CallsStep, MarkStep, StageStep, FlowStep, MadeStep DEF EarnInv
  <1>3. Init => SignIn!Init
    BY DEF Init, SignIn!Init, Tier
  <1>4. Inv /\ [Next]_vars => [SignIn!Next]_(SignIn!vars)
    BY SignInStep
  <1> HIDE DEF Inv
  <1> QED BY <1>1, <1>2, <1>3, <1>4, PTL DEF Spec, ImplementsSignIn, SignIn!Spec
==============================================================================
