---------------------------- MODULE MintSession ------------------------------
(***************************************************************************)
(* What the control loop promises the operator, without channel, tasks,    *)
(* signing or nonces: one fire sequence at a time, each at the target of   *)
(* the moment, during which nothing is armed, disarmed or retargeted, and  *)
(* after which the bot is disarmed.                                        *)
(***************************************************************************)
EXTENDS Sequences

CONSTANT Targets

VARIABLES
    armed,      \* a watcher may fire
    firing,     \* a fire sequence is running
    nft,        \* the target
    broadcasts  \* the targets of the batches sent so far

vars == <<armed, firing, nft, broadcasts>>

Init ==
    /\ armed = FALSE
    /\ firing = FALSE
    /\ nft \in Targets
    /\ broadcasts = <<>>

Arm ==
    /\ ~armed /\ ~firing
    /\ armed' = TRUE
    /\ UNCHANGED <<firing, nft, broadcasts>>

Disarm ==
    /\ ~firing
    /\ armed' = FALSE
    /\ UNCHANGED <<firing, nft, broadcasts>>

Retarget ==
    /\ ~firing
    /\ armed' = FALSE
    /\ nft' \in Targets
    /\ UNCHANGED <<firing, broadcasts>>

\* Signing may fail, and then nothing is sent.
Fire ==
    /\ ~firing
    /\ firing' = TRUE
    /\ broadcasts' \in {broadcasts, Append(broadcasts, nft)}
    /\ UNCHANGED <<armed, nft>>

EndFire ==
    /\ firing
    /\ firing' = FALSE
    /\ armed' = FALSE
    /\ UNCHANGED <<nft, broadcasts>>

Next == Arm \/ Disarm \/ Retarget \/ Fire \/ EndFire

Spec == Init /\ [][Next]_vars
==============================================================================
