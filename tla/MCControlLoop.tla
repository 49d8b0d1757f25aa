---------------------------- MODULE MCControlLoop ----------------------------
\* Small instances of the control loop for TLC.
EXTENDS ControlLoop, TLC

Poll == [mode |-> "poll_state", ts |-> FALSE, gate |-> FALSE,
         seadrop |-> TRUE, rpcs |-> TRUE, quantity |-> 1]
Clock == [Poll EXCEPT !.mode = "timestamp", !.ts = TRUE, !.gate = TRUE]
NoRpcs == [Poll EXCEPT !.rpcs = FALSE]

BothModes == {Poll, Clock}
AnyConfig == {Poll, Clock, NoRpcs}
PollOnly  == {Poll}
Emptied   == {Poll, NoRpcs}

AllKinds  == CommandKinds \union MintKinds
\* Without retargeting and copymint one drop is enough.
SessionKinds == {"Arm", "Disarm", "FireNow"}

TargetSymmetry == Permutations(Targets)
==============================================================================
