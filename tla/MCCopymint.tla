----------------------------- MODULE MCCopymint ------------------------------
\* A small instance of copymint for TLC.
EXTENDS Copymint

Free == [price |-> 0, from |-> 0, to |-> 0]
Paid == [price |-> 2, from |-> 0, to |-> 1]
SomeListings == {Free, Paid}

Auto  == [tracked |-> {"w1"}, auto |-> TRUE, ceiling |-> 2, quantity |-> 1, seadropOk |-> TRUE]
Dear  == [Auto EXCEPT !.tracked = {"w2"}, !.auto = FALSE, !.quantity = 2]
Broken == [Auto EXCEPT !.seadropOk = FALSE]
SomeConfigs == {Auto, Dear, Broken}
==============================================================================
