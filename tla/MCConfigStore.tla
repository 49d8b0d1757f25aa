---------------------------- MODULE MCConfigStore ----------------------------
\* Small instances of the configuration store for TLC.
EXTENDS ConfigStore, TLC

Plain == [seadrop |-> TRUE, delegated |-> FALSE, rpcs |-> TRUE,
          sequencer |-> FALSE, race |-> FALSE, malformed |-> FALSE]
Custom    == [Plain EXCEPT !.seadrop = FALSE]
\* Valid, but the next start panics.
Sequenced == [Plain EXCEPT !.rpcs = FALSE, !.sequencer = TRUE, !.race = TRUE]
\* Refused by validate().
Misfit    == [Plain EXCEPT !.seadrop = FALSE, !.delegated = TRUE]

SomeOptions == {Plain, Custom, Sequenced, Misfit}
PlainOnly   == {Plain}
AtOne   == [d \in Drops |-> 1]
DropSymmetry == Permutations(Drops)
==============================================================================
