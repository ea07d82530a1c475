------------------------- MODULE FlexTransmitterMC -------------------------
(* FlexTransmitter on small instances: one or two calls and a stop. *)
EXTENDS FlexTransmitter, TLC

\* Framed messages and HALT: the instance the liveness of calls is checked on.
FramedInit ==
    /\ Init
    /\ \A c \in Call : kind[c] = "framed"
    /\ \A s \in Stop : kind[s] = "halt"

FramedFairSpec ==
    /\ FramedInit /\ [][Next]_vars
    /\ Fairness

Symmetry == Permutations(Call) \cup Permutations(Stop)
=============================================================================
