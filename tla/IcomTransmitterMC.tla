------------------------- MODULE IcomTransmitterMC -------------------------
(* Instances of IcomTransmitter. *)
EXTENDS IcomTransmitter, TLC

Symmetry == Permutations(Call) \cup Permutations(Stop)
=============================================================================
