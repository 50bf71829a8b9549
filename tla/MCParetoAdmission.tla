------------------------- MODULE MCParetoAdmission -------------------------
(***************************************************************************)
(* A small instance of ParetoAdmission: two of the three objectives, two   *)
(* niches, and an area budget that the largest area exceeds.               *)
(***************************************************************************)
EXTENDS ParetoAdmission, TLC

MCObjective == {"t", "A"}

(* Niches are only compared with one another.                              *)
NicheSymmetry == Permutations(Niche)

MCReward == {0, 1}
=============================================================================
