--------------------------- MODULE MCHypervolume ---------------------------
(***************************************************************************)
(* A small instance of Hypervolume: all three objectives, one niche.       *)
(***************************************************************************)
EXTENDS Hypervolume

MCObjective == {"t", "E", "A"}

MCNoPlan == {FALSE}
=============================================================================
