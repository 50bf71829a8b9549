---------------------------- MODULE Hypervolume ----------------------------
(***************************************************************************)
(* The figure of merit a run prints last: ParetoFront.hypervolume of       *)
(* src/src/pareto.py against the base point, next to the volume it stands  *)
(* for.                                                                    *)
(***************************************************************************)
EXTENDS ParetoAdmission, FiniteSetsExt, SequencesExt

(* The members faster than the reference, slowest first.                   *)
Slabs == SetToSortSeq({q \in front : q.obj["t"] < base.obj["t"]},
                      LAMBDA p, q : p.obj["t"] > q.obj["t"])

Depth(best, o) == Max({0, base.obj[o] - best})

(* One pass over the slabs, carrying the last time and the best energy and *)
(* area met so far.                                                        *)
AddSlab(acc, q) ==
    LET E == Min({acc.E, q.obj["E"]})
        A == Min({acc.A, q.obj["A"]})
    IN [hv |-> acc.hv + Max({0, acc.t - q.obj["t"]}) * Depth(E, "E") * Depth(A, "A"),
        t |-> q.obj["t"], E |-> E, A |-> A]

HypervolumeOfFront ==
    FoldLeft(AddSlab,
             [hv |-> 0, t |-> base.obj["t"], E |-> base.obj["E"], A |-> base.obj["A"]],
             Slabs).hv

(* The unit cells below the reference that some member of the front is at  *)
(* least as good as.                                                       *)
DominatedCells ==
    {c \in [Objective -> 0..(MaxObjective - 1)] :
        /\ \A o \in Objective : c[o] < base.obj[o]
        /\ \E q \in front : \A o \in Objective : q.obj[o] <= c[o]}

(* pareto.py says of the sum: "exact for a mutually non-dominated set".    *)
HypervolumeIsExact ==
    base # None => HypervolumeOfFront = Cardinality(DominatedCells)
=============================================================================
