-------------------------- MODULE SearchRefinement --------------------------
(***************************************************************************)
(* SearchLoop implements SearchContract.  An iteration of the loop takes   *)
(* dozens of steps; the contract sees its first one, the move of the       *)
(* parent and its last one, and the other steps stutter.                   *)
(***************************************************************************)
EXTENDS SearchLoop

(* What the contract calls a verdict.                                      *)
OutcomeOf(verdict) ==
    CASE verdict \in Admits -> "admitted"
      [] verdict \in Scores \ Admits -> "rejected"
      [] verdict = "INFRA_FAILURE" -> "lost"
      [] OTHER -> "failed"

AbstractLog == [i \in 1..Finished |-> OutcomeOf(records[i])]

AbstractMeasured ==
    {history[n].child : n \in {m \in Measured : Over(history[m].it)}}

(* What a rollback restores of a tree when `git apply` fails.              *)
WithoutEdits(t) == IF ApplyMayFail THEN [t EXCEPT !.rtl = BaseRtl] ELSE t

Contract == INSTANCE SearchContract WITH
    Designs <- Ident,
    Trees <- Tree,
    DesignOf <- IdentOf,
    Admissible <- {t \in Tree : t.clean /\ t.cfg \in LegalConfig},
    ParamsOnly <- WithoutEdits,
    FirstTree <- BaseTree,
    Seeds <- SeedTrees,
    Length <- Iters,
    log <- AbstractLog,
    resting <- IF pc \in Resting THEN tree ELSE [busy |-> TRUE],
    current <- parentTree,
    moved <- Moved,
    measured <- AbstractMeasured,
    aborted <- pc = "aborted"

(* Every run of the loop is a run of the contract: the parent moves at     *)
(* most once in an iteration, to a legal design in scope that was never    *)
(* measured before; an iteration whose parent moved ends admitted or lost, *)
(* never rejected or failed; a rejection or a failure, after any number of *)
(* repairs, puts the parent back in the container; a raise moves no parent *)
(* and takes no move back (main() from the proposal to the last write of   *)
(* the record).                                                            *)
ImplementsContract == Contract!Spec
=============================================================================
