--------------------------- MODULE SearchContract ---------------------------
(***************************************************************************)
(* What a search run promises, without its gates, repairs and raises.      *)
(*                                                                         *)
(* A run is at rest or in an iteration.  In an iteration the parent may    *)
(* move once, to a design never measured before.  Then it ends in one of   *)
(* four ways, and its outcome is written to the log:                       *)
(*                                                                         *)
(*   admitted  the parent moved, and the container is left holding exactly *)
(*             it;                                                         *)
(*   rejected  a new design was measured; the parent is back               *)
(*   failed    nothing was measured; the parent is back                    *)
(*   lost      something outside the design broke, before the parent moved *)
(*             or after: the move stands, if there was one, and the        *)
(*             container holds whatever was left in it                     *)
(*                                                                         *)
(* SearchRefinement shows that SearchLoop implements this.                 *)
(***************************************************************************)
EXTENDS Integers, Sequences

CONSTANTS
    Designs,            \* identities
    Trees,              \* what the container may hold
    DesignOf(_),        \* the identity of a tree
    Admissible,         \* the trees that may become the parent
    ParamsOnly(_),      \* a tree with its RTL edits lost
    FirstTree,          \* the pinned commit
    Seeds,              \* what else the container may hold to start with
    Length              \* iterations of a run

VARIABLES
    log,        \* the outcomes of the iterations that are over
    resting,    \* the container at rest, else NotResting
    current,    \* the parent's tree
    moved,      \* it is the design of the running iteration
    measured,   \* the identities measured in iterations that are over
    aborted     \* stopped because an immutable input changed

contractVars == <<log, resting, current, moved, measured, aborted>>

NotResting == [busy |-> TRUE]

Init ==
    /\ log = <<>>
    /\ resting \in {FirstTree} \union Seeds /\ current = FirstTree
    /\ moved = FALSE
    /\ measured = {}
    /\ aborted = FALSE

Begin ==
    /\ resting # NotResting /\ Len(log) < Length /\ ~aborted
    /\ resting' = NotResting
    /\ UNCHANGED <<log, current, moved, measured, aborted>>

Move ==
    /\ resting = NotResting /\ ~aborted
    /\ ~moved /\ moved' = TRUE
    /\ current' \in {t \in Admissible : DesignOf(t) \notin measured}
    /\ UNCHANGED <<log, resting, measured, aborted>>

(* The parent's tree, or if its diff does not apply, its parameters alone. *)
RestsAtParent == resting' \in {current, ParamsOnly(current)}

MeasuresParent == measured' = measured \union {DesignOf(current)}

MeasuresOne == \E d \in Designs \ measured : measured' = measured \union {d}

Admitted ==
    /\ moved
    /\ MeasuresParent
    /\ resting' = current
    /\ log' = Append(log, "admitted")

Rejected ==
    /\ ~moved
    /\ MeasuresOne
    /\ RestsAtParent
    /\ log' = Append(log, "rejected")

Failed ==
    /\ ~moved
    /\ RestsAtParent
    /\ log' = Append(log, "failed")
    /\ UNCHANGED measured

Lost ==
    /\ \/ moved /\ MeasuresParent
       \/ ~moved /\ (UNCHANGED measured \/ MeasuresOne)
    /\ resting' \in Trees
    /\ log' = Append(log, "lost")

Finish ==
    /\ resting = NotResting /\ ~aborted
    /\ Admitted \/ Rejected \/ Failed \/ Lost
    /\ moved' = FALSE
    /\ UNCHANGED <<current, aborted>>

(* At the start of an iteration or in the middle of one.                   *)
Abort ==
    /\ Len(log) < Length /\ ~aborted /\ ~moved
    /\ aborted' = TRUE
    /\ resting' = NotResting
    /\ UNCHANGED <<log, current, moved, measured>>

Next == Begin \/ Move \/ Finish \/ Abort

Spec == Init /\ [][Next]_contractVars
=============================================================================
