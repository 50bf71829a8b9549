-------------------------- MODULE ParetoAdmission --------------------------
(***************************************************************************)
(* N60 and N62: src/src/pareto.py as src/src/loop.py calls it.             *)
(*                                                                         *)
(* Every measured design is a point with three objectives (time, energy,   *)
(* area, all to be minimised), a niche of the MAP-Elites archive and a     *)
(* reward.  The reward is a logarithm of ratios less the wall-clock cost   *)
(* of the iteration, so two points compare by it in any way whatever their *)
(* objectives: here it is any number of a set.                             *)
(*                                                                         *)
(* The Pareto front is a list in the code and a set of points here: two    *)
(* equal points stay in the list side by side and are one element of the   *)
(* set, which no operation below tells apart.                              *)
(***************************************************************************)
EXTENDS Integers

CONSTANTS
    Objective,      \* {"t", "E", "A"}
    MaxObjective,   \* bound of the measured values
    Niche,          \* values of descriptor()
    Reward,         \* rewards a point may get, scaled to integers
    AreaBudget,     \* area_budget
    Tau0,           \* TAU_0 in units of Reward
    Iters,          \* the budget passed to admit()
    Plan,           \* whether callers pass a plan_id: a subset of BOOLEAN
    None

(* The objectives and the niche of a point, and whether its scratchpad is  *)
(* within the SRAM budget.                                                 *)
Point == [obj: [Objective -> 0..MaxObjective], niche: Niche, fits: BOOLEAN]

ASSUME ParetoAssumption ==
    /\ "A" \in Objective
    /\ MaxObjective \in Nat /\ AreaBudget \in Nat /\ Tau0 \in Nat
    /\ Reward \subseteq Int /\ 0 \in Reward
    /\ Iters \in Nat \ {0}
    /\ Plan \subseteq BOOLEAN
    /\ None \notin Point \union Reward

VARIABLES
    it,             \* the iteration
    base,           \* base_point
    parentReward,   \* parent_reward
    front,          \* ParetoFront.points
    cells,          \* Archive.cells
    scores,         \* Archive.scores
    verdict,        \* what N60 said of the last measured point
    (* Observed only.                                                      *)
    offered         \* the points scored so far, with their rewards

vars == <<it, base, parentReward, front, cells, scores, verdict, offered>>

-----------------------------------------------------------------------------
(***************************************************************************)
(* The pure parts                                                          *)
(***************************************************************************)

(* No worse on every objective, strictly better on one.                    *)
Dominates(p, q) ==
    /\ \A o \in Objective : p.obj[o] <= q.obj[o]
    /\ \E o \in Objective : p.obj[o] < q.obj[o]

(* feasible(): the SRAM and the area budget.  The loop leaves verification *)
(* and accuracy at their defaults, which pass.                             *)
Feasible(p) == p.fits /\ p.obj["A"] <= AreaBudget

Refused(p) == \E q \in front : Dominates(q, p)

(* Fault: the members p dominates stay.                                    *)
WithPoint_KeepsAll(p) == front \union {p}

(* Fault: p displaces what it ties with or beats on time.                  *)
WithPoint_DropsSlower(p) == {q \in front : q.obj["t"] < p.obj["t"]} \union {p}

(* ParetoFront.admit of a point that is not refused.                       *)
WithPoint(p) == {q \in front : ~Dominates(p, q)} \union {p}

(* Fault: a tie with the niche's best goes to the newcomer, as does less.  *)
NicheTakes_Any(p, r) == TRUE

(* Archive.offer returns True.                                             *)
NicheTakes(p, r) == cells[p.niche] # None => r > scores[p.niche]

Offer(p, r) ==
    IF NicheTakes(p, r)
    THEN /\ cells' = [cells EXCEPT ![p.niche] = p]
         /\ scores' = [scores EXCEPT ![p.niche] = r]
    ELSE UNCHANGED <<cells, scores>>

(* The stepping-stone tolerance, annealed to 0 over the budget.            *)
Tau == (Tau0 * (Iters - it)) \div Iters

Admits == {"ADMIT_FRONT", "ADMIT_ARCHIVE", "ADMIT_STEP"}

-----------------------------------------------------------------------------
(***************************************************************************)
(* Scoring one measured design                                             *)
(***************************************************************************)

Init ==
    /\ it = 1
    /\ base = None /\ parentReward = 0
    /\ front = {}
    /\ cells = [d \in Niche |-> None] /\ scores = [d \in Niche |-> None]
    /\ verdict = None
    /\ offered = {}

(* Fault: the iteration after the last one is scored as well.              *)
Says_OneMore(v, r) ==
    /\ it <= Iters + 1
    /\ it' = it + 1
    /\ verdict' = v
    /\ parentReward' = IF v \in Admits THEN r ELSE parentReward

(* N60 says v of a point; the loop moves there if it is admitted.          *)
Says(v, r) ==
    /\ it <= Iters
    /\ it' = it + 1
    /\ verdict' = v
    /\ parentReward' = IF v \in Admits THEN r ELSE parentReward

(* An iteration that measures nothing.                                     *)
NotMeasured ==
    /\ it <= Iters
    /\ it' = it + 1
    /\ UNCHANGED <<base, parentReward, front, cells, scores, verdict,
                   offered>>

(* The first measured point is the reference, and is put into the front    *)
(* and the archive with reward 0 whether or not it is feasible.            *)
ScoreBase(p) ==
    /\ base = None
    /\ base' = p
    /\ front' = WithPoint(p)
    /\ Offer(p, 0)
    /\ offered' = offered \union {[point |-> p, reward |-> 0]}
    /\ Says("ADMIT_FRONT", 0)

Infeasible(p, r) ==
    /\ base # None
    /\ ~Feasible(p)
    /\ Says("INFEASIBLE", r)
    /\ UNCHANGED <<base, front, cells, scores, offered>>

AdmitFront(p, r) ==
    /\ base # None
    /\ Feasible(p)
    /\ ~Refused(p)
    /\ front' = WithPoint(p)
    /\ Offer(p, r)
    /\ offered' = offered \union {[point |-> p, reward |-> r]}
    /\ Says("ADMIT_FRONT", r)
    /\ UNCHANGED base

AdmitArchive(p, r) ==
    /\ base # None
    /\ Feasible(p)
    /\ Refused(p) /\ NicheTakes(p, r)
    /\ Offer(p, r)
    /\ offered' = offered \union {[point |-> p, reward |-> r]}
    /\ Says("ADMIT_ARCHIVE", r)
    /\ UNCHANGED <<base, front>>

(* A point that neither the front nor its niche takes: with a plan and a   *)
(* reward within the tolerance a stepping stone, else rejected.            *)
StepOrReject(p, r, plan) ==
    /\ base # None
    /\ Feasible(p)
    /\ Refused(p) /\ ~NicheTakes(p, r)
    /\ offered' = offered \union {[point |-> p, reward |-> r]}
    /\ \/ plan /\ r >= parentReward - Tau /\ Says("ADMIT_STEP", r)
       \/ ~(plan /\ r >= parentReward - Tau) /\ Says("REJECT", r)
    /\ UNCHANGED <<base, front, cells, scores>>

Next ==
    \/ NotMeasured
    \/ \E p \in Point : ScoreBase(p)
    \/ \E p \in Point, r \in Reward :
          \/ Infeasible(p, r)
          \/ AdmitFront(p, r)
          \/ AdmitArchive(p, r)
          \/ \E plan \in Plan : StepOrReject(p, r, plan)

Spec == Init /\ [][Next]_vars

-----------------------------------------------------------------------------
(***************************************************************************)
(* Properties                                                              *)
(***************************************************************************)

(* Every variable has its type.                                            *)
ParetoTypeOK ==
    /\ it \in 1..(Iters + 1)
    /\ base \in Point \union {None}
    /\ parentReward \in Reward
    /\ front \subseteq Point
    /\ cells \in [Niche -> Point \union {None}]
    /\ scores \in [Niche -> Reward \union {None}]
    /\ verdict \in Admits \union {"REJECT", "INFEASIBLE", None}
    /\ offered \subseteq [point: Point, reward: Reward]

(* The front is mutually non-dominated, whatever order the points came in  *)
(* (ParetoFront.admit).                                                    *)
FrontIsAntichain == \A p, q \in front : ~Dominates(p, q)

(* No improvement is ever lost: a point that was scored is in the front or *)
(* a member of the front strictly dominates it, also when the member that  *)
(* displaced it was itself displaced since.                                *)
FrontCoversOffered ==
    \A o \in offered :
        o.point \in front \/ \E q \in front : Dominates(q, o.point)

(* Nothing enters the front or the archive without having been scored, and *)
(* a niche holds the best reward ever scored in it, a design taken by the  *)
(* front and a base point scored at 0 included (Archive.offer and the two  *)
(* branches that call it).                                                 *)
ArchiveHoldsBest ==
    /\ front \subseteq {o.point : o \in offered}
    /\ \A d \in Niche :
          IF cells[d] = None
          THEN \A o \in offered : o.point.niche # d
          ELSE /\ [point |-> cells[d], reward |-> scores[d]] \in offered
               /\ cells[d].niche = d
               /\ \A o \in offered : o.point.niche = d => o.reward <= scores[d]
=============================================================================
