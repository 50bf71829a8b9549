----------------------------- MODULE ControlArms -----------------------------
(***************************************************************************)
(* The two proposers that call no model, src/src/proposers.py, inside the  *)
(* run of SearchLoop: where that module lets a control arm write any       *)
(* state, this one has what the random and the greedy arm really choose,   *)
(* and the handshake between the greedy arm and src/src/loop.py: the loop  *)
(* notes an admission when it happens (last_admitted) and reports it when  *)
(* the next iteration starts.                                              *)
(*                                                                         *)
(* The greedy arm shuffles its levers once and the values of each lever    *)
(* whenever it rebuilds its list.  `rank` is the first shuffle; the second *)
(* is decided entry by entry, so that `todo` is a set.                     *)
(***************************************************************************)
EXTENDS SearchLoop, FiniteSets

CONSTANTS
    Lever,      \* the names in ALL_LEVERS
    Sets,       \* the fields a lever sets (_expand)
    Reads,      \* the one of them its current value is read from (_current)
    Values      \* the candidate values of a lever

ASSUME LeverAssumption ==
    /\ IsFiniteSet(Lever)
    /\ Reads \in [Lever -> Field]
    /\ Sets \in [Lever -> SUBSET Field]
    /\ \A l \in Lever : Reads[l] \in Sets[l]
    /\ Values \in [Lever -> SUBSET (0..MaxLevel)]

(* --proposer is random or greedy, so no agent proposes and none repairs.  *)
ASSUME ControlAssumption == Arm = "control"

Trial == Lever \X (0..MaxLevel)

ASSUME NoTrialAssumption == None \notin Trial

VARIABLES
    arm,            \* --proposer
    rank,           \* order: where a lever stands in the greedy walk
    incumbent,      \* the state the walk is at, None before the first proposal
    todo,           \* the trials left to make against it
    pending,        \* the trial that awaits a verdict
    exhausted,      \* no trial is left
    lastAdmitted,   \* last_admitted of main()
    (* Observed only.                                                      *)
    trials,         \* every state proposed in this run
    misled          \* of the first two iterations only the first moved the parent

walkVars == <<incumbent, todo, pending, exhausted>>
armVars == <<arm, rank, walkVars, lastAdmitted, trials, misled>>
runVars == <<vars, armVars>>

Trials(state) ==
    {e \in Trial : e[2] \in Values[e[1]] \ {state[Reads[e[1]]]}}

Mutate(state, e) ==
    [f \in Field |-> IF f \in Sets[e[1]] THEN e[2] ELSE state[f]]

(* todo.pop(0): the levers in order, the values of one in any order.       *)
Foremost(entries) ==
    {e \in entries : \A d \in entries : rank[e[1]] <= rank[d[1]]}

Rankings ==
    {r \in [Lever -> 1..Cardinality(Lever)] :
        \A k, l \in Lever : r[k] = r[l] => k = l}

ArmInit ==
    /\ Init
    /\ arm \in {"random", "greedy"}
    /\ rank \in Rankings
    /\ incumbent = None /\ todo = {} /\ pending = None /\ exhausted = FALSE
    /\ lastAdmitted = FALSE
    /\ trials = {} /\ misled = FALSE

-----------------------------------------------------------------------------
(* RandomProposer.propose: one lever of the parent, another value.         *)
RandomProposes(c) ==
    /\ arm = "random"
    /\ \E e \in Trials(parent) : c = Mutate(parent, e)
    /\ UNCHANGED walkVars

(* Fault: the walk goes on where it was instead of from the first lever.   *)
Rebuilds_NotAfterAdmission == incumbent = None

(* The list is made anew for a first incumbent and after an admission.     *)
Learns == it > 2 /\ lastAdmitted /\ pending # None

Rebuilds == incumbent = None \/ Learns

(* GreedyProposer.observe and propose, one after the other.                *)
NextIncumbent ==
    IF incumbent = None THEN parent
    ELSE IF Learns THEN Mutate(incumbent, pending)
    ELSE incumbent

GreedyProposes(c) ==
    /\ arm = "greedy"
    /\ incumbent' = NextIncumbent
    /\ LET left == IF Rebuilds THEN Trials(NextIncumbent) ELSE todo
       IN \/ \E e \in Foremost(left) :
                /\ c = Mutate(NextIncumbent, e)
                /\ pending' = e
                /\ todo' = left \ {e}
                /\ UNCHANGED exhausted
          \/ /\ left = {}
             /\ c = NextIncumbent
             /\ pending' = None
             /\ todo' = {}
             /\ exhausted' = TRUE

(* Fault: the report of an admission is not taken back.                    *)
Reported_Stays == UNCHANGED lastAdmitted

(* The loop reports from the third iteration on, and then forgets.         *)
Reported == lastAdmitted' = (lastAdmitted /\ it <= 2)

(* What either arm proposes and remembers of it.                           *)
Proposes(c) ==
    /\ RandomProposes(c) \/ GreedyProposes(c)
    /\ Reported
    /\ trials' = trials \union {c}
    /\ UNCHANGED <<arm, rank, misled>>

ArmStarts ==
    /\ Start
    /\ \/ it = 1 /\ UNCHANGED armVars
       \/ it > 1 /\ \E c \in Config : Proposes(c) /\ tree'.cfg = c

(* apply_design_state raises before, between or after its two files.       *)
ArmRaises ==
    /\ ProposerRaises
    /\ \E c \in Config : Proposes(c) /\ tree'.cfg \in {tree.cfg, c}

ArmAdmitted ==
    /\ AdoptParent
    /\ lastAdmitted' = TRUE
    /\ misled' = IF it <= 2 THEN it = 1 ELSE misled
    /\ UNCHANGED <<arm, rank, walkVars, trials>>

ArmWaits ==
    /\ \/ AbortRun \/ Evaluate \/ RecordFailure \/ RememberFailure
       \/ ScorePoint \/ Publish \/ RollBackRejected
       \/ WriteRecord \/ EndingRaises \/ ContainRaise
    /\ UNCHANGED armVars

ArmNext == ArmStarts \/ ArmRaises \/ ArmAdmitted \/ ArmWaits

ArmSpec == ArmInit /\ [][ArmNext]_runVars /\ WF_runVars(ArmNext)

-----------------------------------------------------------------------------
(***************************************************************************)
(* Properties                                                              *)
(***************************************************************************)

ArmTypeOK ==
    /\ SearchTypeOK
    /\ arm \in {"random", "greedy"}
    /\ rank \in Rankings
    /\ incumbent \in Config \union {None}
    /\ todo \subseteq Trial
    /\ pending \in Trial \union {None}
    /\ exhausted \in BOOLEAN
    /\ lastAdmitted \in BOOLEAN
    /\ trials \subseteq Config
    /\ misled \in BOOLEAN

JustProposed == pc = "scope" /\ it > 1

(* The baseline became the parent and the first trial did not: the one     *)
(* case in which the note of an admission outlives the report it was made  *)
(* for.                                                                    *)
Misled == it > 2 /\ misled

(* The greedy arm keeps its own copy of where the search is and never      *)
(* looks at the loop's again.  Whatever failed, raised, was rejected or    *)
(* cut short after an admission, the two are the same design whenever it   *)
(* proposes (proposers.py observe, loop.py last_admitted).                 *)
IncumbentIsParent ==
    JustProposed /\ arm = "greedy" /\ ~Misled => incumbent = parent

(* "Converged" means something: once the greedy arm says it is exhausted,  *)
(* every state one lever away from its incumbent was proposed, those it    *)
(* passed over before the incumbent changed included (_rebuild).           *)
ExhaustedIsLocalOptimum ==
    exhausted =>
        \A e \in Trials(incumbent) :
            Mutate(incumbent, e) \in trials

(***************************************************************************)
(* What a comment or a document says and the code does not do              *)
(***************************************************************************)

(* proposers.py: "A trial that is not admitted is abandoned" and "It never *)
(* changes two levers at once", from the design the search is at.          *)
TrialIsOneLever ==
    JustProposed /\ arm = "greedy" =>
        \/ tree.cfg = parent
        \/ \E e \in Trials(parent) : tree.cfg = Mutate(parent, e)
=============================================================================
