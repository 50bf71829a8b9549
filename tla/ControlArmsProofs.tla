-------------------------- MODULE ControlArmsProofs --------------------------
(***************************************************************************)
(* The greedy walk of ControlArms, for every set of levers and values, and *)
(* whatever the rest of the run does to its proposals: first the walk on   *)
(* its own, then its handshake with the run, over the invariant of         *)
(* SearchLoopProofs.                                                       *)
(***************************************************************************)
EXTENDS ControlArms, SearchLoopProofs

(* Every trial against the incumbent is still on the list or was made, and *)
(* an exhausted walk awaits nothing that could move it.                    *)
WalkInv ==
    /\ incumbent # None =>
          \A e \in Trials(incumbent) : e \in todo \/ Mutate(incumbent, e) \in trials
    /\ exhausted => incumbent # None /\ todo = {} /\ pending = None

LEMMA WalkInit == ArmInit => WalkInv
BY DEF ArmInit, WalkInv

(* A state is never None: the incumbent is one from the first proposal on. *)
LEMMA StatesAreNotNone ==
    /\ \A state, e : Mutate(state, e) \in Config => Mutate(state, e) # None
    /\ Config \cap {None} = {}
BY NoneAssumption

(* A proposal keeps the walk: what it takes off the list, it makes.        *)
LEMMA ProposalKeepsWalk ==
    ASSUME WalkInv, NEW c \in Config, Proposes(c)
    PROVE  WalkInv'
<1>1. CASE RandomProposes(c)
  <2>1. UNCHANGED walkVars /\ trials \subseteq trials'
    BY <1>1 DEF RandomProposes, Proposes
  <2> QED
    BY <2>1 DEF WalkInv, walkVars, Trials, Mutate
<1>2. CASE GreedyProposes(c)
  <2> DEFINE left == IF Rebuilds THEN Trials(NextIncumbent) ELSE todo
  <2>1. /\ incumbent' = NextIncumbent
        /\ trials' = trials \union {c}
    BY <1>2 DEF GreedyProposes, Proposes
  <2>2. \A e \in Trials(NextIncumbent) :
            e \in left \/ Mutate(NextIncumbent, e) \in trials
    <3>1. CASE Rebuilds
      BY <3>1
    <3>2. CASE ~Rebuilds
      <4>1. incumbent # None /\ NextIncumbent = incumbent /\ left = todo
        BY <3>2 DEF Rebuilds, NextIncumbent
      <4> QED
        BY <4>1 DEF WalkInv
    <3> QED
      BY <3>1, <3>2
  <2>3. CASE \E e \in Foremost(left) :
                /\ c = Mutate(NextIncumbent, e)
                /\ pending' = e /\ todo' = left \ {e}
                /\ UNCHANGED exhausted
    <3>1. PICK e \in Foremost(left) :
                /\ c = Mutate(NextIncumbent, e)
                /\ pending' = e /\ todo' = left \ {e}
                /\ UNCHANGED exhausted
      BY <2>3
    <3>2. e \in left
      BY DEF Foremost
    <3>3. ~exhausted
      BY <3>2 DEF WalkInv, Rebuilds, Learns
    <3>4. \A d \in Trials(incumbent') :
              d \in todo' \/ Mutate(incumbent', d) \in trials'
      BY <2>1, <2>2, <3>1
    <3> QED
      BY <3>1, <3>3, <3>4 DEF WalkInv, Trials, Mutate
  <2>4. CASE /\ left = {} /\ c = NextIncumbent
             /\ pending' = None /\ todo' = {} /\ exhausted' = TRUE
    <3>1. \A d \in Trials(incumbent') : Mutate(incumbent', d) \in trials'
      BY <2>1, <2>2, <2>4
    <3>2. incumbent' # None
      BY <2>1, <2>4, StatesAreNotNone
    <3> QED
      BY <2>4, <3>1, <3>2 DEF WalkInv, Trials, Mutate
  <2> QED
    BY <1>2, <2>3, <2>4 DEF GreedyProposes
<1> QED
  BY <1>1, <1>2 DEF Proposes

LEMMA WalkStep == WalkInv /\ [ArmNext]_runVars => WalkInv'
<1> SUFFICES ASSUME WalkInv, [ArmNext]_runVars
             PROVE  WalkInv'
  OBVIOUS
<1>1. CASE UNCHANGED <<walkVars, trials>>
  BY <1>1 DEF WalkInv, walkVars, Trials, Mutate
<1>2. CASE \E c \in Config : Proposes(c)
  BY <1>2, ProposalKeepsWalk
<1>3. CASE ArmStarts
  <2>1. CASE it = 1 /\ UNCHANGED armVars
    BY <2>1, <1>1 DEF armVars
  <2>2. CASE it > 1 /\ \E c \in Config : Proposes(c) /\ tree'.cfg = c
    BY <2>2, <1>2
  <2> QED
    BY <1>3, <2>1, <2>2 DEF ArmStarts
<1>4. CASE ArmRaises
  BY <1>4, <1>2 DEF ArmRaises
<1>5. CASE ArmAdmitted
  BY <1>5, <1>1 DEF ArmAdmitted
<1>6. CASE ArmWaits
  BY <1>6, <1>1 DEF ArmWaits, armVars
<1>7. CASE UNCHANGED runVars
  BY <1>7, <1>1 DEF runVars, armVars
<1> QED
  BY <1>3, <1>4, <1>5, <1>6, <1>7 DEF ArmNext

(* When the greedy arm says it is exhausted, every state one lever away    *)
(* from its incumbent was proposed (GreedyProposer._rebuild, propose).     *)
THEOREM ExhaustedMeansTried == ArmSpec => []ExhaustedIsLocalOptimum
<1>1. WalkInv => ExhaustedIsLocalOptimum
  BY DEF WalkInv, ExhaustedIsLocalOptimum
<1> QED
  BY WalkInit, WalkStep, <1>1, PTL DEF ArmSpec

-----------------------------------------------------------------------------
(***************************************************************************)
(* The arms run inside SearchLoop                                          *)
(***************************************************************************)

LEMMA ArmStepsAreSteps == [ArmNext]_runVars => [Next]_vars
BY DEF ArmNext, ArmStarts, ArmRaises, ArmAdmitted, ArmWaits, Next, runVars

(* What holds of a run holds of a run with a control arm.                  *)
LEMMA ArmRunCorrect == ArmSpec => []RunInv
<1>1. ArmInit => RunInv
  BY RunInvInit DEF ArmInit
<1>2. RunInv /\ [ArmNext]_runVars => RunInv'
  BY RunInvStep, ArmStepsAreSteps
<1> QED
  BY <1>1, <1>2, PTL DEF ArmSpec

(* A step proposes, moves the parent or leaves the arm alone.              *)
ArmRests == UNCHANGED armVars

LEMMA ArmSteps ==
    ASSUME SearchTypeOK, [ArmNext]_runVars
    PROVE  \/ Begins /\ it = 1 /\ ArmRests
           \/ Begins /\ it > 1 /\ \E c \in Config :
                 /\ Proposes(c)
                 /\ pc' = "raised" \/ tree'.cfg = c
           \/ ArmAdmitted
           \/ Ends /\ ArmRests
           \/ Within /\ ~AdoptParent /\ ~Begins /\ ArmRests
           \/ UNCHANGED runVars
<1>1. CASE ArmStarts
  BY <1>1 DEF ArmStarts, Begins, ArmRests
<1>2. CASE ArmRaises
  BY <1>2 DEF ArmRaises, ProposerRaises, Begins
<1>3. CASE ArmAdmitted
  BY <1>3
<1>4. CASE ArmWaits
  <2>1. CASE WriteRecord \/ ContainRaise
    BY <1>4, <2>1 DEF ArmWaits, ArmRests, Ends
  <2>2. CASE Evaluate
    BY <1>4, <2>2, BeginLeaves, EvaluateLeaves
       DEF ArmWaits, ArmRests, Within, Inside, AdoptParent, SearchTypeOK, InRounds, Gates
  <2>3. CASE AbortRun
    BY <1>4, <2>3, BeginLeaves
       DEF ArmWaits, ArmRests, Within, Inside, AbortRun, AdoptParent
  <2>4. CASE RecordFailure \/ RememberFailure \/ ScorePoint \/ Publish
                \/ RollBackRejected \/ EndingRaises
    <3>1. Within
      BY <2>4 DEF Within, Inside
    <3>2. ~Begins
      BY <2>4, BeginLeaves DEF RecordFailure, RememberFailure, ScorePoint, Publish,
         RollBackRejected, EndingRaises
    <3>3. ~AdoptParent
      BY <2>4 DEF AdoptParent, RecordFailure, RememberFailure, ScorePoint, Publish,
         RollBackRejected, EndingRaises
    <3> QED
      BY <1>4, <3>1, <3>2, <3>3 DEF ArmWaits, ArmRests
  <2> QED
    BY <1>4, <2>1, <2>2, <2>3, <2>4 DEF ArmWaits
<1> QED
  BY <1>1, <1>2, <1>3, <1>4 DEF ArmNext

-----------------------------------------------------------------------------
(***************************************************************************)
(* Type correctness                                                        *)
(***************************************************************************)

LEMMA MutateType ==
    ASSUME NEW state \in Config, NEW e \in Trial
    PROVE  Mutate(state, e) \in Config
BY DEF Mutate, Trial, Config

LEMMA TrialsType == \A state : Trials(state) \subseteq Trial
BY DEF Trials

LEMMA NextIncumbentType ==
    ASSUME ArmTypeOK
    PROVE  NextIncumbent \in Config
<1>1. parent \in Config
  BY DEF ArmTypeOK, SearchTypeOK, IterationTypeOK
<1>2. CASE incumbent # None /\ Learns
  BY <1>2, MutateType DEF ArmTypeOK, Learns, NextIncumbent
<1>3. CASE ~(incumbent # None /\ Learns)
  BY <1>1, <1>3 DEF ArmTypeOK, NextIncumbent
<1> QED
  BY <1>2, <1>3

LEMMA ProposesType ==
    ASSUME ArmTypeOK, NEW c \in Config, Proposes(c)
    PROVE  /\ incumbent' \in Config \union {None} /\ todo' \subseteq Trial
           /\ pending' \in Trial \union {None} /\ exhausted' \in BOOLEAN
           /\ lastAdmitted' \in BOOLEAN /\ trials' \subseteq Config
           /\ arm' = arm /\ rank' = rank /\ misled' = misled
<1>1. CASE RandomProposes(c)
  BY <1>1 DEF RandomProposes, walkVars, Proposes, Reported, ArmTypeOK
<1>2. CASE GreedyProposes(c)
  <2> DEFINE left == IF Rebuilds THEN Trials(NextIncumbent) ELSE todo
  <2>1. left \subseteq Trial
    BY TrialsType DEF ArmTypeOK
  <2>2. incumbent' \in Config
    BY <1>2, NextIncumbentType DEF GreedyProposes
  <2>3. /\ todo' \subseteq Trial /\ pending' \in Trial \union {None}
        /\ exhausted' \in BOOLEAN
    <3>1. CASE \E e \in Foremost(left) :
                  pending' = e /\ todo' = left \ {e} /\ UNCHANGED exhausted
      BY <2>1, <3>1 DEF Foremost, ArmTypeOK
    <3>2. CASE pending' = None /\ todo' = {} /\ exhausted' = TRUE
      BY <3>2
    <3> QED
      BY <1>2, <3>1, <3>2 DEF GreedyProposes
  <2> QED
    BY <2>2, <2>3 DEF Proposes, Reported, ArmTypeOK
<1> QED
  BY <1>1, <1>2 DEF Proposes

LEMMA ArmTypeInit == ArmInit => ArmTypeOK
BY RunInvInit DEF ArmInit, ArmTypeOK, RunInv

LEMMA ArmTypeStep ==
    ASSUME ArmTypeOK, SearchTypeOK', [ArmNext]_runVars
    PROVE  ArmTypeOK'
<1>1. CASE ArmRests
  BY <1>1 DEF ArmRests, armVars, walkVars, ArmTypeOK
<1>2. CASE \E c \in Config : Proposes(c)
  BY <1>2, ProposesType DEF ArmTypeOK
<1>3. CASE ArmAdmitted
  BY <1>3 DEF ArmAdmitted, walkVars, ArmTypeOK
<1>4. CASE UNCHANGED runVars
  BY <1>1, <1>4 DEF runVars, ArmRests
<1> QED
  BY <1>1, <1>2, <1>3, <1>4, ArmSteps DEF ArmTypeOK

(* Every variable of a control arm keeps its type, and with it those of    *)
(* the run around it.                                                      *)
THEOREM ArmTypeCorrect == ArmSpec => []ArmTypeOK
<1>1. RunInv => SearchTypeOK
  BY DEF RunInv
<1> QED
  BY <1>1, ArmTypeInit, ArmTypeStep, ArmRunCorrect, PTL DEF ArmSpec

-----------------------------------------------------------------------------
(***************************************************************************)
(* The handshake between the greedy arm and the loop                       *)
(***************************************************************************)

(* In an iteration that has been proposed and has not ended.               *)
InFlight == pc \notin Resting \union {"aborted"}

(* The state the greedy arm's last proposal wrote.                         *)
LastTrial == IF pending = None THEN incumbent ELSE Mutate(incumbent, pending)

(* The note of an admission is taken back by the next report, which the    *)
(* second iteration does not make.                                         *)
NoteInv ==
    /\ Moved => lastAdmitted
    /\ it = 1 => incumbent = None /\ (lastAdmitted => misled)
    /\ it = 2 /\ pc = "start" => incumbent = None
    /\ it = 2 /\ pc # "done" /\ ~Moved => (lastAdmitted => misled)
    /\ it > 2 /\ InFlight /\ ~Moved => ~lastAdmitted

(* While a trial is judged, the incumbent is the parent and the tree holds *)
(* the trial; afterwards the note says which of the two the parent is.     *)
HandshakeInv ==
    arm = "greedy" /\ ~Misled =>
        /\ it > 1 /\ InFlight =>
              /\ parent = IF Moved THEN LastTrial ELSE incumbent
              /\ pc \notin {"raised", "remember", "record"} => tree.cfg = LastTrial
        /\ it > 2 /\ pc = "start" =>
              parent = IF lastAdmitted THEN LastTrial ELSE incumbent

LEMMA HandshakeInit == ArmInit => NoteInv /\ HandshakeInv
BY DEF ArmInit, Init, NoteInv, HandshakeInv, InFlight, Resting, Moved

(* A control arm's design is never repaired.                               *)
LEMMA NothingIsRepaired ==
    ASSUME RunInv, Evaluate
    PROVE  UNCHANGED tree
<1>1. pc # "repair"
  <2>1. pc \in InRounds => LadderInv
    BY DEF RunInv, RoundInv
  <2>2. attempts \in Nat
    BY DEF RunInv, SearchTypeOK, IterationTypeOK
  <2> QED
    BY <2>1, <2>2, ControlAssumption DEF LadderInv, MutationSoFar, InRounds
<1>2. CASE Ladder
  BY <1>2, LadderLeaves
<1>3. CASE GiveUp \/ OpenRepair \/ RaiseOut
  BY <1>3 DEF GiveUp, OpenRepair, RaiseOut
<1> QED
  BY <1>1, <1>2, <1>3 DEF Evaluate, EvaluateAndRepair, Ladder, RepairTurn

(* What became of the first two iterations is settled when they are over.  *)
LEMMA MisledIsSettled ==
    ASSUME RunInv, RunInv', Within \/ Ends,
           misled' = misled \/ (it > 2 /\ ArmAdmitted), Misled
    PROVE  Misled'
<1>1. it > 2 /\ it \in Nat /\ it' \in Nat
  BY SearchAssumption DEF RunInv, SearchTypeOK, Misled
<1>2. it' = it \/ it' = it + 1
  BY <1>1, WithinLeaves, EndsLeave DEF RunInv, EndIteration
<1>3. misled'
  <2>1. ~(it <= 2)
    BY <1>1
  <2>2. misled' = misled
    BY <2>1 DEF ArmAdmitted
  <2> QED
    BY <2>2, Zenon DEF Misled
<1> QED
  BY <1>1, <1>2, <1>3 DEF Misled

(* At rest and when an iteration starts no parent has moved in it.         *)
LEMMA MovesInFlight ==
    ASSUME RunInv, Moved
    PROVE  pc \in {"record", "raised"}
BY DEF RunInv, ScoreInv, MoveInv, Moved

(* A proposal is made from the parent, and is what the tree then holds.    *)
LEMMA ProposalMeets ==
    ASSUME RunInv, RunInv', ArmTypeOK, NoteInv, HandshakeInv, Begins, it > 1,
           NEW c \in Config, Proposes(c), pc' = "raised" \/ tree'.cfg = c
    PROVE  NoteInv' /\ HandshakeInv'
<1>1. /\ pc = "start" /\ pc' \in {"scope", "raised"}
      /\ UNCHANGED <<it, parent>>
  BY BeginLeaves
<1>2. NoteInv'
  <2>1. it \in Nat /\ ~Moved /\ ~Moved'
    BY <1>1, MovesInFlight, OnlyAdoptMoves, SearchAssumption
       DEF Within, Inside, AdoptParent, RunInv, SearchTypeOK
  <2>2. lastAdmitted' <=> lastAdmitted /\ it <= 2
    BY Zenon DEF Proposes, Reported
  <2>3. UNCHANGED misled
    BY DEF Proposes
  <2> QED
    BY <1>1, <2>1, <2>2, <2>3 DEF NoteInv
<1>3. Misled' = Misled /\ arm' = arm
  BY <1>1 DEF Misled, Proposes
<1>4. ASSUME arm = "greedy", ~Misled
      PROVE  incumbent' = parent /\ c = LastTrial'
  <2>1. GreedyProposes(c)
    BY <1>4 DEF Proposes, RandomProposes
  <2>2. NextIncumbent = parent
    <3>1. CASE it = 2
      BY <1>1, <3>1 DEF NoteInv, NextIncumbent
    <3>2. CASE it > 2
      BY <1>1, <1>4, <3>2 DEF HandshakeInv, NextIncumbent, Learns, LastTrial
    <3> QED
      BY <3>1, <3>2, SearchAssumption DEF RunInv, SearchTypeOK
  <2>3. CASE \E e \in Trial : c = Mutate(NextIncumbent, e) /\ pending' = e
    BY <2>1, <2>2, <2>3, NoTrialAssumption DEF GreedyProposes, LastTrial, Mutate
  <2>4. CASE c = NextIncumbent /\ pending' = None
    BY <2>1, <2>2, <2>4 DEF GreedyProposes, LastTrial
  <2>5. \A l : Foremost(l) \subseteq l
    BY DEF Foremost
  <2>6. (IF Rebuilds THEN Trials(NextIncumbent) ELSE todo) \subseteq Trial
    BY TrialsType DEF ArmTypeOK
  <2> QED
    BY <2>1, <2>3, <2>4, <2>5, <2>6 DEF GreedyProposes
<1>5. ~Moved'
  BY <1>1, MovesInFlight, OnlyAdoptMoves DEF Within, Inside, AdoptParent
<1> QED
  BY <1>1, <1>2, <1>3, <1>4, <1>5 DEF HandshakeInv

(* The steps of an iteration that leave the arm alone leave its trial in   *)
(* the tree until the iteration fails, raises or is decided.               *)
LEMMA WithinMeets ==
    ASSUME RunInv, RunInv', NoteInv, HandshakeInv,
           Within, ~AdoptParent, ArmRests, it = 1 \/ ~Begins
    PROVE  NoteInv' /\ HandshakeInv'
<1> USE DEF RunInv
<1>1. /\ pc # "done" /\ pc' \notin Resting
      /\ UNCHANGED <<it, parent, Moved>>
  BY WithinLeaves, OnlyAdoptMoves
<1>2. UNCHANGED <<arm, incumbent, pending, lastAdmitted, misled>>
  BY DEF ArmRests, armVars, walkVars
<1>3. it \in 1..Iters /\ Iters \in Nat /\ it \in Nat
  BY SearchAssumption DEF SearchTypeOK
<1>4. /\ pc # "aborted"
      /\ it > 1 /\ pc' # "aborted" => InFlight
  <2>1. CASE Begins \/ Evaluate
    BY <2>1, <1>3, BeginLeaves, EvaluateLeaves
       DEF InFlight, Resting, SearchTypeOK, InRounds, Gates
  <2>2. CASE AbortRun
    BY <2>2 DEF AbortRun
  <2>3. CASE RecordFailure \/ RememberFailure \/ ScorePoint \/ Publish
                \/ RollBackRejected \/ EndingRaises
    BY <2>3 DEF RecordFailure, RememberFailure, ScorePoint, Publish, RollBackRejected,
       EndingRaises, InFlight, Resting
  <2> QED
    BY <2>1, <2>2, <2>3 DEF Within, Inside
<1>5. NoteInv'
  BY <1>1, <1>2, <1>3, <1>4 DEF NoteInv, InFlight, Resting
<1>6. HandshakeInv'
  <2> SUFFICES ASSUME arm = "greedy", ~Misled', it > 1, pc' # "aborted"
               PROVE  /\ parent' = IF Moved' THEN LastTrial ELSE incumbent
                      /\ pc' \notin {"raised", "remember", "record"} =>
                            tree'.cfg = LastTrial
    BY <1>1, <1>2 DEF HandshakeInv, InFlight, Resting, LastTrial, Mutate
  <2>1. ~Misled
    BY <1>2, MisledIsSettled
  <2>2. InFlight /\ parent = IF Moved THEN LastTrial ELSE incumbent
    BY <1>4, <2>1 DEF HandshakeInv
  <2>3. ASSUME pc' \notin {"raised", "remember", "record"}
        PROVE  UNCHANGED tree /\ pc \notin {"raised", "remember", "record"}
    <3>1. CASE Evaluate
      BY <3>1, NothingIsRepaired, EvaluateLeaves DEF SearchTypeOK, InRounds, Gates
    <3>2. ~(RecordFailure \/ RememberFailure \/ RollBackRejected \/ EndingRaises)
      BY <2>3 DEF RecordFailure, RememberFailure, RollBackRejected, EndingRaises
    <3>3. CASE ScorePoint \/ Publish
      BY <3>3 DEF ScorePoint, Publish
    <3>4. ~Begins /\ ~AbortRun
      BY <1>3 DEF AbortRun
    <3> QED
      BY <3>1, <3>2, <3>3, <3>4 DEF Within, Inside
  <2> QED
    BY <1>1, <2>1, <2>2, <2>3 DEF HandshakeInv
<1> QED
  BY <1>5, <1>6

(* The loop notes the admission and adopts the trial in one go.            *)
LEMMA AdoptMeets ==
    ASSUME RunInv, RunInv', NoteInv, HandshakeInv, ArmAdmitted
    PROVE  NoteInv' /\ HandshakeInv'
<1>1. /\ AdoptParent /\ lastAdmitted'
      /\ misled' = IF it <= 2 THEN it = 1 ELSE misled
      /\ UNCHANGED <<arm, incumbent, pending>>
  BY DEF ArmAdmitted, walkVars
<1>2. /\ pc = "published" /\ pc' = "record" /\ parent' = tree.cfg /\ UNCHANGED it
      /\ ~Moved /\ Moved' /\ it \in Nat
  BY <1>1, AdoptLeaves, AdoptMoves, SearchAssumption DEF RunInv, SearchTypeOK
<1>3. NoteInv'
  <2>1. it = 1 => it <= 2
    OBVIOUS
  <2>2. it = 1 => misled'
    BY <1>1, <2>1, Zenon
  <2> QED
    BY <1>1, <1>2, <2>2 DEF NoteInv
<1>4. HandshakeInv'
  <2> SUFFICES ASSUME arm = "greedy", ~Misled', it > 1
               PROVE  parent' = LastTrial
    BY <1>1, <1>2 DEF HandshakeInv, LastTrial, Mutate
  <2>1. ~Misled
    BY <1>1, MisledIsSettled DEF Within, Misled
  <2> QED
    BY <1>2, <2>1 DEF HandshakeInv, InFlight, Resting
<1> QED
  BY <1>3, <1>4

(* After an ending the note says what became of the trial.                 *)
LEMMA EndsMeet ==
    ASSUME RunInv, RunInv', NoteInv, HandshakeInv, Ends, ArmRests
    PROVE  NoteInv' /\ HandshakeInv'
<1> USE DEF RunInv
<1>1. /\ EndIteration /\ pc \in {"record", "raised"}
      /\ pc' \in Resting
      /\ pc' = "start" => it' = it + 1
      /\ pc' = "done" => it' = it
      /\ UNCHANGED parent /\ ~Moved'
  BY EndsLeave, EndingMovesOn, EndsUnmoved
<1>2. it \in 1..Iters /\ Iters \in Nat /\ it \in Nat /\ InFlight
  BY <1>1, SearchAssumption DEF SearchTypeOK, InFlight, Resting
<1>3. UNCHANGED <<arm, incumbent, pending, lastAdmitted, misled>>
  BY DEF ArmRests, armVars, walkVars
<1>4. NoteInv'
  BY <1>1, <1>2, <1>3 DEF NoteInv, InFlight, Resting
<1>5. ASSUME arm = "greedy", ~Misled', it > 1, pc' = "start"
      PROVE  parent' = IF lastAdmitted THEN LastTrial ELSE incumbent
  <2>1. ~Misled
    BY <1>3, <1>5, MisledIsSettled
  <2>2. parent = IF Moved THEN LastTrial ELSE incumbent
    BY <1>2, <1>5, <2>1 DEF HandshakeInv
  <2>3. lastAdmitted <=> Moved
    <3>1. it = 2 => ~misled
      BY <1>1, <1>3, <1>5 DEF Misled
    <3> QED
      BY <1>1, <1>2, <1>5, <3>1 DEF NoteInv
  <2> QED
    BY <1>1, <2>2, <2>3
<1>6. HandshakeInv'
  BY <1>1, <1>2, <1>3, <1>5 DEF HandshakeInv, InFlight, Resting, LastTrial, Mutate
<1> QED
  BY <1>4, <1>6

LEMMA HandshakeStep ==
    ASSUME RunInv, RunInv', ArmTypeOK, NoteInv, HandshakeInv, [ArmNext]_runVars
    PROVE  NoteInv' /\ HandshakeInv'
<1>1. CASE Begins /\ it = 1 /\ ArmRests
  BY <1>1, WithinMeets, BeginLeaves DEF Within, Inside, AdoptParent
<1>2. CASE Begins /\ it > 1 /\ \E c \in Config :
               Proposes(c) /\ (pc' = "raised" \/ tree'.cfg = c)
  BY <1>2, ProposalMeets
<1>3. CASE ArmAdmitted
  BY <1>3, AdoptMeets
<1>4. CASE Ends /\ ArmRests
  BY <1>4, EndsMeet
<1>5. CASE Within /\ ~AdoptParent /\ ~Begins /\ ArmRests
  BY <1>5, WithinMeets
<1>6. CASE UNCHANGED runVars
  BY <1>6 DEF runVars, vars, iterVars, givenVars, ladderVars, endVars, armVars, walkVars,
     NoteInv, HandshakeInv, InFlight, LastTrial, Misled, Mutate, Moved, IdentOf
<1> QED
  BY <1>1, <1>2, <1>3, <1>4, <1>5, <1>6, ArmSteps DEF RunInv

(* Whenever the greedy arm proposes, its own copy of where the search is   *)
(* and the loop's are the same design, but for the one case in which a     *)
(* note outlives its report (GreedyProposer.observe, last_admitted).       *)
THEOREM IncumbentFollowsParent == ArmSpec => []IncumbentIsParent
<1>1. RunInv /\ NoteInv /\ HandshakeInv => IncumbentIsParent
  BY MovesInFlight DEF HandshakeInv, IncumbentIsParent, JustProposed, InFlight, Resting
<1>2. RunInv /\ RunInv' /\ ArmTypeOK /\ NoteInv /\ HandshakeInv /\ [ArmNext]_runVars
         => NoteInv' /\ HandshakeInv'
  BY HandshakeStep
<1> QED
  BY <1>1, <1>2, HandshakeInit, ArmRunCorrect, ArmTypeCorrect, PTL DEF ArmSpec

(* Between two iterations of a control arm the container holds exactly the *)
(* parent: the arm's next trial starts from it.                            *)
THEOREM ContainerHoldsParentOfArm == ArmSpec => []TreeIsParentAtRest
<1>1. RunInv => TreeIsParentAtRest
  BY DEF RunInv, RestInv
<1> QED
  BY <1>1, ArmRunCorrect, PTL
=============================================================================
