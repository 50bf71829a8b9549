-------------------------- MODULE SearchLoopProofs --------------------------
(***************************************************************************)
(* Proofs about a whole run (SearchLoop), for any number of iterations and *)
(* whatever fields, RTL sources, proposals, repairs, seeds and failures of *)
(* `git apply` it meets.                                                   *)
(*                                                                         *)
(* The properties of SearchLoop speak of iterations that are over and of a *)
(* container at rest; none is inductive, because the ending of an          *)
(* iteration takes several steps and a raise may cut it short after any of *)
(* them.  RunInv says what each step of an ending has established: what    *)
(* the ladder handed over (RoundInv, PassedInv), what was scored and       *)
(* published (ScoreInv, PublishedInv), which designs may still be measured *)
(* (UnmeasuredInv), what history and records hold (HistoryInv, EntryInv,   *)
(* RecordInv) and where the parent is (ParentInv, MoveInv, RestInv).       *)
(***************************************************************************)
EXTENDS SearchLoop, RepairLoopProofs, SequenceTheorems

-----------------------------------------------------------------------------
(***************************************************************************)
(* The inductive invariant                                                 *)
(***************************************************************************)

(* The part of an iteration that is RepairLoop's.                          *)
InRounds == Gates \union {"triage", "repair", "passed", "failed"}

(* From N60 until the parent moves or is put back.                         *)
HasPassed == {"passed", "scored", "published"}

(* The design in the tree is new, and its measurement is to come.          *)
Unmeasured == PastIdentity \union {"scored"}

(* An iteration starts with fresh locals, and from there RepairLoop's      *)
(* invariant holds to the end of its rounds.                               *)
RoundInv ==
    /\ pc = "start" => attempts = 0
    /\ pc \in InRounds => LadderInv
    /\ \/ pc \in {"triage", "repair", "failed", "remember"}
       \/ pc = "record" /\ score = None
       => res.verdict \in FailVerdict

PassedInv ==
    pc \in HasPassed =>
        /\ tree.clean /\ tree.cfg \in LegalConfig /\ toggles = tree.cfg
        /\ IdentOf(tree) \in seen
        /\ res.at = tree

ScoreInv ==
    /\ score # None => pc \in {"scored", "published", "record", "raised"}
    /\ pc \in {"scored", "published"} =>
          /\ score \in Scores
          /\ score \in Admits => IdentOf(tree) \in admitted

(* From its publication to its record a measurement is the last entry.     *)
PublishedInv ==
    pc = "published" \/ (pc = "record" /\ score # None) =>
        /\ Len(history) > 0
        /\ history[Len(history)] =
              [it |-> it, state |-> res.at.cfg, child |-> IdentOf(res.at),
               verdict |-> score]

UnmeasuredInv ==
    /\ \A n \in Measured : history[n].child \in seen
    /\ pc \in Unmeasured => \A n \in Measured : history[n].child # IdentOf(tree)

HistoryInv ==
    /\ \A m, n \in DOMAIN history : m < n => history[m].it < history[n].it
    /\ \A n \in DOMAIN history :
          /\ history[n].it <= it
          /\ history[n].it = it => pc \in {"published", "record", "raised", "done"}

(* What an iteration ends with, if nothing raises.                         *)
Verdict == IF score = None THEN res.verdict ELSE score

EntryInv ==
    \A n \in DOMAIN history :
        history[n].it = it /\ pc # "done" => history[n].verdict = Verdict

(* A failure is on disk before the tree is rolled back.                    *)
FailureFiled ==
    pc = "remember" \/ (pc = "record" /\ score = None) => records[it] = res.verdict

RecordInv ==
    /\ pc = "done" => it = Iters
    /\ FailureFiled
    /\ \A n \in DOMAIN history :
          Over(history[n].it) =>
              records[history[n].it] \in {history[n].verdict, "INFRA_FAILURE"}
    /\ \A i \in 1..Iters :
          Over(i) => /\ records[i] \in RunVerdict
                     /\ records[i] \in Scores =>
                           \E n \in DOMAIN history : history[n].it = i

(* The parent's diff is of the parent, and within the writable set.        *)
ParentDiff == parentTree.cfg = parent /\ parentTree.clean

ParentInv == ParentIsLastAdmitted /\ ParentDiff

(* The parent moves when a scored design is admitted, never before, and to *)
(* what was published.                                                     *)
MoveInv ==
    /\ pc \in {"scored", "published"} => ~Moved
    /\ pc = "record" /\ score \in Admits => Moved /\ tree = parentTree
    /\ Moved => /\ score \in Admits
                /\ parentTree = res.at
                /\ \E n \in Measured : /\ history[n].it = it
                                       /\ history[n].child = IdentOf(parentTree)

(* What is left of an ending once the parent has moved or is back writes   *)
(* records, over a container that holds the parent.                        *)
RestInv ==
    /\ TreeIsParentAtRest
    /\ pc \in {"remember", "record"} =>
          /\ \/ tree = parentTree
             \/ ApplyMayFail /\ tree = [parentTree EXCEPT !.rtl = BaseRtl]
          /\ toggles = parent

RunInv ==
    /\ SearchTypeOK
    /\ RoundInv /\ PassedInv /\ ScoreInv /\ PublishedInv
    /\ UnmeasuredInv /\ NeverMeasuredTwice
    /\ HistoryInv /\ EntryInv /\ RecordInv
    /\ ParentInv /\ MoveInv /\ RestInv

-----------------------------------------------------------------------------
(***************************************************************************)
(* What the steps do to the iteration                                      *)
(***************************************************************************)

(* A verdict of the ladder, a score and None are three different things.   *)
LEMMA VerdictsAreApart ==
    /\ FailVerdict \cap Scores = {} /\ None \notin FailVerdict /\ None \notin Scores
    /\ "INFRA_FAILURE" \in FailVerdict
    /\ Admits \subseteq Scores /\ Scores \subseteq RunVerdict
    /\ FailVerdict \subseteq RunVerdict
BY NoVerdictAssumption
   DEF RunVerdict, FailVerdict, Scores, Admits, ByVerdict, PolicyVerdict

LEMMA BaseTreeType == BaseTree \in Tree /\ BaseTree.cfg = Baseline /\ BaseTree.clean
BY ConstAssumption DEF BaseTree, Tree

(* A proposer's or a repairer's turn begins an iteration.                  *)
Begins == Start \/ ProposerRaises

LEMMA BeginLeaves ==
    ASSUME Begins
    PROVE  /\ pc = "start" /\ pc' \in {"scope", "raised"}
           /\ UNCHANGED <<it, parent, parentRtl, seen, prevNet, prevRtl,
                          ladderVars, repairVars, endVars>>
BY DEF Begins, Start, ProposerRaises

(* Evaluating leaves everything that survives an iteration as it is, but   *)
(* what was seen, which grows, and what the builds left behind.            *)
LEMMA EvaluateLeaves ==
    ASSUME IterationTypeOK, Evaluate
    PROVE  /\ pc \in InRounds \ {"passed", "failed"}
           /\ pc' \in InRounds \union {"raised"}
           /\ UNCHANGED <<givenVars, endVars>>
           /\ seen \subseteq seen'
<1>1. CASE Ladder
  <2>1. UNCHANGED <<givenVars, endVars>>
    BY <1>1, LadderLeaves DEF Evaluate
  <2>2. pc \in Gates
    BY <1>1 DEF Ladder, Gates, ScopeGate, LegalityGate, IdentityGate,
       CompileGate, ElaborateGate, KernelGate, SimulateGate
  <2>3. pc' \in InRounds
    BY <1>1, LadderAdvances DEF Advances, InRounds, Gates
  <2>4. seen \subseteq seen'
    BY <1>1 DEF Ladder, ScopeGate, LegalityGate, IdentityGate, CompileGate,
       ElaborateGate, KernelGate, SimulateGate, builtVars
  <2> QED
    BY <2>1, <2>2, <2>3, <2>4 DEF InRounds, Gates
<1>2. CASE GiveUp \/ OpenRepair \/ RepairTurn \/ RaiseOut
  BY <1>2 DEF Evaluate, GiveUp, OpenRepair, RepairTurn, RaiseOut, InRounds,
     Gates, givenVars, builtVars
<1> QED
  BY <1>1, <1>2 DEF Evaluate, EvaluateAndRepair, Ladder

(* A design enters the build gates only when it is new.                    *)
LEMMA EvaluateBuildsNew ==
    ASSUME IterationTypeOK, Evaluate, pc' \in Unmeasured
    PROVE  /\ UNCHANGED tree
           /\ pc \in Unmeasured \/ IdentOf(tree) \notin seen
<1>1. CASE Ladder
  <2>1. UNCHANGED tree
    BY <1>1, LadderLeaves
  <2>2. CASE pc = "identity"
    <3>1. IdentityVerdict = "NEW"
      <4>1. pc' \notin {"triage", "failed"}
        BY DEF Unmeasured, PastIdentity, PastLegality, PastScope
      <4>2. IdentityGate
        BY <1>1, <2>2 DEF Ladder, ScopeGate, LegalityGate, IdentityGate,
           CompileGate, ElaborateGate, KernelGate, SimulateGate
      <4>3. IdentityVerdict \in FailVerdict \union {"NEW"}
        BY GateVerdicts DEF IdentityVerdict
      <4> QED
        BY <4>1, <4>2, <4>3, FailsGoesTo DEF IdentityGate
    <3> QED
      BY <2>1, <3>1 DEF IdentityVerdict, Known
  <2>3. CASE pc # "identity"
    BY <1>1, <2>1, <2>3, LadderAdvances
       DEF Advances, Unmeasured, PastIdentity, PastLegality, PastScope
  <2> QED
    BY <2>2, <2>3
<1>2. CASE GiveUp \/ OpenRepair \/ RepairTurn \/ RaiseOut
  BY <1>2 DEF GiveUp, OpenRepair, RepairTurn, RaiseOut, Unmeasured,
     PastIdentity, PastLegality, PastScope
<1> QED
  BY <1>1, <1>2 DEF Evaluate, EvaluateAndRepair, Ladder

(* A round that ends in a failure has a verdict of the ladder.             *)
LEMMA EvaluateFails ==
    ASSUME IterationTypeOK, IterationTypeOK', LadderInv', Evaluate,
           RoundInv, pc' \in {"triage", "repair", "failed"}
    PROVE  res'.verdict \in FailVerdict
<1>1. CASE Ladder
  <2>1. PICK r : Returns(r)
    <3>1. \A gate : GoesOnTo(gate) => pc' = gate
      BY DEF GoesOnTo
    <3> QED
      BY <1>1, <3>1 DEF Ladder, ScopeGate, LegalityGate, IdentityGate,
         CompileGate, ElaborateGate, KernelGate, SimulateGate, Fails, ToolFails
  <2>2. CASE attempts = 0
    <3>1. res' = r /\ r.verdict # "PASS"
      BY <2>1, <2>2 DEF Returns
    <3> QED
      BY <3>1 DEF IterationTypeOK, OutcomeSet
  <2>3. CASE attempts # 0
    <3>1. attempts' > 0 /\ pc' # "passed"
      BY <1>1, <2>3, LadderLeaves DEF repairVars, IterationTypeOK
    <3> QED
      BY <3>1, RepairableVerdicts DEF LadderInv, FailureSoFar
  <2> QED
    BY <2>2, <2>3
<1>2. CASE GiveUp \/ OpenRepair \/ RepairTurn \/ RaiseOut
  BY <1>2 DEF GiveUp, OpenRepair, RepairTurn, RaiseOut, ladderVars, RoundInv
<1> QED
  BY <1>1, <1>2 DEF Evaluate, EvaluateAndRepair, Ladder

(* A round that passes returns the tree it measured.                       *)
LEMMA EvaluatePasses ==
    ASSUME IterationTypeOK, Evaluate, pc' = "passed"
    PROVE  res'.at = tree /\ UNCHANGED tree
<1>1. Ladder
  BY DEF Evaluate, EvaluateAndRepair, Ladder, GiveUp, OpenRepair, RepairTurn, RaiseOut
<1>2. Returns(Outcome("PASS", FALSE))
  <2>1. pc \in {"elaborate", "kernel", "simulate"}
    BY <1>1, LadderAdvances DEF Advances
  <2>2. ~\E v \in FailVerdict : Fails(v) \/ ToolFails(v)
    BY FailsGoesTo
  <2>3. ~\E gate \in {"kernel", "simulate"} : GoesOnTo(gate)
    BY DEF GoesOnTo
  <2> QED
    BY <1>1, <2>1, <2>2, <2>3, GateVerdicts
       DEF Ladder, ScopeGate, LegalityGate, IdentityGate, CompileGate,
           ElaborateGate, KernelGate, SimulateGate
<1>3. res' = Outcome("PASS", FALSE)
  BY <1>2 DEF Returns, Outcome, Discarded
<1> QED
  BY <1>1, <1>3, LadderLeaves DEF Outcome

-----------------------------------------------------------------------------
(***************************************************************************)
(* Type correctness                                                        *)
(***************************************************************************)

(* The history after an entry was appended.                                *)
LEMMA HistoryGrows ==
    ASSUME SearchTypeOK, NEW e \in Entry, history' = Append(history, e)
    PROVE  /\ history' \in Seq(Entry)
           /\ Len(history) \in Nat /\ Len(history') = Len(history) + 1
           /\ DOMAIN history = 1..Len(history)
           /\ DOMAIN history' = 1..(Len(history) + 1)
           /\ \A n \in DOMAIN history : history'[n] = history[n]
           /\ history'[Len(history) + 1] = e
<1>1. history \in Seq(Entry)
  BY DEF SearchTypeOK
<1> QED
  BY <1>1, AppendProperties, LenProperties

LEMMA RollbackType ==
    ASSUME SearchTypeOK, Rollback
    PROVE  tree' \in Tree /\ toggles' \in Config
<1>1. parent \in Config /\ parentTree \in Tree /\ BaseRtl \in Rtl
  BY ConstAssumption DEF IterationTypeOK, SearchTypeOK
<1>2. [cfg |-> parent, rtl |-> BaseRtl, clean |-> TRUE] \in Tree
  BY <1>1 DEF Tree
<1> QED
  BY <1>1, <1>2 DEF Rollback, RollbackTo

LEMMA WritesType ==
    ASSUME SearchTypeOK, NEW v \in RunVerdict, Writes(v)
    PROVE  /\ records' \in [1..Iters -> RunVerdict \union {None}]
           /\ records'[it] = v
           /\ \A i \in 1..Iters : i # it => records'[i] = records[i]
BY DEF SearchTypeOK, Writes

LEMMA ResetType ==
    ASSUME ResetLocals
    PROVE  /\ rec' \in RecordType
           /\ proposed' \in Config \union {None} /\ proposedRtl' \in Rtl \union {None}
           /\ lastIdent' \in Ident \union {None}
           /\ res' \in OutcomeSet
           /\ attempts' = 0 /\ perClass' = [c \in Class |-> 0]
           /\ score' = None
           /\ llmOk' \in BOOLEAN
BY BaseTreeType DEF ResetLocals, RecordType, NoRecord, NoOutcome, OutcomeSet

(* An ending moves on to the next iteration, or is the last one's.         *)
LEMMA EndingMovesOn ==
    ASSUME SearchTypeOK, EndIteration
    PROVE  /\ it' \in 1..Iters /\ pc' \in Resting
           /\ pc' = "start" => it' = it + 1
           /\ pc' = "done" => it' = it /\ it = Iters
           /\ ResetLocals
BY SearchAssumption DEF SearchTypeOK, EndIteration, Resting

LEMMA BeginsKeepsType ==
    ASSUME SearchTypeOK, Begins
    PROVE  SearchTypeOK'
<1>1. IterationTypeOK
  BY DEF SearchTypeOK
<1>2. /\ UNCHANGED <<it, parent, parentRtl, seen, prevNet, prevRtl,
                     ladderVars, repairVars, endVars>>
      /\ pc' \in {"scope", "raised"}
  BY BeginLeaves
<1>3. tree' \in Tree /\ toggles' \in Config /\ llmOk' \in BOOLEAN
  <2>1. CASE NoProposal \/ AgentProposes
    BY <1>1, <2>1, ConstAssumption DEF NoProposal, AgentProposes, IterationTypeOK
  <2>2. CASE ControlProposes
    BY <1>1, <2>2 DEF ControlProposes, IterationTypeOK, Tree
  <2>3. CASE ProposerRaises
    BY <1>1, <2>3, ConstAssumption DEF ProposerRaises, IterationTypeOK, Tree
  <2> QED
    BY <2>1, <2>2, <2>3 DEF Begins, Start
<1>4. IterationTypeOK'
  BY <1>1, <1>2, <1>3 DEF IterationTypeOK, ladderVars, repairVars
<1> QED
  BY <1>2, <1>4 DEF SearchTypeOK, endVars, Place, Gates, Settled

LEMMA EvaluateKeepsType ==
    ASSUME SearchTypeOK, Evaluate
    PROVE  SearchTypeOK'
<1>1. IterationTypeOK
  BY DEF SearchTypeOK
<1>2. IterationTypeOK'
  BY <1>1, GatesKeepType, RepairsKeepType DEF Evaluate, EvaluateAndRepair
<1>3. pc' \in InRounds \union {"raised"} /\ UNCHANGED <<givenVars, endVars>>
  BY <1>1, EvaluateLeaves
<1> QED
  BY <1>2, <1>3 DEF SearchTypeOK, givenVars, endVars, Place, Gates, Settled, InRounds

(* The steps of an ending that stay in the iteration.                      *)
LEMMA EndingStepsKeepType ==
    ASSUME SearchTypeOK, RoundInv, ScoreInv,
           \/ AbortRun \/ RecordFailure \/ RememberFailure
           \/ ScorePoint \/ Publish \/ AdoptParent \/ RollBackRejected
           \/ EndingRaises
    PROVE  SearchTypeOK'
<1>1. IterationTypeOK /\ IdentOf(tree) \in Ident
  BY IdentOfType DEF SearchTypeOK, IterationTypeOK
<1> USE DEF givenVars, builtVars, ladderVars, repairVars, endVars, Place, Gates, Settled, Resting
<1>2. CASE AbortRun
  BY <1>1, <1>2 DEF AbortRun, SearchTypeOK, IterationTypeOK
<1>3. CASE RecordFailure
  <2>1. res.verdict \in RunVerdict
    BY <1>3, VerdictsAreApart DEF RecordFailure, RoundInv
  <2>2. tree' \in Tree /\ toggles' \in Config
    BY <1>1, <1>3, RollbackType DEF RecordFailure, IterationTypeOK
  <2>3. records' \in [1..Iters -> RunVerdict \union {None}]
    BY <1>3, <2>1, WritesType DEF RecordFailure
  <2>4. IterationTypeOK'
    BY <1>1, <1>3, <2>2 DEF RecordFailure, IterationTypeOK
  <2> QED
    BY <1>3, <2>3, <2>4 DEF RecordFailure, SearchTypeOK
<1>4. CASE RememberFailure
  <2>1. IterationTypeOK'
    BY <1>1, <1>4 DEF RememberFailure, IterationTypeOK
  <2>2. CASE HasDesign
    <3>1. res.verdict \in RunVerdict /\ res.at \in Tree /\ rec.cfg \in Config
      BY <1>1, <1>4, <2>2, VerdictsAreApart
         DEF RememberFailure, RoundInv, IterationTypeOK, OutcomeSet, HasDesign
    <3>2. [it |-> it, state |-> rec.cfg, child |-> IdentOf(res.at),
           verdict |-> res.verdict] \in Entry
      BY <3>1, IdentOfType DEF Entry, Ident, SearchTypeOK
    <3>3. history' \in Seq(Entry)
      BY <1>4, <2>2, <3>2, HistoryGrows DEF RememberFailure
    <3>4. seenInfo' \in [Ident -> RunVerdict \union {None}]
      BY <1>4, <3>1 DEF RememberFailure, SearchTypeOK
    <3> QED
      BY <1>4, <2>1, <3>3, <3>4 DEF RememberFailure, SearchTypeOK
  <2>3. CASE ~HasDesign
    BY <1>4, <2>1, <2>3 DEF RememberFailure, SearchTypeOK
  <2> QED
    BY <2>2, <2>3
<1>5. CASE ScorePoint
  <2>1. base' \in Ident \union {None} /\ score' \in Scores /\ admitted' \subseteq Ident
    BY <1>1, <1>5 DEF ScorePoint, SearchTypeOK, Scores, Admits
  <2>2. IterationTypeOK'
    BY <1>1, <1>5 DEF ScorePoint, IterationTypeOK
  <2> QED
    BY <1>5, <2>1, <2>2 DEF ScorePoint, SearchTypeOK
<1>6. CASE Publish
  <2>1. score \in RunVerdict
    BY <1>6, VerdictsAreApart DEF Publish, ScoreInv
  <2>2. [it |-> it, state |-> tree.cfg, child |-> IdentOf(tree), verdict |-> score]
          \in Entry
    BY <1>1, <2>1 DEF Entry, Ident, SearchTypeOK, IterationTypeOK, Tree
  <2>3. history' \in Seq(Entry)
    BY <1>6, <2>2, HistoryGrows DEF Publish
  <2>4. IterationTypeOK'
    BY <1>1, <1>6 DEF Publish, IterationTypeOK
  <2> QED
    BY <1>6, <2>3, <2>4 DEF Publish, SearchTypeOK
<1>7. ASSUME AdoptParent \/ RollBackRejected
      PROVE  seenInfo' \in [Ident -> RunVerdict \union {None}]
  <2>1. score \in RunVerdict /\ InformsOfScore
    BY <1>7, VerdictsAreApart DEF AdoptParent, RollBackRejected, ScoreInv
  <2> QED
    BY <2>1 DEF InformsOfScore, SearchTypeOK
<1>8. CASE AdoptParent
  <2>1. parent' \in Config /\ parentRtl' \in Rtl /\ parentTree' \in Tree
    BY <1>1, <1>8 DEF AdoptParent, MovesParentTo, IterationTypeOK, Tree
  <2>2. IterationTypeOK'
    BY <1>1, <1>8, <2>1 DEF AdoptParent, IterationTypeOK
  <2> QED
    BY <1>7, <1>8, <2>1, <2>2 DEF AdoptParent, SearchTypeOK
<1>9. CASE RollBackRejected
  <2>1. tree' \in Tree /\ toggles' \in Config
    BY <1>1, <1>9, RollbackType DEF RollBackRejected, IterationTypeOK
  <2>2. IterationTypeOK'
    BY <1>1, <1>9, <2>1 DEF RollBackRejected, IterationTypeOK
  <2> QED
    BY <1>7, <1>9, <2>2 DEF RollBackRejected, SearchTypeOK
<1>10. CASE EndingRaises
  BY <1>1, <1>10 DEF EndingRaises, SearchTypeOK, IterationTypeOK
<1> QED
  BY <1>2, <1>3, <1>4, <1>5, <1>6, <1>8, <1>9, <1>10

(* An iteration is over when its record is written, in the end or by the   *)
(* handler.                                                                *)
Ends == WriteRecord \/ ContainRaise

LEMMA EndsLeave ==
    ASSUME SearchTypeOK, Ends
    PROVE  /\ EndIteration
           /\ pc \in {"record", "raised"}
           /\ UNCHANGED <<parent, parentRtl, tree, builtVars>>
           /\ UNCHANGED <<parentTree, base, admitted, seenInfo, history>>
           /\ \A i \in 1..Iters : i # it => records'[i] = records[i]
BY DEF Ends, WriteRecord, ContainRaise, Writes, SearchTypeOK

(* What an ending leaves on disk for its iteration.                        *)
LEMMA EndsWrite ==
    ASSUME SearchTypeOK, RoundInv, Ends
    PROVE  /\ records' \in [1..Iters -> RunVerdict \union {None}]
           /\ records'[it] \in RunVerdict
           /\ WriteRecord => records'[it] = Verdict /\ pc = "record"
           /\ ContainRaise => records'[it] = "INFRA_FAILURE" /\ pc = "raised"
<1>1. CASE WriteRecord
  <2>1. Verdict \in RunVerdict
    BY <1>1, VerdictsAreApart DEF Verdict, WriteRecord, RoundInv, SearchTypeOK
  <2>2. Writes(Verdict)
    BY <1>1 DEF WriteRecord, Verdict
  <2> QED
    BY <1>1, <2>1, <2>2, WritesType DEF WriteRecord, ContainRaise
<1>2. CASE ContainRaise
  <2>1. "INFRA_FAILURE" \in RunVerdict
    BY VerdictsAreApart
  <2> QED
    BY <1>2, <2>1, WritesType DEF WriteRecord, ContainRaise
<1> QED
  BY <1>1, <1>2 DEF Ends

LEMMA EndsKeepType ==
    ASSUME SearchTypeOK, RoundInv, Ends
    PROVE  SearchTypeOK'
<1>1. /\ EndIteration
      /\ UNCHANGED <<parent, parentRtl, tree, builtVars>>
      /\ UNCHANGED <<parentTree, base, admitted, seenInfo, history>>
  BY EndsLeave
<1>2. it' \in 1..Iters /\ pc' \in Place /\ ResetLocals
  BY <1>1, EndingMovesOn DEF Place
<1>3. IterationTypeOK'
  BY <1>1, <1>2, ResetType DEF SearchTypeOK, IterationTypeOK, RecordType, Class, builtVars
<1>4. score' \in Scores \union {None}
  BY <1>2, ResetType
<1> QED
  BY <1>1, <1>2, <1>3, <1>4, EndsWrite DEF SearchTypeOK

(* Every step of a run, sorted by how far it goes.                         *)
LEMMA StepsOfARun ==
    Next <=> \/ Begins \/ Evaluate
             \/ AbortRun \/ RecordFailure \/ RememberFailure
             \/ ScorePoint \/ Publish \/ AdoptParent \/ RollBackRejected
             \/ EndingRaises
             \/ Ends
BY DEF Next, Begins, Ends

LEMMA StepKeepsType ==
    ASSUME SearchTypeOK, RoundInv, ScoreInv, Next
    PROVE  SearchTypeOK'
BY StepsOfARun, BeginsKeepsType, EvaluateKeepsType, EndingStepsKeepType, EndsKeepType

-----------------------------------------------------------------------------
(***************************************************************************)
(* The rounds, the score and the publication                               *)
(***************************************************************************)

LEMMA StepKeepsRounds ==
    ASSUME SearchTypeOK, SearchTypeOK', RoundInv, ScoreInv, Next
    PROVE  RoundInv'
<1>1. IterationTypeOK /\ IterationTypeOK'
  BY DEF SearchTypeOK
<1>2. CASE Begins
  <2>1. attempts' = 0 /\ pc' \in {"scope", "raised"}
    BY <1>2, BeginLeaves DEF RoundInv, repairVars
  <2>2. LadderInv'
    BY <2>1 DEF LadderInv, AdmissibleSoFar, MutationSoFar, FailureSoFar,
       PastScope, PastLegality, PastIdentity, PastCompile
  <2> QED
    BY <2>1, <2>2 DEF RoundInv
<1>3. CASE Evaluate
  <2>1. LadderInv'
    BY <1>1, <1>3, EvaluateLeaves, EvaluationKeepsLadderInv DEF RoundInv, Evaluate
  <2>2. pc' \in InRounds \union {"raised"}
    BY <1>1, <1>3, EvaluateLeaves
  <2>3. pc' \in {"triage", "repair", "failed"} => res'.verdict \in FailVerdict
    BY <1>1, <1>3, <2>1, EvaluateFails
  <2> QED
    BY <2>1, <2>2, <2>3 DEF RoundInv, InRounds, Gates
<1>4. CASE RecordFailure
  BY <1>4 DEF RecordFailure, RoundInv, InRounds, Gates, ladderVars
<1>5. CASE RememberFailure
  BY <1>5 DEF RememberFailure, RoundInv, InRounds, Gates, ladderVars
<1>6. CASE AdoptParent \/ RollBackRejected
  <2>1. score' # None /\ pc' \in {"record", "raised"}
    BY <1>6, VerdictsAreApart DEF AdoptParent, RollBackRejected, ScoreInv
  <2> QED
    BY <2>1 DEF RoundInv, InRounds, Gates
<1>7. CASE AbortRun \/ ScorePoint \/ Publish \/ EndingRaises
  BY <1>7 DEF AbortRun, ScorePoint, Publish, EndingRaises, RoundInv, InRounds, Gates
<1>8. CASE Ends
  <2>1. EndIteration
    BY <1>8, EndsLeave
  <2>2. pc' \in Resting /\ attempts' = 0
    BY <2>1, EndingMovesOn, ResetType
  <2> QED
    BY <2>2 DEF RoundInv, Resting, InRounds, Gates
<1> QED
  BY <1>2, <1>3, <1>4, <1>5, <1>6, <1>7, <1>8, StepsOfARun

(* Only N60, a publication or a round that passes lead to what they        *)
(* establish.                                                              *)
LEMMA StepsToAScore ==
    ASSUME SearchTypeOK, Next, pc' \in HasPassed
    PROVE  \/ Evaluate /\ pc' = "passed"
           \/ ScorePoint /\ pc = "passed" /\ pc' = "scored"
           \/ Publish /\ pc = "scored" /\ pc' = "published"
<1>1. ~Begins
  BY BeginLeaves DEF HasPassed
<1>2. Evaluate => pc' = "passed"
  BY EvaluateLeaves DEF SearchTypeOK, InRounds, Gates, HasPassed
<1>3. ~Ends
  BY EndsLeave, EndingMovesOn DEF Resting, HasPassed
<1>4. ~(AbortRun \/ RecordFailure \/ RememberFailure \/ AdoptParent
          \/ RollBackRejected \/ EndingRaises)
  BY DEF AbortRun, RecordFailure, RememberFailure, AdoptParent, RollBackRejected,
         EndingRaises, HasPassed
<1> QED
  BY <1>1, <1>2, <1>3, <1>4, StepsOfARun DEF ScorePoint, Publish, HasPassed

LEMMA StepKeepsPassed ==
    ASSUME SearchTypeOK, SearchTypeOK', RoundInv', PassedInv, Next
    PROVE  PassedInv'
<1>1. CASE pc' \notin HasPassed
  BY <1>1 DEF PassedInv
<1>2. CASE Evaluate /\ pc' = "passed"
  <2>1. AdmissibleSoFar'
    BY <1>2 DEF RoundInv, InRounds, LadderInv
  <2>2. res'.at = tree'
    BY <1>2, EvaluatePasses DEF SearchTypeOK
  <2> QED
    BY <1>2, <2>1, <2>2 DEF AdmissibleSoFar, PassedInv, PastScope, PastLegality,
       PastIdentity, PastCompile
<1>3. CASE ScorePoint \/ Publish
  BY <1>3 DEF ScorePoint, Publish, PassedInv, HasPassed, IdentOf, builtVars, ladderVars
<1> QED
  BY <1>1, <1>2, <1>3, StepsToAScore

LEMMA StepKeepsScore ==
    ASSUME SearchTypeOK, ScoreInv, Next
    PROVE  ScoreInv'
<1>1. score' # None => pc' \in {"scored", "published", "record", "raised"}
  <2>1. CASE Begins
    BY <2>1, BeginLeaves DEF ScoreInv, endVars
  <2>2. CASE Evaluate
    BY <2>2, EvaluateLeaves DEF ScoreInv, endVars, SearchTypeOK, InRounds, Gates
  <2>3. CASE Ends
    BY <2>3, EndsLeave, EndingMovesOn, ResetType
  <2>4. CASE AbortRun \/ RecordFailure \/ RememberFailure \/ ScorePoint \/ Publish
                \/ AdoptParent \/ RollBackRejected \/ EndingRaises
    BY <2>4 DEF AbortRun, RecordFailure, RememberFailure, ScorePoint, Publish,
       AdoptParent, RollBackRejected, EndingRaises, ScoreInv, endVars
  <2> QED
    BY <2>1, <2>2, <2>3, <2>4, StepsOfARun
<1>2. ASSUME pc' \in {"scored", "published"}
      PROVE  score' \in Scores /\ (score' \in Admits => IdentOf(tree)' \in admitted')
  <2>1. CASE ScorePoint
    <3>1. score' \in Scores /\ UNCHANGED tree
      BY <2>1 DEF ScorePoint, Scores, Admits
    <3> QED
      BY <2>1, <3>1 DEF ScorePoint, IdentOf
  <2>2. CASE Publish
    BY <2>2 DEF Publish, ScoreInv, IdentOf
  <2> QED
    BY <1>2, <2>1, <2>2, StepsToAScore DEF HasPassed
<1> QED
  BY <1>1, <1>2 DEF ScoreInv

-----------------------------------------------------------------------------
(***************************************************************************)
(* The history                                                             *)
(***************************************************************************)

(* The steps that leave the history and the parent alone.                  *)
Inside == \/ Begins \/ Evaluate \/ AbortRun \/ RecordFailure
          \/ ScorePoint \/ RollBackRejected \/ EndingRaises

(* The steps that do not end an iteration.                                 *)
Within == Inside \/ RememberFailure \/ Publish \/ AdoptParent

LEMMA NextSorts == Next <=> Within \/ Ends
BY StepsOfARun DEF Inside, Within

LEMMA InsideLeaves ==
    ASSUME SearchTypeOK, Inside
    PROVE  /\ UNCHANGED <<parent, parentRtl, parentTree, history>>
           /\ pc' # "published"
           /\ pc \in {"published", "record", "raised"} =>
                 pc' \in {"record", "raised"} /\ UNCHANGED <<res, score>>
<1> USE DEF Resting, Gates, InRounds, givenVars, endVars, builtVars, ladderVars
<1>1. CASE Begins
  BY <1>1, BeginLeaves
<1>2. CASE Evaluate
  BY <1>2, EvaluateLeaves DEF SearchTypeOK
<1>3. CASE RecordFailure \/ ScorePoint \/ AbortRun
  BY <1>3 DEF RecordFailure, ScorePoint, AbortRun
<1>4. CASE RollBackRejected \/ EndingRaises
  BY <1>4 DEF RollBackRejected, EndingRaises
<1> QED
  BY <1>1, <1>2, <1>3, <1>4 DEF Inside

LEMMA PublishLeaves ==
    ASSUME Publish
    PROVE  /\ pc = "scored" /\ pc' = "published"
           /\ UNCHANGED <<it, parent, parentRtl, parentTree, tree, seen,
                          admitted, score, res, records>>
BY DEF Publish, givenVars, builtVars, ladderVars

LEMMA RememberLeaves ==
    ASSUME RememberFailure
    PROVE  /\ pc = "remember" /\ pc' = "record"
           /\ UNCHANGED <<it, parent, parentRtl, parentTree, tree, toggles, seen,
                          admitted, score, res, records>>
BY DEF RememberFailure, givenVars, builtVars, ladderVars

LEMMA AdoptLeaves ==
    ASSUME AdoptParent
    PROVE  /\ pc = "published" /\ pc' = "record" /\ score \in Admits
           /\ parent' = tree.cfg /\ parentRtl' = tree.rtl /\ parentTree' = tree
           /\ UNCHANGED <<it, tree, toggles, seen, admitted, score, res, history, records>>
BY DEF AdoptParent, MovesParentTo, builtVars, ladderVars

LEMMA WithinLeaves ==
    ASSUME SearchTypeOK, Within
    PROVE  /\ pc # "done" /\ pc' \notin Resting
           /\ UNCHANGED it
           /\ admitted \subseteq admitted' /\ seen \subseteq seen'
           /\ \A i \in 1..Iters : i # it => records'[i] = records[i]
<1> USE DEF Resting, Gates, InRounds, givenVars, endVars, builtVars
<1>1. CASE Begins
  BY <1>1, BeginLeaves
<1>2. CASE Evaluate
  BY <1>2, EvaluateLeaves DEF SearchTypeOK
<1>3. CASE RecordFailure
  BY <1>3 DEF RecordFailure, Writes, SearchTypeOK
<1>4. CASE ScorePoint
  BY <1>4 DEF ScorePoint
<1>5. CASE AbortRun \/ RollBackRejected \/ EndingRaises
  BY <1>5 DEF AbortRun, RollBackRejected, EndingRaises
<1>6. CASE RememberFailure \/ Publish \/ AdoptParent
  BY <1>6, RememberLeaves, PublishLeaves, AdoptLeaves
<1> QED
  BY <1>1, <1>2, <1>3, <1>4, <1>5, <1>6 DEF Within, Inside

(* Which iterations are over, on either side of an ending and of any other *)
(* step.                                                                   *)
LEMMA OverInside ==
    ASSUME UNCHANGED it, pc # "done", pc' # "done"
    PROVE  (\A i : Over(i)' <=> Over(i)) /\ Finished' = Finished
BY DEF Over, Finished

LEMMA OverAtEnd ==
    ASSUME SearchTypeOK, pc # "done", EndIteration
    PROVE  /\ \A i \in 1..Iters : (Over(i)' <=> i <= it) /\ (Over(i) <=> i < it)
           /\ Finished' = it /\ Finished = it - 1
<1>1. it \in 1..Iters /\ Iters \in Nat
  BY SearchAssumption DEF SearchTypeOK
<1>2. CASE it < Iters
  BY <1>1, <1>2 DEF EndIteration, Over, Finished
<1>3. CASE ~(it < Iters)
  BY <1>1, <1>3 DEF EndIteration, Over, Finished
<1> QED
  BY <1>2, <1>3

(* The running iteration is not over, and no other one begins or ends.     *)
LEMMA OverWithin ==
    ASSUME SearchTypeOK, Within
    PROVE  /\ \A i \in 1..Iters : (Over(i)' <=> Over(i)) /\ (Over(i) => i # it)
           /\ ~Over(it)
           /\ Finished' = Finished
<1>1. UNCHANGED it /\ pc # "done" /\ pc' # "done" /\ it \in Nat
  BY WithinLeaves, SearchAssumption DEF Resting, SearchTypeOK
<1> QED
  BY <1>1, OverInside, SearchAssumption DEF Over

(* How the history grows: a publication or a remembered failure appends    *)
(* one entry of the running iteration.                                     *)
Appends(e) ==
    /\ e \in Entry /\ e.it = it
    /\ history' = Append(history, e)

LEMMA PublishAppends ==
    ASSUME SearchTypeOK, ScoreInv, Publish
    PROVE  Appends([it |-> it, state |-> tree.cfg, child |-> IdentOf(tree),
                    verdict |-> score])
<1>1. tree \in Tree /\ IdentOf(tree) \in Ident /\ score \in RunVerdict
  BY IdentOfType, VerdictsAreApart DEF SearchTypeOK, IterationTypeOK, Publish, ScoreInv
<1> QED
  BY <1>1 DEF Appends, Entry, Ident, SearchTypeOK, Publish, Tree

LEMMA RememberAppends ==
    ASSUME SearchTypeOK, RoundInv, RememberFailure
    PROVE  \/ UNCHANGED history
           \/ \E e : Appends(e) /\ e.verdict = res.verdict
<1>1. CASE HasDesign
  <2> DEFINE e == [it |-> it, state |-> rec.cfg, child |-> IdentOf(res.at),
                   verdict |-> res.verdict]
  <2>1. res.verdict \in RunVerdict /\ res.at \in Tree /\ rec.cfg \in Config
    BY <1>1, VerdictsAreApart
       DEF RememberFailure, RoundInv, SearchTypeOK, IterationTypeOK, OutcomeSet, HasDesign
  <2>2. e \in Entry /\ e.it = it /\ e.verdict = res.verdict
    BY <2>1, IdentOfType DEF Entry, Ident, SearchTypeOK
  <2>3. history' = Append(history, e)
    BY <1>1 DEF RememberFailure
  <2> QED
    BY <2>2, <2>3 DEF Appends
<1>2. CASE ~HasDesign
  BY <1>2 DEF RememberFailure
<1> QED
  BY <1>1, <1>2

(* A step keeps the history, or appends the verdict that the iteration is  *)
(* to end with.                                                            *)
LEMMA HistorySteps ==
    ASSUME SearchTypeOK, RoundInv, ScoreInv, Next
    PROVE  \/ UNCHANGED history /\ ~Publish
           \/ \E e : /\ Appends(e) /\ e.verdict = Verdict
                     /\ \/ Publish
                        \/ RememberFailure /\ score = None
<1>1. CASE Inside \/ AdoptParent \/ Ends
  <2>1. UNCHANGED history
    BY <1>1, InsideLeaves, AdoptLeaves, EndsLeave
  <2>2. ~Publish
    BY <1>1, InsideLeaves, AdoptLeaves, EndsLeave, PublishLeaves
  <2> QED
    BY <2>1, <2>2
<1>2. CASE Publish
  <2>1. Verdict = score
    BY <1>2, VerdictsAreApart DEF Publish, ScoreInv, Verdict
  <2> QED
    BY <1>2, <2>1, PublishAppends
<1>3. CASE RememberFailure
  <2>1. score = None /\ Verdict = res.verdict /\ ~Publish
    BY <1>3 DEF RememberFailure, Publish, ScoreInv, Verdict
  <2> QED
    BY <1>3, <2>1, RememberAppends
<1> QED
  BY <1>1, <1>2, <1>3, NextSorts DEF Within

LEMMA AppendedHistory ==
    ASSUME SearchTypeOK, NEW e, Appends(e)
    PROVE  /\ Len(history) \in Nat
           /\ Len(history') = Len(history) + 1
           /\ DOMAIN history = 1..Len(history)
           /\ DOMAIN history' = 1..(Len(history) + 1)
           /\ \A n \in DOMAIN history : history'[n] = history[n]
           /\ history'[Len(history) + 1] = e
           /\ \A n \in DOMAIN history : history[n] \in Entry
BY HistoryGrows, LenProperties, ElementOfSeq DEF Appends, SearchTypeOK

LEMMA HistoryEntries ==
    ASSUME NEW h \in Seq(Entry)
    PROVE  \A n \in DOMAIN h : h[n] \in Entry /\ h[n].it \in 1..Iters /\ h[n].it \in Nat
<1>1. \A n \in DOMAIN h : h[n] \in Entry
  BY LenProperties, ElementOfSeq
<1> QED
  BY <1>1, SearchAssumption DEF Entry

LEMMA StepKeepsHistory ==
    ASSUME SearchTypeOK, SearchTypeOK', RoundInv, ScoreInv, HistoryInv, Next
    PROVE  HistoryInv'
<1>0. it \in 1..Iters /\ Iters \in Nat /\ \A n \in DOMAIN history : history[n].it \in Nat
  BY SearchAssumption, HistoryEntries DEF SearchTypeOK
<1>1. CASE Inside
  <2>1. UNCHANGED <<it, history>> /\ pc # "done"
    BY <1>1, InsideLeaves, WithinLeaves DEF Within
  <2> QED
    BY <1>1, <2>1, InsideLeaves DEF HistoryInv
<1>2. CASE AdoptParent
  BY <1>2, AdoptLeaves DEF HistoryInv
<1>3. CASE Publish \/ RememberFailure
  <2>1. /\ UNCHANGED it /\ pc' \in {"published", "record"}
        /\ pc \in {"scored", "remember"}
    BY <1>3, PublishLeaves, RememberLeaves
  <2>2. CASE UNCHANGED history
    BY <2>1, <2>2 DEF HistoryInv
  <2>3. ASSUME NEW e, Appends(e)
        PROVE  HistoryInv'
    <3>1. \A n \in DOMAIN history : history[n].it < it
      BY <1>0, <2>1 DEF HistoryInv
    <3> QED
      BY <1>0, <2>1, <2>3, <3>1, AppendedHistory DEF HistoryInv, Appends
  <2> QED
    BY <2>2, <2>3, HistorySteps
<1>4. CASE Ends
  <2>1. UNCHANGED history /\ EndIteration
    BY <1>4, EndsLeave
  <2>2. /\ pc' \in Resting /\ it \in Nat
        /\ pc' = "start" => it' = it + 1
        /\ pc' = "done" => it' = it
    BY <1>0, <2>1, EndingMovesOn
  <2> QED
    BY <1>0, <2>1, <2>2 DEF HistoryInv, Resting
<1> QED
  BY <1>1, <1>2, <1>3, <1>4, NextSorts DEF Within

(* The entry of the running iteration says how it is to end.               *)
LEMMA StepKeepsEntry ==
    ASSUME SearchTypeOK, SearchTypeOK', RoundInv, ScoreInv, HistoryInv, HistoryInv',
           EntryInv, Next
    PROVE  EntryInv'
<1>1. CASE Inside
  <2>1. UNCHANGED <<it, history>> /\ pc # "done"
    BY <1>1, InsideLeaves, WithinLeaves DEF Within
  <2>2. ASSUME NEW n \in DOMAIN history, history[n].it = it
        PROVE  history[n].verdict = Verdict /\ Verdict' = Verdict
    <3>1. pc \in {"published", "record", "raised"}
      BY <2>1, <2>2 DEF HistoryInv
    <3> QED
      BY <1>1, <2>1, <2>2, <3>1, InsideLeaves DEF EntryInv, Verdict
  <2> QED
    BY <2>1, <2>2 DEF EntryInv
<1>2. CASE AdoptParent
  BY <1>2, AdoptLeaves DEF EntryInv, Verdict
<1>3. CASE Publish \/ RememberFailure
  <2>1. /\ UNCHANGED <<it, score, res>> /\ pc \in {"scored", "remember"}
        /\ \A n \in DOMAIN history : history[n].it # it
    BY <1>3, PublishLeaves, RememberLeaves DEF HistoryInv
  <2>2. CASE UNCHANGED history
    BY <2>1, <2>2 DEF EntryInv
  <2>3. ASSUME NEW e, Appends(e), e.verdict = Verdict
        PROVE  EntryInv'
    BY <2>1, <2>3, AppendedHistory DEF EntryInv, Verdict
  <2> QED
    BY <2>2, <2>3, HistorySteps
<1>4. CASE Ends
  <2>1. UNCHANGED history /\ EndIteration /\ it \in Nat
    BY <1>4, EndsLeave, SearchAssumption DEF SearchTypeOK
  <2>2. pc' \in Resting
    BY <2>1, EndingMovesOn
  <2> QED
    BY <2>2 DEF EntryInv, HistoryInv, Resting
<1> QED
  BY <1>1, <1>2, <1>3, <1>4, NextSorts DEF Within

LEMMA StepKeepsPublished ==
    ASSUME SearchTypeOK, SearchTypeOK', PassedInv, ScoreInv, PublishedInv, Next
    PROVE  PublishedInv'
<1>1. CASE Publish
  <2>1. res.at = tree /\ UNCHANGED <<it, res, score>>
    BY <1>1, PublishLeaves DEF PassedInv, HasPassed
  <2> QED
    BY <1>1, <2>1, PublishAppends, AppendedHistory DEF PublishedInv
<1>2. CASE pc' = "record" /\ score' # None
  <2>1. pc = "published" /\ UNCHANGED <<it, res, score, history>>
    <3>1. CASE Inside
      <4>1. RollBackRejected
        BY <1>2, <3>1, BeginLeaves, EvaluateLeaves
           DEF Inside, SearchTypeOK, InRounds, Gates, AbortRun, RecordFailure,
               ScorePoint, EndingRaises
      <4> QED
        BY <4>1 DEF RollBackRejected, givenVars, ladderVars
    <3>2. CASE AdoptParent
      BY <3>2, AdoptLeaves
    <3>3. ~RememberFailure
      BY <1>2 DEF RememberFailure, ScoreInv
    <3>4. ~Publish /\ ~Ends
      BY <1>2, PublishLeaves, EndsLeave, EndingMovesOn DEF Resting
    <3> QED
      BY <3>1, <3>2, <3>3, <3>4, NextSorts DEF Within
  <2> QED
    BY <2>1 DEF PublishedInv
<1>3. CASE ~Publish /\ ~(pc' = "record" /\ score' # None)
  <2>1. pc' # "published"
    BY <1>3, StepsToAScore DEF HasPassed
  <2> QED
    BY <1>3, <2>1 DEF PublishedInv
<1> QED
  BY <1>1, <1>2, <1>3

-----------------------------------------------------------------------------
(***************************************************************************)
(* The records                                                             *)
(***************************************************************************)

(* A measurement that is published is the one entry of its iteration.      *)
LEMMA PublishedIsLast ==
    ASSUME SearchTypeOK, PublishedInv, HistoryInv,
           pc = "published" \/ (pc = "record" /\ score # None)
    PROVE  /\ Len(history) \in DOMAIN history
           /\ history[Len(history)].it = it
           /\ history[Len(history)].child = IdentOf(res.at)
           /\ history[Len(history)].verdict = score
           /\ \A n \in DOMAIN history : history[n].it = it => n = Len(history)
<1>1. DOMAIN history = 1..Len(history) /\ Len(history) \in Nat
  BY LenProperties DEF SearchTypeOK
<1>2. Len(history) \in DOMAIN history
  BY <1>1 DEF PublishedInv
<1>3. \A n \in DOMAIN history : n < Len(history) => history[n].it < history[Len(history)].it
  BY <1>2 DEF HistoryInv
<1>4. history[Len(history)].it = it /\ it \in Nat
  BY SearchAssumption DEF PublishedInv, SearchTypeOK
<1> QED
  BY <1>1, <1>2, <1>3, <1>4 DEF PublishedInv

(* The failure of a round is on disk before the tree is rolled back.       *)
LEMMA StepKeepsFiled ==
    ASSUME SearchTypeOK, RoundInv, ScoreInv, FailureFiled, Next
    PROVE  FailureFiled'
<1>1. CASE RecordFailure
  <2>1. Writes(res.verdict) /\ UNCHANGED <<it, res>> /\ res.verdict \in RunVerdict
    BY <1>1, VerdictsAreApart DEF RecordFailure, ladderVars, givenVars, RoundInv
  <2> QED
    BY <1>1, <2>1, WritesType DEF FailureFiled, RecordFailure
<1>2. CASE RememberFailure
  BY <1>2, RememberLeaves DEF FailureFiled
<1>3. CASE ~RecordFailure /\ ~RememberFailure
  <2>1. pc' # "remember" /\ (pc' = "record" => score' # None)
    <3>1. CASE Begins \/ Evaluate
      BY <3>1, BeginLeaves, EvaluateLeaves DEF SearchTypeOK, InRounds, Gates
    <3>2. CASE AbortRun \/ ScorePoint \/ Publish \/ EndingRaises
      BY <3>2 DEF AbortRun, ScorePoint, Publish, EndingRaises
    <3>3. CASE AdoptParent \/ RollBackRejected
      BY <3>3, VerdictsAreApart DEF AdoptParent, RollBackRejected, ScoreInv
    <3>4. CASE Ends
      BY <3>4, EndsLeave, EndingMovesOn DEF Resting
    <3> QED
      BY <1>3, <3>1, <3>2, <3>3, <3>4, StepsOfARun
  <2> QED
    BY <2>1 DEF FailureFiled
<1> QED
  BY <1>1, <1>2, <1>3

(* What a history and the records say of an iteration that is over.        *)
LEMMA WithinKeepsRecords ==
    ASSUME SearchTypeOK, SearchTypeOK', RoundInv, ScoreInv, RecordInv, Within
    PROVE  RecordInv'
<1>1. /\ pc # "done" /\ pc' # "done" /\ UNCHANGED it
      /\ \A i \in 1..Iters : i # it => records'[i] = records[i]
      /\ \A i \in 1..Iters : (Over(i)' <=> Over(i)) /\ (Over(i) => i # it)
  BY WithinLeaves, OverWithin DEF Resting
<1>2. FailureFiled'
  BY StepKeepsFiled, NextSorts DEF RecordInv
<1>3. \/ UNCHANGED history
      \/ \E e : Appends(e)
  BY HistorySteps, NextSorts
<1>4. DOMAIN history \subseteq DOMAIN history'
      /\ \A n \in DOMAIN history : history'[n] = history[n]
  BY <1>3, AppendedHistory
<1>5. ASSUME NEW n \in DOMAIN history', Over(history[n].it)'
      PROVE  records'[history'[n].it] \in {history'[n].verdict, "INFRA_FAILURE"}
  <2>1. Over(history'[n].it) /\ history'[n].it \in 1..Iters /\ history'[n].it # it
    BY <1>1, <1>5, HistoryEntries DEF SearchTypeOK
  <2>2. n \in DOMAIN history
    BY <1>3, <2>1, AppendedHistory DEF Appends
  <2> QED
    BY <1>1, <1>4, <2>1, <2>2 DEF RecordInv
<1>6. ASSUME NEW i \in 1..Iters, Over(i)'
      PROVE  /\ records'[i] \in RunVerdict
             /\ records'[i] \in Scores => \E n \in DOMAIN history' : history'[n].it = i
  BY <1>1, <1>4, <1>6 DEF RecordInv
<1> QED
  BY <1>1, <1>2, <1>5, <1>6 DEF RecordInv

LEMMA EndsKeepRecords ==
    ASSUME SearchTypeOK, SearchTypeOK', RoundInv, ScoreInv, PublishedInv,
           HistoryInv, EntryInv, RecordInv, Ends
    PROVE  RecordInv'
<1>1. /\ EndIteration /\ pc # "done" /\ pc' \in Resting
      /\ pc' = "done" => it' = Iters
      /\ UNCHANGED history
      /\ it \in 1..Iters /\ Iters \in Nat
      /\ \A i \in 1..Iters : i # it => records'[i] = records[i]
  BY EndsLeave, EndingMovesOn, SearchAssumption DEF SearchTypeOK
<1>2. \A i \in 1..Iters : (Over(i)' <=> i <= it) /\ (Over(i) <=> i < it)
  BY <1>1, OverAtEnd
<1>3. ASSUME NEW n \in DOMAIN history, Over(history[n].it)'
      PROVE  records'[history[n].it] \in {history[n].verdict, "INFRA_FAILURE"}
  <2>1. history[n].it \in 1..Iters /\ history[n].it <= it
    BY HistoryEntries DEF SearchTypeOK, HistoryInv
  <2>2. CASE history[n].it # it
    <3>1. Over(history[n].it)
      BY <1>1, <1>2, <2>1, <2>2
    <3> QED
      BY <1>1, <2>1, <2>2, <3>1 DEF RecordInv
  <2>3. CASE history[n].it = it
    BY <1>1, <2>3, EndsWrite DEF EntryInv, Ends
  <2> QED
    BY <2>2, <2>3
<1>4. ASSUME NEW i \in 1..Iters, Over(i)'
      PROVE  /\ records'[i] \in RunVerdict
             /\ records'[i] \in Scores => \E n \in DOMAIN history : history[n].it = i
  <2>1. CASE i # it
    <3>1. Over(i) /\ records'[i] = records[i]
      BY <1>1, <1>2, <1>4, <2>1
    <3> QED
      BY <3>1 DEF RecordInv
  <2>2. CASE i = it /\ records'[it] \in Scores
    <3>1. pc = "record" /\ records'[it] = Verdict
      BY <2>2, EndsWrite, VerdictsAreApart DEF Ends
    <3>2. score # None
      BY <2>2, <3>1, VerdictsAreApart DEF Verdict, RoundInv
    <3> QED
      BY <2>2, <3>1, <3>2, EndsWrite, PublishedIsLast
  <2>3. CASE i = it /\ records'[it] \notin Scores
    BY <2>3, EndsWrite
  <2> QED
    BY <2>1, <2>2, <2>3
<1>5. \A n \in DOMAIN history' :
          Over(history[n].it)' =>
              records'[history'[n].it] \in {history'[n].verdict, "INFRA_FAILURE"}
  BY <1>1, <1>3
<1> QED
  BY <1>1, <1>4, <1>5 DEF RecordInv, FailureFiled, Resting

-----------------------------------------------------------------------------
(***************************************************************************)
(* What was measured                                                       *)
(***************************************************************************)

(* Only a publication measures: a remembered failure has no score.         *)
LEMMA MeasuredGrows ==
    ASSUME SearchTypeOK, SearchTypeOK', RoundInv, ScoreInv, Next
    PROVE  /\ \A n \in Measured : n \in DOMAIN history /\ history'[n] = history[n]
           /\ ~Publish => Measured' = Measured
           /\ Publish => /\ Measured' = Measured \union {Len(history) + 1}
                         /\ Len(history) + 1 \notin DOMAIN history
                         /\ history'[Len(history) + 1].child = IdentOf(tree)
                         /\ history'[Len(history) + 1].it = it
<1>1. CASE UNCHANGED history
  <2>1. ~Publish
    BY <1>1, PublishAppends, AppendedHistory
  <2> QED
    BY <1>1, <2>1 DEF Measured
<1>2. CASE ~UNCHANGED history /\ Publish
  <2> DEFINE e == [it |-> it, state |-> tree.cfg, child |-> IdentOf(tree),
                   verdict |-> score]
  <2>1. Appends(e) /\ score \in Scores
    BY <1>2, PublishAppends DEF Publish, ScoreInv
  <2> QED
    BY <1>2, <2>1, AppendedHistory DEF Measured
<1>3. CASE ~UNCHANGED history /\ ~Publish
  <2>1. PICK e : Appends(e) /\ e.verdict = Verdict /\ RememberFailure /\ score = None
    BY <1>3, HistorySteps
  <2>2. e.verdict \notin Scores
    BY <2>1, VerdictsAreApart DEF RememberFailure, RoundInv, Verdict
  <2> QED
    BY <1>3, <2>1, <2>2, AppendedHistory DEF Measured
<1> QED
  BY <1>1, <1>2, <1>3

(* Only the build gates and N60 have a measurement to come.                *)
LEMMA StepsToUnmeasured ==
    ASSUME SearchTypeOK, Next, pc' \in Unmeasured
    PROVE  /\ Evaluate \/ ScorePoint
           /\ UNCHANGED tree
           /\ pc \in Unmeasured \/ IdentOf(tree) \notin seen
<1>1. CASE Evaluate
  BY <1>1, EvaluateBuildsNew DEF SearchTypeOK
<1>2. CASE ScorePoint
  BY <1>2 DEF ScorePoint, Unmeasured, PastIdentity, PastLegality, PastScope
<1>3. CASE ~Evaluate /\ ~ScorePoint
  <2>1. pc' \in {"scope", "raised", "aborted", "remember", "published", "record"}
                  \union Resting
    BY <1>3, StepsOfARun, BeginLeaves, EndsLeave, EndingMovesOn
       DEF AbortRun, RecordFailure, RememberFailure, Publish, AdoptParent,
           RollBackRejected, EndingRaises
  <2> QED
    BY <2>1 DEF Unmeasured, PastIdentity, PastLegality, PastScope, Resting
<1> QED
  BY <1>1, <1>2, <1>3

LEMMA StepKeepsUnmeasured ==
    ASSUME SearchTypeOK, SearchTypeOK', RoundInv, ScoreInv, PassedInv, UnmeasuredInv, Next
    PROVE  UnmeasuredInv'
<1>1. seen \subseteq seen'
  BY NextSorts, WithinLeaves, EndsLeave DEF builtVars
<1>2. \A n \in Measured' : history'[n].child \in seen'
  <2>1. CASE Publish
    <3>1. IdentOf(tree) \in seen
      BY <2>1 DEF Publish, PassedInv, HasPassed
    <3> QED
      BY <1>1, <2>1, <3>1, MeasuredGrows DEF UnmeasuredInv
  <2>2. CASE ~Publish
    BY <1>1, <2>2, MeasuredGrows DEF UnmeasuredInv
  <2> QED
    BY <2>1, <2>2
<1>3. ASSUME pc' \in Unmeasured
      PROVE  \A n \in Measured' : history'[n].child # IdentOf(tree)'
  <2>1. /\ Evaluate \/ ScorePoint
        /\ UNCHANGED tree
        /\ pc \in Unmeasured \/ IdentOf(tree) \notin seen
    BY <1>3, StepsToUnmeasured
  <2>2. ~Publish
    BY <2>1, EvaluateLeaves DEF ScorePoint, Publish, SearchTypeOK, InRounds, Gates
  <2>3. \A n \in Measured : history[n].child # IdentOf(tree)
    BY <2>1 DEF UnmeasuredInv
  <2> QED
    BY <2>1, <2>2, <2>3, MeasuredGrows DEF IdentOf
<1> QED
  BY <1>2, <1>3 DEF UnmeasuredInv

LEMMA StepMeasuresOnce ==
    ASSUME SearchTypeOK, SearchTypeOK', RoundInv, ScoreInv, UnmeasuredInv,
           NeverMeasuredTwice, Next
    PROVE  NeverMeasuredTwice'
<1>1. CASE Publish
  <2>1. \A n \in Measured : history[n].child # IdentOf(tree)
    BY <1>1 DEF Publish, UnmeasuredInv, Unmeasured
  <2> QED
    BY <1>1, <2>1, MeasuredGrows DEF NeverMeasuredTwice
<1>2. CASE ~Publish
  BY <1>2, MeasuredGrows DEF NeverMeasuredTwice
<1> QED
  BY <1>1, <1>2

-----------------------------------------------------------------------------
(***************************************************************************)
(* The parent                                                              *)
(***************************************************************************)

(* The admission that the parent stands on: on record, or cut short, and   *)
(* no admission on record is later.                                        *)
StandsOn(n) ==
    /\ history[n].child = IdentOf(parentTree)
    /\ history[n].verdict \in Admits
    /\ history[n].it \in AdmittedIterations \/ CutShort(history[n].it)
    /\ \A i \in AdmittedIterations : i <= history[n].it

(* An admission goes on record as its iteration ends, and in no other way. *)
LEMMA AdmittedSteps ==
    ASSUME SearchTypeOK, RoundInv, Next
    PROVE  /\ Within => AdmittedIterations' = AdmittedIterations
           /\ Ends => AdmittedIterations' =
                          IF records'[it] \in Admits THEN AdmittedIterations \union {it}
                          ELSE AdmittedIterations
           /\ \A i \in AdmittedIterations : i \in Nat /\ (pc # "done" => i < it)
           /\ it \in 1..Iters /\ it \in Nat
<1>0. it \in 1..Iters /\ Iters \in Nat /\ it \in Nat
  BY SearchAssumption DEF SearchTypeOK
<1>1. ASSUME Within
      PROVE  AdmittedIterations' = AdmittedIterations
  <2>1. \A i \in 1..Iters : Over(i) => records'[i] = records[i]
    BY <1>1, WithinLeaves, OverWithin
  <2> QED
    BY <1>1, <2>1, OverWithin DEF AdmittedIterations
<1>2. ASSUME Ends
      PROVE  AdmittedIterations' =
                 IF records'[it] \in Admits THEN AdmittedIterations \union {it}
                 ELSE AdmittedIterations
  <2>1. /\ EndIteration /\ pc # "done"
        /\ \A i \in 1..Iters : i # it => records'[i] = records[i]
    BY <1>2, EndsLeave
  <2>2. \A i \in 1..Iters : (Over(i)' <=> i <= it) /\ (Over(i) <=> i < it)
    BY <2>1, OverAtEnd
  <2> QED
    BY <1>0, <2>1, <2>2 DEF AdmittedIterations
<1>3. \A i \in AdmittedIterations : i \in Nat /\ (pc # "done" => i < it)
  BY <1>0 DEF AdmittedIterations, Over
<1> QED
  BY <1>0, <1>1, <1>2, <1>3

(* An iteration that is cut short stays so; a running one is, whatever its *)
(* record comes to say, unless it says how it was scored.                  *)
LEMMA CutShortSteps ==
    ASSUME SearchTypeOK, RoundInv, Next, NEW i \in 1..Iters, CutShort(i)
    PROVE  \/ Ends /\ i = it /\ records'[it] # "INFRA_FAILURE"
           \/ CutShort(i)'
<1>0. it \in Nat /\ i \in Nat
  BY SearchAssumption DEF SearchTypeOK
<1>1. CASE Within
  BY <1>1, WithinLeaves, OverWithin DEF CutShort
<1>2. CASE Ends
  <2>1. EndIteration /\ pc # "done" /\ (i # it => records'[i] = records[i])
    BY <1>2, EndsLeave
  <2>2. (Over(i)' <=> i <= it) /\ (Over(i) <=> i < it)
    BY <2>1, OverAtEnd
  <2> QED
    BY <1>0, <1>2, <2>1, <2>2 DEF CutShort
<1> QED
  BY <1>1, <1>2, NextSorts

(* As long as the parent does not move, it stands on what it stood on.     *)
LEMMA StaysParent ==
    ASSUME SearchTypeOK, SearchTypeOK', RoundInv, ScoreInv, EntryInv, ParentInv, Next,
           UNCHANGED <<parent, parentRtl, parentTree>>,
           Ends => records'[it] \notin Admits,
           admitted \subseteq admitted'
    PROVE  ParentInv'
<1>1. IdentOf(parentTree)' = IdentOf(parentTree) /\ ParentDiff'
  BY DEF IdentOf, ParentInv, ParentDiff
<1>2. AdmittedIterations' = AdmittedIterations
  BY AdmittedSteps, NextSorts
<1>3. CASE /\ AdmittedIterations = {}
           /\ parent = Baseline /\ parentRtl = None /\ parentTree = BaseTree
  BY <1>1, <1>2, <1>3 DEF ParentInv, ParentIsLastAdmitted
<1>4. CASE /\ IdentOf(parentTree) = <<parent, parentRtl>>
           /\ IdentOf(parentTree) \in admitted
           /\ \E n \in Measured : StandsOn(n)
  <2>1. PICK n \in Measured : StandsOn(n)
    BY <1>4
  <2>2. n \in Measured' /\ history'[n] = history[n] /\ n \in DOMAIN history
    BY MeasuredGrows
  <2>3. PICK i \in 1..Iters : i = history[n].it
    BY <2>2, HistoryEntries DEF SearchTypeOK
  <2>4. CutShort(i) => CutShort(i)'
    <3> SUFFICES ASSUME CutShort(i), ~CutShort(i)'
                 PROVE  FALSE
      OBVIOUS
    <3>1. Ends /\ i = it /\ records'[it] # "INFRA_FAILURE"
      BY CutShortSteps
    <3>2. pc # "done" /\ records'[it] = Verdict
      BY <3>1, EndsLeave, EndsWrite DEF Ends
    <3>3. history[n].verdict = Verdict
      BY <2>2, <2>3, <3>1, <3>2 DEF EntryInv
    <3> QED
      BY <2>1, <3>1, <3>2, <3>3 DEF StandsOn
  <2>5. StandsOn(n)'
    <3>1. i = history'[n].it
      BY <2>2, <2>3
    <3>2. CutShort(i) => CutShort(history[n].it)'
      BY <2>4, <3>1 DEF CutShort, Over
    <3> QED
      BY <1>1, <1>2, <2>1, <2>2, <2>3, <3>2 DEF StandsOn
  <2>6. <<parent, parentRtl>>' = IdentOf(parentTree)' /\ IdentOf(parentTree)' \in admitted'
    BY <1>1, <1>4
  <2> QED
    BY <1>1, <2>2, <2>5, <2>6 DEF ParentInv, ParentIsLastAdmitted, StandsOn
<1> QED
  BY <1>3, <1>4 DEF ParentInv, ParentIsLastAdmitted, StandsOn

(* An admitted design becomes the parent before its record says so.        *)
LEMMA MovedParentStands ==
    ASSUME SearchTypeOK, SearchTypeOK', RoundInv, PassedInv, ScoreInv, PublishedInv,
           HistoryInv, AdoptParent
    PROVE  ParentInv'
<1>1. /\ pc = "published" /\ score \in Admits
      /\ parent' = tree.cfg /\ parentRtl' = tree.rtl /\ parentTree' = tree
      /\ UNCHANGED <<it, admitted, history>>
  BY AdoptLeaves
<1>2. /\ tree.clean /\ IdentOf(tree) \in admitted /\ res.at = tree
  BY <1>1 DEF PassedInv, HasPassed, ScoreInv
<1> DEFINE n == Len(history)
<1>3. /\ n \in DOMAIN history /\ history[n].it = it
      /\ history[n].child = IdentOf(tree) /\ history[n].verdict = score
  BY <1>1, <1>2, PublishedIsLast
<1>4. n \in Measured'
  BY <1>1, <1>3, VerdictsAreApart DEF Measured
<1>5. Within /\ ~Over(it)'
  <2>1. Within /\ it \in Nat
    BY SearchAssumption DEF Within, SearchTypeOK
  <2>2. UNCHANGED it /\ pc' # "done"
    BY <2>1, WithinLeaves DEF Resting
  <2> QED
    BY <2>1, <2>2 DEF Over
<1>6. \A i \in AdmittedIterations' : i <= it
  BY <1>1, <1>5, AdmittedSteps, NextSorts
<1>7. ParentIsLastAdmitted'
  BY <1>1, <1>2, <1>3, <1>4, <1>5, <1>6 DEF ParentIsLastAdmitted, IdentOf, CutShort
<1> QED
  BY <1>1, <1>2, <1>7 DEF ParentInv, ParentDiff

(* The record of an admitted design confirms a move that was made.         *)
LEMMA RecordedParentStands ==
    ASSUME SearchTypeOK, SearchTypeOK', RoundInv, ScoreInv, PublishedInv, HistoryInv,
           ParentInv, MoveInv, Ends, records'[it] \in Admits
    PROVE  ParentInv'
<1>1. /\ pc = "record" /\ records'[it] = Verdict
      /\ UNCHANGED <<parent, parentRtl, parentTree, admitted, history>>
  BY EndsWrite, EndsLeave, VerdictsAreApart DEF Ends
<1>2. score \in Admits /\ Verdict = score
  BY <1>1, VerdictsAreApart DEF Verdict, RoundInv
<1>3. Moved /\ parentTree = res.at
  BY <1>1, <1>2 DEF MoveInv
<1> DEFINE n == Len(history)
<1>4. /\ n \in DOMAIN history /\ history[n].it = it
      /\ history[n].child = IdentOf(res.at) /\ history[n].verdict = score
  BY <1>1, <1>2, VerdictsAreApart, PublishedIsLast
<1>5. n \in Measured'
  BY <1>1, <1>2, <1>4, VerdictsAreApart DEF Measured
<1>6. /\ AdmittedIterations' = AdmittedIterations \union {it}
      /\ \A i \in AdmittedIterations' : i <= it
  <2>1. AdmittedIterations' = AdmittedIterations \union {it} /\ pc # "done"
    BY <1>1, AdmittedSteps, NextSorts
  <2> QED
    BY <2>1, AdmittedSteps, NextSorts
<1>7. IdentOf(parentTree) = <<parent, parentRtl>> /\ IdentOf(parentTree) \in admitted
  <2>1. IdentOf(parentTree) = <<parent, parentRtl>>
    BY <1>3 DEF Moved
  <2>2. parentRtl # None
    BY <2>1, NoneAssumption DEF IdentOf, SearchTypeOK, Tree
  <2> QED
    BY <2>1, <2>2 DEF ParentInv, ParentIsLastAdmitted
<1>8. ParentIsLastAdmitted'
  BY <1>1, <1>2, <1>3, <1>4, <1>5, <1>6, <1>7 DEF ParentIsLastAdmitted, IdentOf
<1> QED
  BY <1>1, <1>8 DEF ParentInv, ParentDiff

LEMMA StepKeepsParent ==
    ASSUME SearchTypeOK, SearchTypeOK', RoundInv, PassedInv, ScoreInv, PublishedInv,
           HistoryInv, EntryInv, ParentInv, MoveInv, Next
    PROVE  ParentInv'
<1>1. CASE AdoptParent
  BY <1>1, MovedParentStands
<1>2. CASE Ends /\ records'[it] \in Admits
  BY <1>2, RecordedParentStands
<1>3. CASE Ends /\ records'[it] \notin Admits
  BY <1>3, EndsLeave, StaysParent
<1>4. CASE Inside \/ Publish \/ RememberFailure
  <2>1. /\ UNCHANGED <<parent, parentRtl, parentTree>>
        /\ admitted \subseteq admitted'
    BY <1>4, InsideLeaves, PublishLeaves, RememberLeaves, WithinLeaves DEF Within
  <2>2. ~Ends
    BY <1>4, WithinLeaves, EndsLeave, EndingMovesOn DEF Within
  <2> QED
    BY <2>1, <2>2, StaysParent
<1> QED
  BY <1>1, <1>2, <1>3, <1>4, NextSorts DEF Within

(* A design with its measurement to come is not the parent.                *)
LEMMA NewIsNotParent ==
    ASSUME SearchTypeOK, UnmeasuredInv, ParentInv, pc \in Unmeasured
    PROVE  IdentOf(tree) # <<parent, parentRtl>>
<1>1. CASE parentRtl = None
  BY <1>1, NoneAssumption DEF IdentOf, SearchTypeOK, IterationTypeOK, Tree
<1>2. CASE parentRtl # None
  <2>1. \E n \in Measured : history[n].child = <<parent, parentRtl>>
    BY <1>2 DEF ParentInv, ParentIsLastAdmitted
  <2> QED
    BY <2>1 DEF UnmeasuredInv
<1> QED
  BY <1>1, <1>2

LEMMA StepKeepsMove ==
    ASSUME SearchTypeOK, SearchTypeOK', RoundInv, PassedInv, ScoreInv, PublishedInv,
           HistoryInv, UnmeasuredInv, ParentInv, MoveInv, Next
    PROVE  MoveInv'
<1>1. CASE ScorePoint
  <2>1. /\ pc = "passed" /\ pc' = "scored"
        /\ UNCHANGED <<parent, parentRtl, tree, res>>
    BY <1>1 DEF ScorePoint, givenVars, ladderVars
  <2>2. res.at = tree /\ IdentOf(tree) # <<parent, parentRtl>>
    BY <2>1, NewIsNotParent
       DEF PassedInv, HasPassed, Unmeasured, PastIdentity, PastLegality, PastScope
  <2> QED
    BY <2>1, <2>2 DEF MoveInv, Moved, IdentOf
<1>2. CASE Publish
  BY <1>2, PublishLeaves DEF MoveInv, Moved, IdentOf
<1>3. CASE AdoptParent
  <2>1. res.at = tree
    BY <1>3, AdoptLeaves DEF PassedInv, HasPassed
  <2>2. /\ Len(history) \in DOMAIN history /\ history[Len(history)].it = it
        /\ history[Len(history)].child = IdentOf(tree)
        /\ history[Len(history)].verdict = score
    BY <1>3, <2>1, AdoptLeaves, PublishedIsLast
  <2>3. Len(history) \in Measured'
    BY <1>3, <2>2, AdoptLeaves, VerdictsAreApart DEF Measured
  <2>4. Moved'
    BY <1>3, <2>1, AdoptLeaves, VerdictsAreApart DEF Moved, IdentOf
  <2> QED
    BY <1>3, <2>1, <2>2, <2>3, <2>4, AdoptLeaves DEF MoveInv, IdentOf
<1>4. CASE RollBackRejected
  <2>1. /\ UNCHANGED <<parent, parentRtl, score, res>> /\ pc' \in {"record", "raised"}
        /\ pc = "published" /\ score \notin Admits
    BY <1>4 DEF RollBackRejected, givenVars, ladderVars
  <2> QED
    BY <2>1 DEF MoveInv, Moved, IdentOf
<1>5. CASE EndingRaises
  BY <1>5 DEF EndingRaises, givenVars, builtVars, ladderVars, endVars, MoveInv,
     Moved, Measured, IdentOf
<1>6. CASE Begins \/ Evaluate \/ AbortRun \/ RecordFailure \/ RememberFailure \/ Ends
  <2>1. score' = None
    <3>1. CASE Begins \/ Evaluate
      BY <3>1, BeginLeaves, EvaluateLeaves DEF endVars, ScoreInv, SearchTypeOK, InRounds, Gates
    <3>2. CASE AbortRun \/ RecordFailure \/ RememberFailure
      BY <3>2 DEF AbortRun, RecordFailure, RememberFailure, endVars, ScoreInv
    <3>3. CASE Ends
      BY <3>3, EndsLeave, EndingMovesOn, ResetType
    <3> QED
      BY <1>6, <3>1, <3>2, <3>3
  <2> QED
    BY <2>1, VerdictsAreApart DEF MoveInv, Moved
<1> QED
  BY <1>1, <1>2, <1>3, <1>4, <1>5, <1>6, StepsOfARun

-----------------------------------------------------------------------------
(***************************************************************************)
(* The container                                                           *)
(***************************************************************************)

(* A rollback leaves the parent's tree, or its parameters alone.           *)
LEMMA RollbackRestores ==
    ASSUME SearchTypeOK, ParentDiff, Rollback
    PROVE  /\ \/ tree' = parentTree
              \/ ApplyMayFail /\ tree' = [parentTree EXCEPT !.rtl = BaseRtl]
           /\ toggles' = parent
<1>1. parentTree \in Tree /\ parentTree.cfg = parent /\ parentTree.clean = TRUE
  BY DEF SearchTypeOK, ParentDiff, Tree
<1>2. [cfg |-> parent, rtl |-> BaseRtl, clean |-> TRUE]
         = [parentTree EXCEPT !.rtl = BaseRtl]
  <2>1. [parentTree EXCEPT !.rtl = BaseRtl]
           = [cfg |-> parentTree.cfg, rtl |-> BaseRtl, clean |-> parentTree.clean]
    BY <1>1 DEF Tree
  <2> QED
    BY <1>1, <2>1
<1> QED
  BY <1>2 DEF Rollback, RollbackTo

LEMMA StepKeepsRest ==
    ASSUME SearchTypeOK, SearchTypeOK', RoundInv, PassedInv, ScoreInv,
           ParentDiff, RestInv, Next
    PROVE  RestInv'
<1>1. ASSUME Within, pc' \in {"remember", "record"}
      PROVE  /\ \/ tree' = parentTree'
                \/ ApplyMayFail /\ tree' = [parentTree' EXCEPT !.rtl = BaseRtl]
             /\ toggles' = parent'
  <2>1. CASE RecordFailure \/ RollBackRejected
    <3>1. Rollback /\ UNCHANGED <<parent, parentTree>>
      BY <1>1, <2>1 DEF RecordFailure, RollBackRejected, givenVars
    <3> QED
      BY <3>1, RollbackRestores
  <2>2. CASE RememberFailure
    BY <2>2, RememberLeaves DEF RestInv
  <2>3. CASE AdoptParent
    BY <2>3, AdoptLeaves DEF PassedInv, HasPassed
  <2>4. ~(Begins \/ Evaluate \/ AbortRun \/ ScorePoint \/ Publish \/ EndingRaises)
    BY <1>1, BeginLeaves, EvaluateLeaves
       DEF SearchTypeOK, InRounds, Gates, AbortRun, ScorePoint, Publish, EndingRaises
  <2> QED
    BY <1>1, <2>1, <2>2, <2>3, <2>4 DEF Within, Inside
<1>2. CASE Within
  BY <1>1, <1>2, WithinLeaves DEF RestInv, TreeIsParentAtRest
<1>3. CASE Ends
  <2>1. EndIteration /\ pc # "done" /\ pc' \in Resting /\ pc' \notin {"remember", "record"}
    BY <1>3, EndsLeave, EndingMovesOn DEF Resting
  <2>2. CASE ContainRaise
    <3>1. Finished' = it /\ it > 0 /\ records'[it] = "INFRA_FAILURE"
      BY <1>3, <2>1, <2>2, OverAtEnd, EndsWrite DEF SearchTypeOK
    <3>2. JustRaised'
      BY <3>1 DEF JustRaised
    <3> QED
      BY <2>1, <3>2 DEF RestInv, TreeIsParentAtRest
  <2>3. CASE WriteRecord
    <3>1. UNCHANGED <<parent, parentTree, tree, toggles>> /\ pc = "record"
      BY <1>3, <2>3, EndsLeave, EndsWrite DEF builtVars
    <3> QED
      BY <2>1, <3>1 DEF RestInv, TreeIsParentAtRest, ParentDiff
  <2> QED
    BY <1>3, <2>2, <2>3 DEF Ends
<1> QED
  BY <1>2, <1>3, NextSorts

-----------------------------------------------------------------------------
(***************************************************************************)
(* The invariant of a run                                                  *)
(***************************************************************************)

LEMMA RunInvInit == Init => RunInv
<1> SUFFICES ASSUME Init
             PROVE  RunInv
  OBVIOUS
<1> USE DEF Init
<1>1. tree \in Tree /\ parentTree = BaseTree
  BY BaseTreeType, SearchAssumption
<1>2. toggles \in Config /\ Baseline \in Config
  BY <1>1, ConstAssumption DEF Tree
<1>3. IterationTypeOK
  BY <1>1, <1>2, BaseTreeType, SearchAssumption
     DEF IterationTypeOK, NoRecord, NoOutcome, OutcomeSet
<1>4. SearchTypeOK
  BY <1>3, BaseTreeType, SearchAssumption, EmptySeq DEF SearchTypeOK, Place, Resting
<1>5. RoundInv /\ PassedInv /\ ScoreInv /\ PublishedInv /\ MoveInv
  BY DEF RoundInv, PassedInv, ScoreInv, PublishedInv, MoveInv, Moved, HasPassed,
         InRounds, Gates
<1>6. DOMAIN history = {} /\ Measured = {}
  BY DEF Measured
<1>7. UnmeasuredInv /\ NeverMeasuredTwice /\ HistoryInv /\ EntryInv
  BY <1>6 DEF UnmeasuredInv, NeverMeasuredTwice, HistoryInv, EntryInv, Unmeasured,
     PastIdentity, PastLegality, PastScope
<1>8. \A i \in 1..Iters : ~Over(i)
  BY DEF Over
<1>9. RecordInv
  BY <1>6, <1>8 DEF RecordInv, FailureFiled
<1>10. AdmittedIterations = {}
  BY <1>8 DEF AdmittedIterations
<1>11. ParentInv
  BY <1>10, BaseTreeType DEF ParentInv, ParentDiff, ParentIsLastAdmitted
<1>12. RestInv
  <2>1. Finished = 0
    BY DEF Finished
  <2>2. SeedTrees = {} => tree = BaseTree /\ toggles = Baseline
    BY BaseTreeType
  <2> QED
    BY <1>1, <2>1, <2>2, BaseTreeType DEF RestInv, TreeIsParentAtRest
<1> QED
  BY <1>4, <1>5, <1>7, <1>9, <1>11, <1>12 DEF RunInv

LEMMA RunInvStep == RunInv /\ [Next]_vars => RunInv'
<1>1. ASSUME RunInv, Next
      PROVE  RunInv'
  <2> USE <1>1 DEF RunInv
  <2>1. SearchTypeOK'
    BY StepKeepsType
  <2>2. RoundInv' /\ HistoryInv'
    BY <2>1, StepKeepsRounds, StepKeepsHistory
  <2>3. RecordInv'
    BY <2>1, WithinKeepsRecords, EndsKeepRecords, NextSorts
  <2>4. (PassedInv /\ ScoreInv /\ PublishedInv)'
    BY <2>1, <2>2, StepKeepsPassed, StepKeepsScore, StepKeepsPublished
  <2>5. (UnmeasuredInv /\ NeverMeasuredTwice /\ EntryInv)'
    BY <2>1, <2>2, StepKeepsUnmeasured, StepMeasuresOnce, StepKeepsEntry
  <2>6. (ParentInv /\ MoveInv)'
    BY <2>1, StepKeepsParent, StepKeepsMove
  <2>7. RestInv'
    BY <2>1, StepKeepsRest DEF ParentInv
  <2> QED
    BY <2>1, <2>2, <2>3, <2>4, <2>5, <2>6, <2>7
<1>2. ASSUME RunInv, UNCHANGED vars
      PROVE  RunInv'
  <2> USE <1>2 DEF RunInv, vars, endVars
  <2>1. SearchTypeOK'
    BY StutterKeepsType DEF SearchTypeOK, iterVars, givenVars
  <2> USE DEF iterVars, givenVars, builtVars, ladderVars, repairVars
  <2>2. LadderInv => LadderInv'
    BY DEF LadderInv, AdmissibleSoFar, MutationSoFar, FailureSoFar,
           ConfigReverted, RtlReverted, IdentOf
  <2>3. (RoundInv /\ PassedInv /\ ScoreInv /\ PublishedInv)'
    BY <2>2 DEF RoundInv, PassedInv, ScoreInv, PublishedInv, IdentOf
  <2>4. (UnmeasuredInv /\ NeverMeasuredTwice /\ HistoryInv /\ EntryInv)'
    BY DEF UnmeasuredInv, NeverMeasuredTwice, HistoryInv, EntryInv, Verdict, Measured,
           IdentOf
  <2>5. RecordInv'
    BY DEF RecordInv, FailureFiled, Over
  <2>6. (ParentInv /\ MoveInv)'
    BY DEF ParentInv, ParentDiff, ParentIsLastAdmitted, AdmittedIterations, CutShort,
           MoveInv, Moved, Measured, Over, IdentOf
  <2>7. RestInv'
    BY DEF RestInv, TreeIsParentAtRest, JustRaised, Finished
  <2> QED
    BY <2>1, <2>3, <2>4, <2>5, <2>6, <2>7
<1> QED
  BY <1>1, <1>2

LEMMA RunCorrect == Spec => []RunInv
BY RunInvInit, RunInvStep, PTL DEF Spec

(* The parent moves in one step of an iteration and stays until its end.   *)
LEMMA AdoptMoves ==
    ASSUME RunInv, RunInv', AdoptParent
    PROVE  ~Moved /\ Moved'
BY AdoptLeaves DEF RunInv, MoveInv

LEMMA EndsUnmoved ==
    ASSUME RunInv, Ends
    PROVE  ~Moved'
BY EndsLeave, EndingMovesOn, ResetType DEF RunInv, Moved

LEMMA OnlyAdoptMoves ==
    ASSUME RunInv, RunInv', Within, ~AdoptParent
    PROVE  UNCHANGED <<parent, parentRtl, parentTree, Moved>>
<1> USE DEF RunInv
<1>1. UNCHANGED <<parent, parentRtl, parentTree>>
  BY InsideLeaves, PublishLeaves, RememberLeaves DEF Within
<1>2. CASE Begins \/ Evaluate
  <2>1. score = None /\ score' = None
    BY <1>2, BeginLeaves, EvaluateLeaves
       DEF ScoreInv, endVars, SearchTypeOK, InRounds, Gates
  <2> QED
    BY <1>1, <2>1 DEF Moved
<1>3. CASE AbortRun \/ RecordFailure \/ RememberFailure
  <2>1. score = None /\ score' = None
    BY <1>3 DEF AbortRun, RecordFailure, RememberFailure, ScoreInv, endVars
  <2> QED
    BY <1>1, <2>1 DEF Moved
<1>4. CASE ScorePoint \/ Publish
  <2>1. Moved = FALSE
    BY <1>4 DEF ScorePoint, Publish, ScoreInv, MoveInv, Moved
  <2>2. Moved' = FALSE
    BY <1>4 DEF ScorePoint, Publish, MoveInv
  <2> QED
    BY <1>1, <2>1, <2>2
<1>5. CASE RollBackRejected \/ EndingRaises
  <2>1. UNCHANGED <<parent, parentRtl, score, res>>
    BY <1>5 DEF RollBackRejected, EndingRaises, givenVars, ladderVars, endVars
  <2> QED
    BY <1>1, <2>1 DEF Moved, IdentOf
<1> QED
  BY <1>2, <1>3, <1>4, <1>5 DEF Within, Inside

-----------------------------------------------------------------------------
(***************************************************************************)
(* What a run promises                                                     *)
(***************************************************************************)

(* Every variable of a run keeps its type.                                 *)
THEOREM RunTypeCorrect == Spec => []SearchTypeOK
<1>1. RunInv => SearchTypeOK
  BY DEF RunInv
<1> QED
  BY <1>1, RunCorrect, PTL

(* Between two iterations the container holds exactly the parent, after    *)
(* any sequence of proposals, repairs, failures, rejections and admissions *)
(* (rollback_to_parent).                                                   *)
THEOREM ContainerHoldsParent == Spec => []TreeIsParentAtRest
<1>1. RunInv => TreeIsParentAtRest
  BY DEF RunInv, RestInv
<1> QED
  BY <1>1, RunCorrect, PTL

(* The parent is the design of the last admission that was recorded, or of *)
(* a later one that a raise cut short after the parent had moved; state,   *)
(* RTL digest and diff are of that one design (main(), from the move of    *)
(* the parent to the last write of the record).                            *)
THEOREM ParentWasAdmittedLast == Spec => []ParentIsLastAdmitted
<1>1. RunInv => ParentIsLastAdmitted
  BY DEF RunInv, ParentInv
<1> QED
  BY <1>1, RunCorrect, PTL

(* No design is measured twice in a run.                                   *)
THEOREM EveryMeasurementIsNew == Spec => []NeverMeasuredTwice
<1>1. RunInv => NeverMeasuredTwice
  BY DEF RunInv
<1> QED
  BY <1>1, RunCorrect, PTL

(* The history and the records tell one story.                             *)
THEOREM HistoryMatchesRecords == Spec => []HistoryAgreesWithRecords
<1>1. RunInv => HistoryAgreesWithRecords
  <2>1. RunInv => \A i \in 1..Iters : Over(i) => records[i] # None
    BY NoVerdictAssumption DEF RunInv, RecordInv
  <2> QED
    BY <2>1 DEF RunInv, HistoryInv, RecordInv, HistoryAgreesWithRecords
<1> QED
  BY <1>1, RunCorrect, PTL

(* In a whole run as in one iteration on its own, what reaches N60 is in   *)
(* scope, legal, recorded as itself and built with its own toggles.        *)
THEOREM MeasuredDesignsAreAdmissible == Spec => []PassIsAdmissible
<1>1. RunInv => PassIsAdmissible
  <2>1. RunInv /\ pc = "passed" => PassIsAdmissible
    BY LadderMeansAdmissible DEF RunInv, RoundInv, InRounds, SearchTypeOK
  <2> QED
    BY <2>1 DEF PassIsAdmissible
<1> QED
  BY <1>1, RunCorrect, PTL

(* It still carries its mutation.                                          *)
THEOREM MeasuredDesignsKeepMutation == Spec => []RepairKeepsMutation
<1>1. RunInv => RepairKeepsMutation
  <2>1. RunInv /\ pc = "passed" => RepairKeepsMutation
    BY LadderMeansMutation DEF RunInv, RoundInv, InRounds, SearchTypeOK
  <2> QED
    BY <2>1 DEF RepairKeepsMutation
<1> QED
  BY <1>1, RunCorrect, PTL

(* A verdict a run records is never about a repair.                        *)
THEOREM RecordedVerdictsAreAboutTheDesign == Spec => []VerdictIsAboutTheDesign
<1>1. RunInv => VerdictIsAboutTheDesign
  <2>1. RunInv /\ pc = "failed" => VerdictIsAboutTheDesign
    BY LadderMeansVerdict DEF RunInv, RoundInv, InRounds
  <2> QED
    BY <2>1 DEF VerdictIsAboutTheDesign
<1> QED
  BY <1>1, RunCorrect, PTL

(* No iteration of a run overspends: the budget is given back with the     *)
(* locals of the iteration, and with nothing else.                         *)
THEOREM RunStaysInBudget == Spec => []BudgetRespected
<1>1. Init => BudgetRespected
  BY ConstAssumption, RetriesType DEF Init, BudgetRespected, Budget
<1>2. RunInv /\ BudgetRespected /\ [Next]_vars => BudgetRespected'
  <2> SUFFICES ASSUME RunInv, BudgetRespected, [Next]_vars
               PROVE  BudgetRespected'
    OBVIOUS
  <2>1. CASE Evaluate
    BY <2>1, EvaluationKeepsBudget DEF RunInv, SearchTypeOK, Evaluate
  <2>2. CASE Ends
    <3>1. attempts' = 0 /\ perClass' = [c \in Class |-> 0]
      BY <2>2, EndsLeave, EndingMovesOn, ResetType DEF RunInv
    <3>2. Budget' \in Nat
      BY ConstAssumption DEF Budget
    <3> QED
      BY <3>1, <3>2, RetriesType DEF BudgetRespected
  <2>3. CASE ~Evaluate /\ ~Ends
    <3>1. UNCHANGED <<it, attempts, perClass>>
      BY <2>3, StepsOfARun, BeginLeaves
         DEF AbortRun, RecordFailure, RememberFailure, ScorePoint, Publish,
             AdoptParent, RollBackRejected, EndingRaises,
             vars, iterVars, givenVars, repairVars
    <3> QED
      BY <3>1 DEF BudgetRespected, Budget
  <2> QED
    BY <2>1, <2>2, <2>3
<1> QED
  BY <1>1, <1>2, RunCorrect, PTL DEF Spec
=============================================================================
