----------------------------- MODULE SearchLoop -----------------------------
(***************************************************************************)
(* The whole run of src/src/loop.py's main(): the iterations, each of them *)
(* a proposal, the ladder and repairs of RepairLoop, and then one of three *)
(* endings.                                                                *)
(*                                                                         *)
(*   failed   record, roll the tree back, remember the design, record      *)
(*   passed   score (N60), publish, move the parent or roll back, record   *)
(*   raised   contained: the record says INFRA_FAILURE                     *)
(*                                                                         *)
(* An ending is not one step: a call that raises between two of its steps  *)
(* leaves the first ones done, a parent that has moved included.  What N60 *)
(* decides is left open here (any verdict); ParetoAdmission models it.     *)
(***************************************************************************)
EXTENDS RepairLoop, Sequences

CONSTANTS
    Iters,          \* --iters
    ApplyMayFail,   \* whether `git apply` of the parent's diff may fail
    SeedTrees       \* the trees a --seed-diff may start the container with

ASSUME SearchAssumption ==
    /\ Iters \in Nat \ {0}
    /\ ApplyMayFail \in BOOLEAN
    /\ SeedTrees \subseteq Tree

VARIABLES
    parentTree,     \* what parent_diff restores; BaseTree for None
    base,           \* base_point: the identity the run is scored against
    admitted,       \* identities in the front or the archive
    score,          \* this iteration's N60 verdict
    seenInfo,       \* seen_info: what an evaluated identity is
    history,        \* history["iterations"]
    records         \* the verdict in iter_NNN.json, None until written

endVars == <<parentTree, base, admitted, score, seenInfo, history, records>>
vars == <<iterVars, endVars>>

Admits == {"ADMIT_FRONT", "ADMIT_ARCHIVE"}
Scores == Admits \union {"REJECT", "INFEASIBLE"}

RunVerdict == FailVerdict \union Scores

ASSUME NoVerdictAssumption == None \notin RunVerdict

(* An entry of the history: the iteration, the state hash it is filed       *)
(* under, the design it is about (the code keeps its mutation and verdict;  *)
(* an entry made from a record may lack the RTL).                           *)
Entry == [it: 1..Iters, state: Config, child: Config \X (Rtl \union {None}),
          verdict: RunVerdict]

Resting == {"start", "done"}

-----------------------------------------------------------------------------
(***************************************************************************)
(* Starting an iteration.  A seed is in the container, not in the parent:  *)
(* a rollback of the first iteration loses it.                             *)
(***************************************************************************)

Init ==
    /\ it = 1
    /\ parent = Baseline /\ parentRtl = None /\ parentTree = BaseTree
    /\ llmOk = TRUE
    /\ tree \in {BaseTree} \union SeedTrees
    /\ toggles \in {Baseline, tree.cfg}
    /\ seen = {} /\ prevNet = None /\ prevRtl = None
    /\ pc = "start"
    /\ rec = NoRecord
    /\ proposed = None /\ proposedRtl = None /\ lastIdent = None
    /\ res = NoOutcome
    /\ attempts = 0 /\ perClass = [c \in Class |-> 0]
    /\ base = None /\ admitted = {} /\ score = None
    /\ seenInfo = [d \in Ident |-> None]
    /\ history = <<>>
    /\ records = [i \in 1..Iters |-> None]

(* The locals of an iteration.  main() sets them when the next iteration   *)
(* starts; nothing reads them before, so here they are reset as the last   *)
(* one ends.                                                               *)
ResetLocals ==
    /\ rec' = NoRecord
    /\ proposed' = None /\ proposedRtl' = None /\ lastIdent' = None
    /\ res' = NoOutcome
    /\ attempts' = 0 /\ perClass' = [c \in Class |-> 0]
    /\ score' = None
    /\ llmOk' = TRUE

(* Fault: the handler retries the iteration it contains.                   *)
EndIteration_Retries ==
    /\ pc' = IF it < Iters THEN "start" ELSE "done"
    /\ UNCHANGED it
    /\ ResetLocals

(* Fault: the loop variable moves on past the last iteration.              *)
EndIteration_RunsOver ==
    /\ pc' = IF it <= Iters THEN "start" ELSE "done"
    /\ it' = it + 1
    /\ ResetLocals

EndIteration ==
    /\ pc' = IF it < Iters THEN "start" ELSE "done"
    /\ it' = IF it < Iters THEN it + 1 ELSE it
    /\ ResetLocals

(* N10.  Iteration 1 proposes nothing; a control arm writes a state and    *)
(* regenerates the toggles with it; an agent leaves any tree it can,       *)
(* whether or not its call succeeds; --skip-llm evaluates what is there.   *)
NoProposal ==
    /\ it = 1 \/ Arm = "skip"
    /\ UNCHANGED <<tree, toggles, llmOk>>

ControlProposes ==
    /\ it > 1 /\ Arm = "control"
    /\ \E c \in Config : tree' = [tree EXCEPT !.cfg = c] /\ toggles' = c
    /\ UNCHANGED llmOk

AgentProposes ==
    /\ it > 1 /\ Arm = "agent"
    /\ llmOk' \in BOOLEAN
    /\ tree' \in AgentTree \union {tree}
    /\ UNCHANGED toggles

Start ==
    /\ pc = "start"
    /\ NoProposal \/ ControlProposes \/ AgentProposes
    /\ pc' = "scope"
    /\ UNCHANGED <<it, parent, parentRtl, seen, prevNet, prevRtl,
                   ladderVars, repairVars, endVars>>

(* The proposer's call raises (a usage limit outlasting every wait, a lost *)
(* worker), after editing the tree or before; a control arm's between its  *)
(* two files, perhaps.                                                     *)
ProposerRaises ==
    /\ pc = "start"
    /\ it > 1 /\ Arm # "skip"
    /\ \/ UNCHANGED <<tree, toggles>>
       \/ Arm = "agent" /\ tree' \in AgentTree /\ UNCHANGED toggles
       \/ /\ Arm = "control"
          /\ \E c \in Config : /\ tree' = [tree EXCEPT !.cfg = c]
                              /\ toggles' \in {toggles, c}
    /\ pc' = "raised"
    /\ UNCHANGED <<it, parent, parentRtl, llmOk, seen, prevNet, prevRtl,
                   ladderVars, repairVars, endVars>>

(* N74, an immutable input changed; or the workload header is gone when    *)
(* the kernel's inputs are read.  SystemExit is not contained.             *)
AbortRun ==
    /\ pc \in {"start", "elaborate"}
    /\ pc' = "aborted"
    /\ UNCHANGED <<givenVars, tree, builtVars, ladderVars, repairVars, endVars>>

Evaluate == EvaluateAndRepair /\ UNCHANGED endVars

-----------------------------------------------------------------------------
(***************************************************************************)
(* Ending an iteration                                                     *)
(***************************************************************************)

(* Fault: the parameters are rewritten and the RTL is left alone.          *)
Rollback_ParamsOnly ==
    /\ tree' = [cfg |-> parent, rtl |-> tree.rtl, clean |-> TRUE]
    /\ toggles' = parent

(* Fault: the generated toggles are left as the failed design had them.    *)
Rollback_KeepsToggles == tree' = parentTree /\ UNCHANGED toggles

(* rollback_to_parent: reset and re-apply the parent's own diff; if that   *)
(* does not apply, the pinned commit with the parent's parameters.  Either *)
(* way the toggles are regenerated from the parent.                        *)
RollbackTo(state, itsTree) ==
    /\ \/ tree' = itsTree
       \/ /\ ApplyMayFail /\ itsTree # BaseTree
          /\ tree' = [cfg |-> state, rtl |-> BaseRtl, clean |-> TRUE]
    /\ toggles' = state

Rollback == RollbackTo(parent, parentTree)

(* Fault: a contained raise leaves the record as it was.                   *)
Writes_NotAfterRaise(verdict) ==
    records' = IF pc = "raised" THEN records ELSE [records EXCEPT ![it] = verdict]

(* iter_NNN.json.                                                          *)
Writes(verdict) == records' = [records EXCEPT ![it] = verdict]

(* The failure is written down, then the tree is rolled back.              *)
RecordFailure ==
    /\ pc = "failed"
    /\ Writes(res.verdict)
    /\ \/ Rollback /\ pc' = "remember"
       \/ UNCHANGED <<tree, toggles>> /\ pc' = "raised"
    /\ UNCHANGED <<givenVars, seen, prevNet, prevRtl, ladderVars, repairVars>>
    /\ UNCHANGED <<parentTree, base, admitted, score, seenInfo, history>>

(* child is not None and the record has a state hash.                      *)
HasDesign ==
    /\ res.verdict \notin NoDesign
    /\ res.verdict # "SCOPE_VIOLATION"
    /\ rec.cfg # None

(* seen_info and the history remember the failure under the record's       *)
(* identity, as the last round left it.  history.json is written here, the *)
(* record once more at the end.                                            *)
RememberFailure ==
    /\ pc = "remember"
    /\ LET at == <<rec.cfg, rec.rtl>>
           entry == [it |-> it, state |-> rec.cfg, child |-> IdentOf(res.at),
                     verdict |-> res.verdict]
       IN \/ /\ HasDesign
             /\ seenInfo' = IF rec.rtl # None
                            THEN [seenInfo EXCEPT ![at] = res.verdict]
                            ELSE seenInfo
             /\ history' = Append(history, entry)
          \/ ~HasDesign /\ UNCHANGED <<seenInfo, history>>
    /\ pc' = "record"
    /\ UNCHANGED <<givenVars, tree, builtVars, ladderVars, repairVars>>
    /\ UNCHANGED <<parentTree, base, admitted, score, records>>

(* N60.  The first design measured in the run is the reference and is      *)
(* admitted without being judged.                                          *)
ScorePoint ==
    /\ pc = "passed"
    /\ \/ base = None /\ base' = IdentOf(tree) /\ score' = "ADMIT_FRONT"
       \/ base # None /\ UNCHANGED base /\ score' \in Scores
    /\ admitted' = IF score' \in Admits
                   THEN admitted \union {IdentOf(tree)} ELSE admitted
    /\ pc' = "scored"
    /\ UNCHANGED <<givenVars, tree, builtVars, ladderVars, repairVars>>
    /\ UNCHANGED <<parentTree, seenInfo, history, records>>

(* The measurement joins the history, and history.json is written.         *)
Publish ==
    /\ pc = "scored"
    /\ history' = Append(history, [it |-> it, state |-> tree.cfg,
                                   child |-> IdentOf(tree),
                                   verdict |-> score])
    /\ pc' = "published"
    /\ UNCHANGED <<givenVars, tree, builtVars, ladderVars, repairVars>>
    /\ UNCHANGED <<parentTree, base, admitted, score, seenInfo, records>>

InformsOfScore == seenInfo' = [seenInfo EXCEPT ![IdentOf(tree)] = score]

(* Fault: the diff of the new parent is not kept.                          *)
MovesParentTo_NoDiff(t) ==
    parent' = t.cfg /\ parentRtl' = t.rtl /\ UNCHANGED parentTree

MovesParentTo(t) == parent' = t.cfg /\ parentRtl' = t.rtl /\ parentTree' = t

(* An admitted design becomes the parent, tree and RTL with it.  Nothing   *)
(* but memory changes: the record that says so is yet to be written.       *)
AdoptParent ==
    /\ pc = "published"
    /\ score \in Admits
    /\ InformsOfScore
    /\ MovesParentTo(tree)
    /\ pc' = "record"
    /\ UNCHANGED <<it, llmOk, tree, builtVars, ladderVars, repairVars>>
    /\ UNCHANGED <<base, admitted, score, history, records>>

(* A design that is not admitted is rolled back, if the rollback returns.  *)
RollBackRejected ==
    /\ pc = "published"
    /\ score \notin Admits
    /\ InformsOfScore
    /\ \/ Rollback /\ pc' = "record"
       \/ UNCHANGED <<tree, toggles>> /\ pc' = "raised"
    /\ UNCHANGED <<givenVars, seen, prevNet, prevRtl, ladderVars, repairVars>>
    /\ UNCHANGED <<parentTree, base, admitted, score, history, records>>

(* The last write of iter_NNN.json, of a measured or of a failed design.   *)
WriteRecord ==
    /\ pc = "record"
    /\ Writes(IF score = None THEN res.verdict ELSE score)
    /\ EndIteration
    /\ UNCHANGED <<parent, parentRtl, tree, builtVars>>
    /\ UNCHANGED <<parentTree, base, admitted, seenInfo, history>>

(* A step of an ending raises: scoring, writing the status or history.json *)
(* (whose entry is in memory by then), remembering a failure, the record.  *)
EndingRaises ==
    /\ pc \in {"passed", "scored", "published", "remember", "record"}
    /\ pc' = "raised"
    /\ UNCHANGED <<givenVars, tree, builtVars, ladderVars, repairVars, endVars>>

(* The handler around an iteration: the record is overwritten and the next *)
(* iteration starts.  Nothing is rolled back, nor is a move taken back.    *)
ContainRaise ==
    /\ pc = "raised"
    /\ Writes("INFRA_FAILURE")
    /\ EndIteration
    /\ UNCHANGED <<parent, parentRtl, tree, builtVars>>
    /\ UNCHANGED <<parentTree, base, admitted, seenInfo, history>>

Next ==
    \/ Start \/ ProposerRaises \/ AbortRun
    \/ Evaluate
    \/ RecordFailure \/ RememberFailure
    \/ ScorePoint \/ Publish \/ AdoptParent \/ RollBackRejected
    \/ WriteRecord \/ EndingRaises \/ ContainRaise

(* The driver is one process and every call it makes returns, raises or    *)
(* runs into its time limit: as long as it can move, it does.              *)
Spec == Init /\ [][Next]_vars /\ WF_vars(Next)

-----------------------------------------------------------------------------
(***************************************************************************)
(* Properties                                                              *)
(***************************************************************************)

(* Iteration i is over, its record final.                                  *)
Over(i) == i < it \/ pc = "done"

(* The number of iterations that are over.                                 *)
Finished == IF pc = "done" THEN Iters ELSE it - 1

Measured == {n \in DOMAIN history : history[n].verdict \in Scores}

AdmittedIterations == {i \in 1..Iters : Over(i) /\ records[i] \in Admits}

(* This iteration's design is scored and is the parent by now.  A scored   *)
(* design is a new one, so it is not the parent before the move.           *)
Moved == score # None /\ <<parent, parentRtl>> = IdentOf(res.at)

(* Iteration i has no record of its verdict, or a raise took its place.    *)
CutShort(i) == ~Over(i) \/ records[i] = "INFRA_FAILURE"

(* The previous iteration raised and was contained.                        *)
JustRaised == Finished > 0 /\ records[Finished] = "INFRA_FAILURE"

(* What runs next in a run: a step of the ladder or of the repair loop, or *)
(* one of the endings.                                                     *)
Place == Gates \union Settled \union Resting
             \union {"triage", "repair", "remember", "scored", "published", "record",
              "aborted"}

(* Every variable of the run has its type.                                 *)
SearchTypeOK ==
    /\ IterationTypeOK
    /\ pc \in Place
    /\ it \in 1..Iters
    /\ parentTree \in Tree
    /\ base \in Ident \union {None}
    /\ admitted \subseteq Ident
    /\ score \in Scores \union {None}
    /\ seenInfo \in [Ident -> RunVerdict \union {None}]
    /\ history \in Seq(Entry)
    /\ records \in [1..Iters -> RunVerdict \union {None}]

(* Between two iterations the container holds exactly the parent, its RTL  *)
(* and its generated toggles included, whatever the last proposer, its     *)
(* repairs and their failures left behind (rollback_to_parent and the      *)
(* adoption of an admitted tree).  The exceptions are an iteration that     *)
(* raised and a seed that has yet to be evaluated.                         *)
TreeIsParentAtRest ==
    /\ pc \in Resting
    /\ ~JustRaised /\ ~ApplyMayFail /\ (Finished > 0 \/ SeedTrees = {})
    =>
        /\ tree = parentTree
        /\ tree.cfg = parent
        /\ toggles = parent

(* The parent is the design of the last admission on record, or of a later *)
(* one whose record a raise cut short; before the first one it is the      *)
(* baseline.  An admission that raised before the parent moved changes     *)
(* nothing; one that raised after it leaves all of the move: the three     *)
(* things the code keeps for the parent (state, RTL digest, diff) are of   *)
(* that one design, which is in the front or the archive.                  *)
ParentIsLastAdmitted ==
    \/ /\ AdmittedIterations = {}
       /\ parent = Baseline /\ parentRtl = None /\ parentTree = BaseTree
    \/ /\ IdentOf(parentTree) = <<parent, parentRtl>>
       /\ IdentOf(parentTree) \in admitted
       /\ \E n \in Measured :
             /\ history[n].child = IdentOf(parentTree)
             /\ history[n].verdict \in Admits
             /\ history[n].it \in AdmittedIterations \/ CutShort(history[n].it)
             /\ \A i \in AdmittedIterations : i <= history[n].it

(* No design is measured twice: not by a proposer that repeats one, not by *)
(* a repair that turns a new design into an old one, not after a raise     *)
(* left an old one in the tree (the identity gate and `seen`).             *)
NeverMeasuredTwice ==
    \A m, n \in Measured : history[m].child = history[n].child => m = n

(* The history the proposers are shown and the records on disk tell one    *)
(* story: at most one entry per iteration, in order, with the verdict of   *)
(* that iteration's record; only a raise after the entry was written       *)
(* leaves a record that says INFRA_FAILURE beside it.                      *)
HistoryAgreesWithRecords ==
    /\ \A m, n \in DOMAIN history : m < n => history[m].it < history[n].it
    /\ \A n \in DOMAIN history :
          Over(history[n].it) =>
              records[history[n].it] \in {history[n].verdict, "INFRA_FAILURE"}
    /\ \A i \in 1..Iters :
          Over(i) => /\ records[i] # None
                     /\ records[i] \in Scores =>
                           \E n \in DOMAIN history : history[n].it = i

(* The run ends, or is aborted: no sequence of failures, repairs and       *)
(* contained raises keeps it in one iteration for ever.                    *)
RunEnds == <>(pc \in {"done", "aborted"})
=============================================================================
