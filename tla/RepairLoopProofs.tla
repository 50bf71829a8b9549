-------------------------- MODULE RepairLoopProofs --------------------------
(***************************************************************************)
(* Proofs about one iteration (RepairLoop) for any fields, levels, RTL     *)
(* sources, legality predicate, netlist function, trees a model may leave  *)
(* behind and repair budget.                                               *)
(*                                                                         *)
(* Type correctness and the budget are inductive once FailedClass is known *)
(* to be a class.  The other invariants hold where an iteration ends, so   *)
(* the proofs carry what each gate has established along the ladder        *)
(* (LadderInv), which a repair turn gives up by going back to the first.   *)
(***************************************************************************)
EXTENDS RepairLoop, TLAPS

-----------------------------------------------------------------------------
(***************************************************************************)
(* The failure taxonomy                                                    *)
(***************************************************************************)

LEMMA ByVerdictType == ByVerdict \in [DOMAIN ByVerdict -> Class]
BY DEF ByVerdict, Class

LEMMA ClassifyType ==
    ASSUME NEW verdict, NEW infraLog \in BOOLEAN
    PROVE  Classify(verdict, infraLog) \in Class
BY ByVerdictType DEF Classify, Class

LEMMA RetriesType == Retries \in [Class -> Nat]
BY DEF Retries, Class

(* No repair turn is ever owed to an infrastructure failure.               *)
LEMMA InfraHasNoRetries == Retries["infra"] = 0
BY DEF Retries, Class

-----------------------------------------------------------------------------
(***************************************************************************)
(* Type correctness                                                        *)
(***************************************************************************)

RecordType ==
    [cfg: Config \union {None}, rtl: Rtl \union {None}, net: NetId \union {None}]

LEMMA OutcomeType ==
    ASSUME tree \in Tree, NEW v \in FailVerdict \union {"PASS"}, NEW i \in BOOLEAN
    PROVE  Outcome(v, i) \in OutcomeSet
BY DEF Outcome, OutcomeSet

LEMMA ReturnsType ==
    ASSUME IterationTypeOK, NEW r \in OutcomeSet, rec' \in RecordType, Returns(r)
    PROVE  /\ res' \in OutcomeSet
           /\ proposed' \in Config \union {None}
           /\ proposedRtl' \in Rtl \union {None}
BY DEF IterationTypeOK, Returns, RecordType, Tree

LEMMA FailsType ==
    ASSUME IterationTypeOK, rec' \in RecordType, NEW v \in FailVerdict,
           Fails(v) \/ ToolFails(v)
    PROVE  /\ res' \in OutcomeSet
           /\ proposed' \in Config \union {None}
           /\ proposedRtl' \in Rtl \union {None}
<1>1. PICK i \in BOOLEAN : Returns(Outcome(v, i))
  BY DEF Fails, ToolFails
<1>2. Outcome(v, i) \in OutcomeSet
  BY OutcomeType DEF IterationTypeOK
<1> QED
  BY <1>1, <1>2, ReturnsType

(* The verdicts the gates fail with.                                       *)
LEMMA GateVerdicts ==
    {"SCOPE_VIOLATION", "REPAIR_REVERTED", "T0_ILLEGAL", "AGENT_FAILED",
     "REPAIR_NO_EDIT", "NO_EDIT", "DUPLICATE", "COMPILE_FAILED",
     "ELABORATION_FAILED", "RTL_NOOP", "KERNEL_BUILD_FAILED",
     "EQUIV_MISSING", "TRIPWIRE_FAILED", "EQUIV_FAILED"} \subseteq FailVerdict
BY DEF FailVerdict, ByVerdict, PolicyVerdict

LEMMA IdentOfType ==
    ASSUME NEW t \in Tree
    PROVE  IdentOf(t) \in Ident
BY DEF IdentOf, Ident, Tree

LEMMA NetType ==
    ASSUME NEW c \in Config, NEW g \in Config, NEW r \in Rtl
    PROVE  Netlist(c, g, r) \in NetId
BY DEF NetId

LEMMA GatesKeepType ==
    ASSUME IterationTypeOK,
           \/ ScopeGate \/ LegalityGate \/ IdentityGate \/ CompileGate
           \/ ElaborateGate \/ KernelGate \/ SimulateGate
    PROVE  IterationTypeOK'
<1> USE DEF IterationTypeOK
<1>1. rec \in RecordType /\ tree.cfg \in Config /\ tree.rtl \in Rtl
      /\ IdentOf(tree) \in Ident
  BY IdentOfType DEF RecordType, Tree
<1>2. CASE ScopeGate
  <2>1. UNCHANGED <<givenVars, tree, builtVars, repairVars, rec, lastIdent>>
    BY <1>2 DEF ScopeGate
  <2>2. GoesOnTo("legality") \/ Fails("SCOPE_VIOLATION")
    BY <1>2 DEF ScopeGate
  <2> QED
    BY <1>1, <2>1, <2>2, FailsType, GateVerdicts
       DEF givenVars, builtVars, repairVars, GoesOnTo
<1>3. CASE LegalityGate
  <2>1. UNCHANGED <<givenVars, tree, builtVars, repairVars, lastIdent>>
    BY <1>3 DEF LegalityGate
  <2>2. rec' \in RecordType
    BY <1>1, <1>3 DEF LegalityGate, RecordType
  <2>3. \/ GoesOnTo("identity") \/ Fails("REPAIR_REVERTED")
        \/ Fails("T0_ILLEGAL") \/ Fails("AGENT_FAILED")
    BY <1>3 DEF LegalityGate
  <2> QED
    BY <2>1, <2>2, <2>3, FailsType, GateVerdicts
       DEF givenVars, builtVars, repairVars, GoesOnTo, RecordType
<1>4. CASE IdentityGate
  <2>1. UNCHANGED <<givenVars, tree, toggles, prevNet, prevRtl, repairVars>>
    BY <1>4 DEF IdentityGate
  <2>2. rec' \in RecordType
    BY <1>1, <1>4 DEF IdentityGate, RecordType
  <2>3. seen' \subseteq Ident /\ lastIdent' \in Ident \union {None}
    BY <1>1, <1>4 DEF IdentityGate
  <2>4. GoesOnTo("compile") \/ \E v \in FailVerdict : Fails(v)
    BY <1>4, GateVerdicts DEF IdentityGate, IdentityVerdict
  <2> QED
    BY <2>1, <2>2, <2>3, <2>4, FailsType
       DEF givenVars, repairVars, GoesOnTo, RecordType
<1>5. CASE CompileGate
  <2>1. UNCHANGED <<givenVars, tree, seen, prevNet, prevRtl, repairVars, rec, lastIdent>>
    BY <1>5 DEF CompileGate
  <2>2. toggles' \in Config
    BY <1>1, <1>5 DEF CompileGate
  <2>3. GoesOnTo("elaborate") \/ ToolFails("COMPILE_FAILED")
    BY <1>5 DEF CompileGate
  <2> QED
    BY <1>1, <2>1, <2>2, <2>3, FailsType, GateVerdicts
       DEF givenVars, repairVars, GoesOnTo
<1>6. CASE ElaborateGate
  <2>1. UNCHANGED <<givenVars, tree, toggles, seen, repairVars, lastIdent>>
    BY <1>6 DEF ElaborateGate
  <2>2. /\ prevNet' \in NetId \union {None} /\ prevRtl' \in Rtl \union {None}
        /\ rec' \in RecordType
    BY <1>1, <1>6, NetType DEF ElaborateGate, RecordType
  <2>3. \/ GoesOnTo("kernel") \/ ToolFails("ELABORATION_FAILED")
        \/ Fails("RTL_NOOP")
    BY <1>6 DEF ElaborateGate
  <2> QED
    BY <1>1, <2>1, <2>2, <2>3, FailsType, GateVerdicts
       DEF givenVars, repairVars, GoesOnTo, RecordType
<1>7. CASE KernelGate
  <2>1. UNCHANGED <<givenVars, tree, builtVars, repairVars, rec, lastIdent>>
    BY <1>7 DEF KernelGate
  <2>2. GoesOnTo("simulate") \/ ToolFails("KERNEL_BUILD_FAILED")
    BY <1>7 DEF KernelGate
  <2> QED
    BY <1>1, <2>1, <2>2, FailsType, GateVerdicts
       DEF givenVars, builtVars, repairVars, GoesOnTo
<1>8. CASE SimulateGate
  <2>1. UNCHANGED <<givenVars, tree, builtVars, repairVars, rec, lastIdent>>
    BY <1>8 DEF SimulateGate
  <2>2. \/ ToolFails("EQUIV_MISSING") \/ Fails("TRIPWIRE_FAILED")
        \/ Fails("EQUIV_FAILED") \/ Returns(Outcome("PASS", FALSE))
    BY <1>8 DEF SimulateGate
  <2>3. Outcome("PASS", FALSE) \in OutcomeSet
    BY OutcomeType
  <2> QED
    BY <1>1, <2>1, <2>2, <2>3, FailsType, ReturnsType, GateVerdicts
       DEF givenVars, builtVars, repairVars
<1> QED
  BY <1>2, <1>3, <1>4, <1>5, <1>6, <1>7, <1>8

LEMMA FailedClassType ==
    ASSUME IterationTypeOK
    PROVE  FailedClass \in Class
BY ClassifyType DEF IterationTypeOK, OutcomeSet, FailedClass

LEMMA RepairsKeepType ==
    ASSUME IterationTypeOK, GiveUp \/ OpenRepair \/ RepairTurn \/ RaiseOut
    PROVE  IterationTypeOK'
<1> USE DEF IterationTypeOK, givenVars, builtVars, ladderVars, repairVars
<1>1. CASE GiveUp
  BY <1>1 DEF GiveUp
<1>2. CASE OpenRepair
  <2>1. perClass' \in [Class -> Nat]
    BY <1>2, FailedClassType DEF OpenRepair, Counts
  <2> QED
    BY <1>2, <2>1 DEF OpenRepair, Counts
<1>3. CASE RepairTurn
  BY <1>3, ConstAssumption DEF RepairTurn
<1>4. CASE RaiseOut
  BY <1>4 DEF RaiseOut
<1> QED
  BY <1>1, <1>2, <1>3, <1>4

LEMMA StutterKeepsType ==
    ASSUME IterationTypeOK, UNCHANGED iterVars
    PROVE  IterationTypeOK'
BY DEF IterationTypeOK, iterVars, givenVars, builtVars, ladderVars, repairVars

(* Every variable of an iteration keeps its type.                          *)
THEOREM IterationTypeCorrect == IterationSpec => []IterationTypeOK
<1>1. IterationInit => IterationTypeOK
  <2> SUFFICES ASSUME IterationInit
               PROVE  IterationTypeOK
    OBVIOUS
  <2>1. /\ Baseline \in Config /\ BaseRtl \in Rtl
        /\ AgentTree \subseteq Tree
        /\ BaseTree \in Tree
    BY ConstAssumption DEF BaseTree, Tree
  <2>2. seen \subseteq Ident
    BY <2>1, IdentOfType DEF IterationInit, Ident
  <2>3. res \in OutcomeSet
    BY <2>1 DEF IterationInit, FreshIteration, NoOutcome, OutcomeSet
  <2>4. prevNet \in NetId
    BY <2>1, NetType DEF IterationInit
  <2> QED
    BY <2>1, <2>2, <2>3, <2>4
       DEF IterationInit, FreshIteration, NoRecord, IterationTypeOK
<1>2. IterationTypeOK /\ [EvaluateAndRepair]_iterVars => IterationTypeOK'
  BY GatesKeepType, RepairsKeepType, StutterKeepsType DEF EvaluateAndRepair
<1> QED
  BY <1>1, <1>2, PTL DEF IterationSpec

-----------------------------------------------------------------------------
(***************************************************************************)
(* The budget                                                              *)
(***************************************************************************)

Ladder ==
    \/ ScopeGate \/ LegalityGate \/ IdentityGate \/ CompileGate
    \/ ElaborateGate \/ KernelGate \/ SimulateGate

LEMMA LadderLeaves ==
    ASSUME Ladder
    PROVE  UNCHANGED <<givenVars, tree, repairVars>>
BY DEF Ladder, ScopeGate, LegalityGate, IdentityGate, CompileGate,
       ElaborateGate, KernelGate, SimulateGate, builtVars

(* A step of an iteration stays within the budget, whatever it costs.      *)
LEMMA EvaluationKeepsBudget ==
    ASSUME IterationTypeOK, BudgetRespected, [EvaluateAndRepair]_iterVars
    PROVE  BudgetRespected'
<1>1. UNCHANGED it
  BY LadderLeaves DEF EvaluateAndRepair, Ladder, GiveUp, OpenRepair,
     RepairTurn, RaiseOut, iterVars, givenVars
<1>2. CASE OpenRepair
  <2>1. /\ attempts' = attempts + 1 /\ attempts < Budget
        /\ perClass' = [perClass EXCEPT ![FailedClass] = @ + 1]
        /\ perClass[FailedClass] < Retries[FailedClass]
    BY <1>2 DEF OpenRepair, Counts, MayRepair
  <2>2. attempts \in Nat /\ Budget \in Nat /\ Budget' = Budget
    BY <1>1, ConstAssumption DEF IterationTypeOK, Budget
  <2>3. ASSUME NEW c \in Class
        PROVE  perClass'[c] <= Retries[c]
    <3>1. CASE c = FailedClass
      <4>1. perClass'[c] = perClass[c] + 1 /\ perClass[c] < Retries[c]
        BY <2>1, <3>1 DEF IterationTypeOK
      <4>2. perClass[c] \in Nat /\ Retries[c] \in Nat
        BY RetriesType DEF IterationTypeOK
      <4> QED
        BY <4>1, <4>2
    <3>2. CASE c # FailedClass
      BY <2>1, <3>2 DEF BudgetRespected, IterationTypeOK
    <3> QED
      BY <3>1, <3>2
  <2> QED
    BY <2>1, <2>2, <2>3 DEF BudgetRespected
<1>3. CASE ~OpenRepair
  <2>1. UNCHANGED repairVars
    BY <1>3, LadderLeaves DEF EvaluateAndRepair, Ladder, GiveUp, RepairTurn,
       RaiseOut, iterVars
  <2> QED
    BY <1>1, <2>1 DEF BudgetRespected, Budget, repairVars
<1> QED
  BY <1>2, <1>3

(* The repair loop stays within the budget and every class within its cap; *)
(* "infra" has none.                                                       *)
THEOREM BudgetIsRespected == IterationSpec => []BudgetRespected
<1>1. IterationInit => BudgetRespected
  BY ConstAssumption, RetriesType
     DEF IterationInit, FreshIteration, BudgetRespected, Budget
<1> QED
  BY <1>1, EvaluationKeepsBudget, IterationTypeCorrect, PTL DEF IterationSpec

-----------------------------------------------------------------------------
(***************************************************************************)
(* What the gates establish                                                *)
(***************************************************************************)

PastScope == {"legality", "identity", "compile", "elaborate", "kernel",
              "simulate", "passed"}
PastLegality == PastScope \ {"legality"}
PastIdentity == PastLegality \ {"identity"}
PastCompile == PastIdentity \ {"compile"}

(* What holds of the tree once the ladder is past a gate.  None of it      *)
(* survives a repair turn, and none of it needs to: the turn goes back to  *)
(* the first gate.                                                         *)
AdmissibleSoFar ==
    /\ pc \in PastScope => tree.clean
    /\ pc \in PastLegality => tree.cfg \in LegalConfig /\ rec.cfg = tree.cfg
    /\ pc \in PastIdentity => rec.rtl = tree.rtl /\ IdentOf(tree) \in seen
    /\ pc \in PastCompile => toggles = tree.cfg

(* In a repair round, the same of the mutation.                            *)
MutationSoFar ==
    /\ attempts > 0 => it > 1 /\ Arm = "agent"
    /\ pc = "repair" => attempts > 0
    /\ pc \in PastLegality => ~ConfigReverted
    /\ pc \in PastIdentity /\ attempts > 0 =>
          ~RtlReverted /\ IdentOf(tree) # <<parent, parentRtl>>

(* In a repair round, the failure that stands is one a repair may be asked *)
(* for, unless the round has just passed.                                  *)
FailureSoFar ==
    attempts > 0 /\ pc # "passed" => res.verdict \in Repairable

LadderInv == AdmissibleSoFar /\ MutationSoFar /\ FailureSoFar

(* Where a returning round leaves the program counter.                     *)
LEMMA ReturnsGoesTo ==
    ASSUME NEW r, Returns(r)
    PROVE  \/ pc' = "passed" /\ r.verdict = "PASS"
           \/ pc' \in {"triage", "failed"}
BY DEF Returns

LEMMA FailsGoesTo ==
    ASSUME NEW v \in FailVerdict, Fails(v) \/ ToolFails(v)
    PROVE  pc' \in {"triage", "failed"}
<1>1. PICK i \in BOOLEAN : Returns(Outcome(v, i))
  BY DEF Fails, ToolFails
<1>2. Outcome(v, i).verdict = v /\ v # "PASS"
  BY DEF Outcome, FailVerdict, ByVerdict, PolicyVerdict
<1> QED
  BY <1>1, <1>2, ReturnsGoesTo

LEMMA RepairableVerdicts ==
    /\ {"SCOPE_VIOLATION", "T0_ILLEGAL", "COMPILE_FAILED",
        "ELABORATION_FAILED", "RTL_NOOP", "KERNEL_BUILD_FAILED",
        "EQUIV_MISSING", "TRIPWIRE_FAILED", "EQUIV_FAILED"} \subseteq Repairable
    /\ Repairable \subseteq FailVerdict
BY DEF Repairable, FailVerdict, ByVerdict, ToAgent

(* A gate that goes on keeps the standing failure, and one that fails      *)
(* leaves one a repair may be asked for.                                   *)
LEMMA GoesOnKeepsFailure ==
    ASSUME FailureSoFar, pc # "passed", UNCHANGED attempts,
           NEW gate, GoesOnTo(gate)
    PROVE  FailureSoFar'
BY DEF FailureSoFar, GoesOnTo

LEMMA FailsKeepsFailure ==
    ASSUME FailureSoFar, attempts \in Nat, pc # "passed", UNCHANGED attempts,
           NEW v \in Repairable \union Discarded, Fails(v) \/ ToolFails(v)
    PROVE  FailureSoFar'
<1>1. PICK i \in BOOLEAN : Returns(Outcome(v, i))
  BY DEF Fails, ToolFails
<1>2. Outcome(v, i).verdict = v
  BY DEF Outcome
<1>3. CASE attempts > 0
  BY <1>1, <1>2, <1>3 DEF Returns, FailureSoFar
<1>4. CASE ~(attempts > 0)
  BY <1>4 DEF FailureSoFar
<1> QED
  BY <1>3, <1>4

(* Round 0 is not bound by a mutation of its own, and a later round does   *)
(* not change what round 0 proposed.                                       *)
LEMMA KeepsProposal ==
    ASSUME attempts \in Nat, attempts > 0,
           \/ \E gate : GoesOnTo(gate)
           \/ \E v : Fails(v) \/ ToolFails(v)
           \/ Returns(Outcome("PASS", FALSE))
    PROVE  UNCHANGED <<proposed, proposedRtl>>
<1>1. ASSUME NEW r, Returns(r)
      PROVE  UNCHANGED <<proposed, proposedRtl>>
  <2>1. attempts # 0
    OBVIOUS
  <2> QED
    BY <1>1, <2>1 DEF Returns
<1> QED
  BY <1>1 DEF GoesOnTo, Fails, ToolFails

(* How the ladder advances: a gate ends the round, or hands on what it has *)
(* established.                                                            *)
Advances ==
    \/ pc = "scope" /\ pc' = "legality" /\ tree.clean
    \/ /\ pc = "legality" /\ pc' = "identity"
       /\ ~ConfigReverted /\ tree.cfg \in LegalConfig /\ rec'.cfg = tree.cfg
    \/ /\ pc = "identity" /\ pc' = "compile"
       /\ ~RtlReverted /\ ~IsParentAgain
       /\ rec'.cfg = rec.cfg /\ rec'.rtl = tree.rtl /\ IdentOf(tree) \in seen'
    \/ pc = "compile" /\ pc' = "elaborate" /\ toggles' = tree.cfg
       /\ UNCHANGED <<rec, seen>>
    \/ /\ pc \in {"elaborate", "kernel", "simulate"}
       /\ pc' \in {"kernel", "simulate", "passed"}
       /\ rec'.cfg = rec.cfg /\ rec'.rtl = rec.rtl
       /\ UNCHANGED <<seen, toggles>>

LEMMA LadderAdvances ==
    ASSUME IterationTypeOK, Ladder
    PROVE  pc' \in {"triage", "failed"} \/ Advances
<1>1. rec \in RecordType
  BY DEF IterationTypeOK, RecordType
<1>2. CASE ScopeGate
  BY <1>2, FailsGoesTo, GateVerdicts DEF ScopeGate, GoesOnTo, Advances
<1>3. CASE LegalityGate
  BY <1>1, <1>3, FailsGoesTo, GateVerdicts
     DEF LegalityGate, GoesOnTo, Advances, RecordType
<1>4. CASE IdentityGate
  <2>1. CASE IdentityVerdict # "NEW"
    <3>1. IdentityVerdict \in FailVerdict
      BY <2>1, GateVerdicts DEF IdentityVerdict
    <3> QED
      BY <1>4, <2>1, <3>1, FailsGoesTo DEF IdentityGate
  <2>2. CASE IdentityVerdict = "NEW"
    <3>1. ~RtlReverted /\ ~IsParentAgain
      BY <2>2 DEF IdentityVerdict
    <3>2. /\ rec' = [rec EXCEPT !.rtl = tree.rtl]
          /\ seen' = seen \union {IdentOf(tree)}
          /\ pc = "identity" /\ pc' = "compile"
      BY <1>4, <2>2 DEF IdentityGate, GoesOnTo
    <3> QED
      BY <1>1, <3>1, <3>2 DEF Advances, RecordType
  <2> QED
    BY <2>1, <2>2
<1>5. CASE CompileGate
  BY <1>5, FailsGoesTo, GateVerdicts DEF CompileGate, GoesOnTo, Advances
<1>6. CASE ElaborateGate
  <2>1. pc = "elaborate" /\ UNCHANGED <<seen, toggles>>
    BY <1>6 DEF ElaborateGate
  <2>2. rec'.cfg = rec.cfg /\ rec'.rtl = rec.rtl
    BY <1>1, <1>6 DEF ElaborateGate, RecordType
  <2>3. pc' \in {"triage", "failed", "kernel"}
    BY <1>6, FailsGoesTo, GateVerdicts DEF ElaborateGate, GoesOnTo
  <2> QED
    BY <2>1, <2>2, <2>3 DEF Advances
<1>7. CASE KernelGate
  BY <1>7, FailsGoesTo, GateVerdicts DEF KernelGate, GoesOnTo, Advances, builtVars
<1>8. CASE SimulateGate
  <2>1. \/ pc' \in {"triage", "failed"}
        \/ Returns(Outcome("PASS", FALSE))
    BY <1>8, FailsGoesTo, GateVerdicts DEF SimulateGate
  <2> QED
    BY <1>8, <2>1, ReturnsGoesTo DEF SimulateGate, Advances, builtVars
<1> QED
  BY <1>2, <1>3, <1>4, <1>5, <1>6, <1>7, <1>8 DEF Ladder

LEMMA LadderKeepsAdmissible ==
    ASSUME IterationTypeOK, AdmissibleSoFar, Ladder
    PROVE  AdmissibleSoFar'
<1>1. UNCHANGED tree
  BY LadderLeaves
<1> QED
  BY <1>1, LadderAdvances
     DEF AdmissibleSoFar, Advances, PastScope, PastLegality, PastIdentity,
         PastCompile, IdentOf

LEMMA LadderKeepsMutation ==
    ASSUME IterationTypeOK, MutationSoFar, Ladder
    PROVE  MutationSoFar'
<1>1. UNCHANGED <<tree, it, parent, parentRtl, attempts>> /\ attempts \in Nat
  BY LadderLeaves DEF givenVars, repairVars, IterationTypeOK
<1>2. attempts > 0 => UNCHANGED <<proposed, proposedRtl>>
  BY <1>1, KeepsProposal
     DEF Ladder, ScopeGate, LegalityGate, IdentityGate, CompileGate,
         ElaborateGate, KernelGate, SimulateGate
<1>3. ConfigReverted' => ConfigReverted
  BY <1>1, <1>2 DEF ConfigReverted
<1>4. RtlReverted' => RtlReverted
  BY <1>1, <1>2 DEF RtlReverted
<1>5. pc' # "repair"
  BY LadderAdvances DEF Advances
<1>6. pc' \in PastLegality => ~ConfigReverted
  BY LadderAdvances DEF Advances, MutationSoFar, PastScope, PastLegality
<1>7. ASSUME pc' \in PastIdentity, attempts > 0
      PROVE  ~RtlReverted /\ IdentOf(tree) # <<parent, parentRtl>>
  <2>1. it > 1 /\ Arm = "agent"
    BY <1>7 DEF MutationSoFar
  <2> QED
    BY <1>7, <2>1, LadderAdvances
       DEF Advances, MutationSoFar, PastScope, PastLegality, PastIdentity,
           IsParentAgain
<1>8. IdentOf(tree)' = IdentOf(tree)
  BY <1>1 DEF IdentOf
<1> QED
  BY <1>1, <1>3, <1>4, <1>5, <1>6, <1>7, <1>8 DEF MutationSoFar

LEMMA LadderKeepsFailure ==
    ASSUME IterationTypeOK, FailureSoFar, Ladder
    PROVE  FailureSoFar'
<1>1. UNCHANGED attempts /\ attempts \in Nat
  BY LadderLeaves DEF repairVars, IterationTypeOK
<1>2. pc # "passed"
  BY DEF Ladder, ScopeGate, LegalityGate, IdentityGate, CompileGate,
         ElaborateGate, KernelGate, SimulateGate
<1>3. CASE attempts = 0
  BY <1>1, <1>3 DEF FailureSoFar
<1>4. CASE attempts # 0
  <2>1. \/ \E gate : GoesOnTo(gate)
        \/ \E v \in Repairable \union Discarded : Fails(v) \/ ToolFails(v)
        \/ Returns(Outcome("PASS", FALSE))
    <3>1. ASSUME LegalityGate
          PROVE  \/ GoesOnTo("identity")
                 \/ Fails("REPAIR_REVERTED") \/ Fails("T0_ILLEGAL")
      BY <1>4, <3>1 DEF LegalityGate, AgentFailed
    <3>2. ASSUME IdentityGate
          PROVE  GoesOnTo("compile") \/ \E v \in Discarded : Fails(v)
      BY <1>1, <1>4, <3>2 DEF IdentityGate, IdentityVerdict, Discarded
    <3> QED
      BY <3>1, <3>2, RepairableVerdicts
         DEF Ladder, ScopeGate, CompileGate, ElaborateGate, KernelGate,
             SimulateGate, Discarded
  <2>2. ASSUME Returns(Outcome("PASS", FALSE))
        PROVE  FailureSoFar'
    BY <1>1, <1>4, <2>2 DEF Returns, Outcome, FailureSoFar
  <2> QED
    BY <1>1, <1>2, <2>1, <2>2, GoesOnKeepsFailure, FailsKeepsFailure
<1> QED
  BY <1>3, <1>4

(* A repair turn throws the ladder back to its first gate, where nothing   *)
(* is claimed of the tree.                                                 *)
LEMMA RepairsKeepLadderInv ==
    ASSUME IterationTypeOK, LadderInv,
           GiveUp \/ OpenRepair \/ RepairTurn \/ RaiseOut
    PROVE  LadderInv'
<1> USE DEF LadderInv, PastScope, PastLegality, PastIdentity, PastCompile
<1>1. /\ pc' \in {"failed", "repair", "scope", "raised"}
      /\ pc # "passed"
  BY DEF GiveUp, OpenRepair, RepairTurn, RaiseOut, Gates
<1>2. AdmissibleSoFar'
  BY <1>1 DEF AdmissibleSoFar
<1>3. UNCHANGED <<it, res>>
  BY DEF GiveUp, OpenRepair, RepairTurn, RaiseOut, givenVars, ladderVars
<1>4. CASE OpenRepair
  <2>1. /\ Budget > 0 /\ res.verdict \in Repairable
        /\ attempts' = attempts + 1 /\ attempts \in Nat
    BY <1>4 DEF OpenRepair, MayRepair, Counts, IterationTypeOK
  <2>2. it > 1 /\ Arm = "agent"
    BY <2>1 DEF Budget
  <2> QED
    BY <1>1, <1>2, <1>3, <2>1, <2>2 DEF MutationSoFar, FailureSoFar
<1>5. CASE ~OpenRepair
  <2>1. UNCHANGED attempts /\ pc' # "repair"
    BY <1>5 DEF GiveUp, RepairTurn, RaiseOut, repairVars
  <2> QED
    BY <1>1, <1>2, <1>3, <2>1 DEF MutationSoFar, FailureSoFar
<1> QED
  BY <1>4, <1>5

LEMMA EvaluationKeepsLadderInv ==
    ASSUME IterationTypeOK, LadderInv, [EvaluateAndRepair]_iterVars
    PROVE  LadderInv'
<1>1. CASE Ladder
  BY <1>1, LadderKeepsAdmissible, LadderKeepsMutation, LadderKeepsFailure
     DEF LadderInv
<1>2. CASE GiveUp \/ OpenRepair \/ RepairTurn \/ RaiseOut
  BY <1>2, RepairsKeepLadderInv
<1>3. CASE UNCHANGED iterVars
  BY <1>3 DEF iterVars, givenVars, builtVars, ladderVars, repairVars,
     LadderInv, AdmissibleSoFar, MutationSoFar, FailureSoFar,
     ConfigReverted, RtlReverted, IdentOf
<1> QED
  BY <1>1, <1>2, <1>3 DEF EvaluateAndRepair, Ladder

LEMMA LadderInvCorrect == IterationSpec => []LadderInv
<1>1. IterationInit => LadderInv
  BY DEF IterationInit, FreshIteration, LadderInv, AdmissibleSoFar,
         MutationSoFar, FailureSoFar, PastScope, PastLegality, PastIdentity,
         PastCompile
<1> QED
  BY <1>1, EvaluationKeepsLadderInv, IterationTypeCorrect, PTL DEF IterationSpec

LEMMA LadderMeansAdmissible == IterationTypeOK /\ LadderInv => PassIsAdmissible
BY DEF LadderInv, AdmissibleSoFar, PassIsAdmissible, PastScope, PastLegality,
       PastIdentity, PastCompile, IdentOf

(* What reaches the scoring step is in scope, legal, recorded as itself    *)
(* and built with its own toggles, after any number of repairs.            *)
THEOREM PassesAreAdmissible == IterationSpec => []PassIsAdmissible
BY LadderMeansAdmissible, IterationTypeCorrect, LadderInvCorrect, PTL

(* A value that does not revert the move p -> q lies on q's side of p.     *)
LEMMA StaysOnTheSide ==
    ASSUME NEW p \in Int, NEW q \in Int, NEW r \in Int,
           ~RevertsField(p, q, r)
    PROVE  (q > p => r > p) /\ (q < p => r < p)
<1>1. r # p /\ ~((q - p) * (r - p) < 0)
  BY DEF RevertsField
<1>2. ASSUME NEW x \in Int, NEW y \in Int, x > 0, y < 0
      PROVE  x * y < 0
  BY <1>2
<1>3. ASSUME NEW x \in Int, NEW y \in Int, x < 0, y > 0
      PROVE  x * y < 0
  BY <1>3
<1>4. q - p \in Int /\ r - p \in Int
  OBVIOUS
<1>5. ~(q - p > 0 /\ r - p < 0) /\ ~(q - p < 0 /\ r - p > 0)
  BY <1>1, <1>2, <1>3, <1>4
<1> QED
  BY <1>1, <1>5

LEMMA LadderMeansMutation == IterationTypeOK /\ LadderInv => RepairKeepsMutation
<1> SUFFICES ASSUME IterationTypeOK, LadderInv, pc = "passed", attempts > 0
             PROVE  RepairKeepsMutation
  BY DEF RepairKeepsMutation
<1>1. /\ ~ConfigReverted
      /\ ~RtlReverted
      /\ IdentOf(tree) # <<parent, parentRtl>>
  BY DEF LadderInv, MutationSoFar, PastScope, PastLegality, PastIdentity
<1>2. ASSUME proposed # None, NEW f \in Field
      PROVE  /\ proposed[f] > parent[f] => tree.cfg[f] > parent[f]
             /\ proposed[f] < parent[f] => tree.cfg[f] < parent[f]
  <2>1. parent[f] \in Int /\ proposed[f] \in Int /\ tree.cfg[f] \in Int
    BY <1>2, MaxLevelAssumption DEF IterationTypeOK, Tree, Config
  <2>2. CASE proposed[f] = parent[f]
    BY <2>1, <2>2
  <2>3. CASE proposed[f] # parent[f]
    <3>1. ~RevertsField(parent[f], proposed[f], tree.cfg[f])
      BY <1>1, <1>2, <2>3 DEF ConfigReverted, Reverts, MutatedFields
    <3> QED
      BY <2>1, <3>1, StaysOnTheSide
  <2> QED
    BY <2>2, <2>3
<1> QED
  BY <1>1, <1>2 DEF RepairKeepsMutation, RtlReverted

(* A repaired design that passes still carries its mutation.               *)
THEOREM RepairsKeepMutation == IterationSpec => []RepairKeepsMutation
BY LadderMeansMutation, IterationTypeCorrect, LadderInvCorrect, PTL

LEMMA LadderMeansVerdict == LadderInv => VerdictIsAboutTheDesign
BY DEF LadderInv, FailureSoFar, VerdictIsAboutTheDesign

(* The verdict an iteration ends with after repairs is one of the design's *)
(* own.                                                                    *)
THEOREM VerdictsAreAboutTheDesign == IterationSpec => []VerdictIsAboutTheDesign
BY LadderMeansVerdict, LadderInvCorrect, PTL
=============================================================================
