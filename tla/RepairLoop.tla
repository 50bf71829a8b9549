----------------------------- MODULE RepairLoop -----------------------------
(***************************************************************************)
(* One iteration of src/src/loop.py between the moment a design is in the  *)
(* build tree and the moment the iteration has a verdict: the gate ladder  *)
(* evaluate_tree (N13 scope, N20 legality, N21 identity, N12 compile, N30  *)
(* elaborate with the N12b netlist check, N32 kernel, N50/N41 simulate and *)
(* compare) and the N71/N73 repair loop around it, which edits the tree    *)
(* and re-enters the whole ladder.  Every call that leaves the driver can  *)
(* also raise; that ends the iteration at once (RaiseOut).                 *)
(*                                                                         *)
(* Design states are functions Field -> level, an RTL source is its        *)
(* digest, and a build tree is the pair plus whether it touches a path     *)
(* outside the writable set.  What the tools answer is not predicted: a    *)
(* gate passes, fails, or fails with an infrastructure signature in its    *)
(* log, as it likes.                                                       *)
(*                                                                         *)
(* SearchLoop extends this module with what survives an iteration; the     *)
(* specification at the end is one iteration on its own.                   *)
(***************************************************************************)
EXTENDS FailureClasses

CONSTANTS
    Rtl,                \* digests of the agent-writable Chisel sources
    BaseRtl,            \* the digest of the pinned commit's sources
    Baseline,           \* the BASELINE design state
    LegalConfig,        \* the design states T0 accepts
    AgentTree,          \* the trees a proposer or repairer may leave behind
    Netlist(_, _, _),   \* elaborated Verilog of (params, toggles, RTL)
    RepairBudget,       \* --repair-budget; 0 stands for --no-repair
    Arm,                \* "agent", "control" or "skip" (--skip-llm)
    None

Ident == Config \X Rtl

Tree == [cfg: Config, rtl: Rtl, clean: BOOLEAN]

IdentOf(t) == <<t.cfg, t.rtl>>

NetId == {Netlist(c, g, r) : c \in Config, g \in Config, r \in Rtl}

(* The pinned commit with the baseline parameters seeded into it.          *)
BaseTree == [cfg |-> Baseline, rtl |-> BaseRtl, clean |-> TRUE]

ASSUME ConstAssumption ==
    /\ BaseRtl \in Rtl
    /\ Baseline \in LegalConfig
    /\ LegalConfig \subseteq Config
    /\ AgentTree \subseteq Tree
    /\ RepairBudget \in Nat
    /\ Arm \in {"agent", "control", "skip"}

ASSUME NoneAssumption == None \notin Config \union Rtl \union Ident \union NetId

VARIABLES
    (* Set before an iteration, read during it.                            *)
    it,             \* the iteration number
    parent,         \* the design state the search is at
    parentRtl,      \* its RTL digest, None until a design was admitted
    llmOk,          \* the proposer's call returned 0 (record llm_returncode)
    (* Survive the iteration.                                              *)
    tree,           \* the build container's working tree
    toggles,        \* the state SparseCraftRTL.scala was generated from
    seen,           \* identities that entered the build gates
    prevNet,        \* digest of the netlist elaborated last
    prevRtl,        \* the RTL digest it was elaborated from
    (* Local to the iteration.                                             *)
    pc,             \* the gate or step that runs next
    rec,            \* the record's state_hash, rtl_digest and netlist_digest
    proposed,       \* the state round 0 parsed, None if it did not get there
    proposedRtl,    \* the record's RTL digest after round 0
    lastIdent,      \* round_idents[-1]
    res,            \* what the last round that counts returned
    attempts,       \* len(repair_log), which is also the round number
    perClass        \* repair turns spent per failure class

givenVars == <<it, parent, parentRtl, llmOk>>
ladderVars == <<rec, proposed, proposedRtl, lastIdent, res>>
repairVars == <<attempts, perClass>>
builtVars == <<toggles, seen, prevNet, prevRtl>>
iterVars == <<givenVars, tree, builtVars, pc, ladderVars, repairVars>>

-----------------------------------------------------------------------------
(***************************************************************************)
(* Returning from the ladder                                               *)
(***************************************************************************)

Outcome(verdict, infra) == [verdict |-> verdict, infra |-> infra, at |-> tree]

OutcomeSet == [verdict: FailVerdict \union {"PASS"}, infra: BOOLEAN, at: Tree]

NoOutcome == [verdict |-> "PASS", infra |-> FALSE, at |-> BaseTree]

NoRecord == [cfg |-> None, rtl |-> None, net |-> None]

(* Fault: a repair that repeats a design is reported as the verdict.       *)
Discarded_KeepsDuplicate == {"REPAIR_REVERTED", "REPAIR_NO_EDIT"}

(* A repair round that came back like this is dropped: the failure before  *)
(* it stands.                                                              *)
Discarded == {"REPAIR_REVERTED", "REPAIR_NO_EDIT", "DUPLICATE"}

(* evaluate_tree returns r.  Round 0 also fixes what was proposed, reading *)
(* the digest off the record as the gates left it.                         *)
Returns(r) ==
    \/ /\ attempts = 0
       /\ res' = r
       /\ proposed' = IF r.verdict = "SCOPE_VIOLATION" THEN None ELSE tree.cfg
       /\ proposedRtl' = rec'.rtl
       /\ pc' = IF r.verdict = "PASS" THEN "passed" ELSE "triage"
    \/ /\ attempts > 0
       /\ res' = IF r.verdict \in Discarded THEN res ELSE r
       /\ pc' = IF r.verdict = "PASS" THEN "passed"
                ELSE IF r.verdict \in Discarded THEN "failed" ELSE "triage"
       /\ UNCHANGED <<proposed, proposedRtl>>

Fails(verdict) == Returns(Outcome(verdict, FALSE))

(* A failing tool whose log may carry an infrastructure signature.         *)
ToolFails(verdict) == \E infra \in BOOLEAN : Returns(Outcome(verdict, infra))

GoesOnTo(gate) == pc' = gate /\ UNCHANGED <<res, proposed, proposedRtl>>

-----------------------------------------------------------------------------
(***************************************************************************)
(* The gates, in the order of the ladder                                   *)
(***************************************************************************)

(* N13: nothing outside the writable set was touched.                      *)
ScopeGate ==
    /\ pc = "scope"
    /\ UNCHANGED <<rec, lastIdent>>
    /\ \/ tree.clean /\ GoesOnTo("legality")
       \/ ~tree.clean /\ Fails("SCOPE_VIOLATION")
    /\ UNCHANGED <<givenVars, tree, builtVars, repairVars>>

ConfigReverted ==
    /\ attempts > 0
    /\ proposed # None
    /\ Reverts(parent, proposed, tree.cfg)

(* The proposer's call failed and moved no field of the design state.      *)
AgentFailed ==
    /\ it > 1 /\ Arm = "agent" /\ attempts = 0
    /\ tree.cfg = parent
    /\ ~llmOk

(* N20, with the configuration half of the revert guard before it.         *)
LegalityGate ==
    /\ pc = "legality"
    /\ \/ /\ ConfigReverted
          /\ UNCHANGED rec
          /\ Fails("REPAIR_REVERTED")
       \/ /\ ~ConfigReverted
          /\ rec' = [rec EXCEPT !.cfg = tree.cfg]
          /\ \/ tree.cfg \notin LegalConfig /\ Fails("T0_ILLEGAL")
             \/ tree.cfg \in LegalConfig /\ AgentFailed /\ Fails("AGENT_FAILED")
             \/ tree.cfg \in LegalConfig /\ ~AgentFailed /\ GoesOnTo("identity")
    /\ UNCHANGED lastIdent
    /\ UNCHANGED <<givenVars, tree, builtVars, repairVars>>

RtlReverted ==
    /\ attempts > 0
    /\ proposedRtl # None /\ parentRtl # None
    /\ proposedRtl # parentRtl
    /\ tree.rtl = parentRtl

RepairMadeNoEdit ==
    attempts > 0 /\ lastIdent # None /\ IdentOf(tree) = lastIdent

IsParentAgain ==
    it > 1 /\ Arm = "agent" /\ IdentOf(tree) = <<parent, parentRtl>>

(* Fault: only what a proposer sends is looked up.                         *)
Known_ProposalsOnly == attempts = 0 /\ IdentOf(tree) \in seen

Known == IdentOf(tree) \in seen

(* N21: the pair (state, RTL) is the design.  The early returns are tried  *)
(* in this order.                                                          *)
IdentityVerdict ==
    IF RtlReverted THEN "REPAIR_REVERTED"
    ELSE IF RepairMadeNoEdit THEN "REPAIR_NO_EDIT"
    ELSE IF IsParentAgain
         THEN IF attempts > 0 THEN "REPAIR_REVERTED" ELSE "NO_EDIT"
    ELSE IF Known THEN "DUPLICATE"
    ELSE "NEW"

IdentityGate ==
    /\ pc = "identity"
    /\ rec' = [rec EXCEPT !.rtl = tree.rtl]
    /\ lastIdent' = IF RtlReverted \/ RepairMadeNoEdit
                    THEN lastIdent ELSE IdentOf(tree)
    /\ \/ /\ IdentityVerdict # "NEW"
          /\ Fails(IdentityVerdict)
          /\ UNCHANGED seen
       \/ /\ IdentityVerdict = "NEW"
          /\ seen' = seen \union {IdentOf(tree)}
          /\ GoesOnTo("compile")
    /\ UNCHANGED <<givenVars, tree, toggles, prevNet, prevRtl, repairVars>>

(* N12, after the toggles file was regenerated from the parsed state.      *)
CompileGate ==
    /\ pc = "compile"
    /\ UNCHANGED <<rec, lastIdent>>
    /\ toggles' = tree.cfg
    /\ \/ GoesOnTo("elaborate")
       \/ ToolFails("COMPILE_FAILED")
    /\ UNCHANGED <<givenVars, tree, seen, prevNet, prevRtl, repairVars>>

(* N12b compares with the netlist elaborated last, whoever proposed it.    *)
NoOpEdit(net) == prevNet # None /\ tree.rtl # prevRtl /\ net = prevNet

(* N30 and N12b.  A netlist digest that could not be taken (ok = FALSE) is *)
(* neither compared nor kept.                                              *)
ElaborateGate ==
    /\ pc = "elaborate"
    /\ UNCHANGED lastIdent
    /\ LET net == Netlist(tree.cfg, toggles, tree.rtl)
       IN \/ /\ UNCHANGED <<rec, prevNet, prevRtl>>
             /\ ToolFails("ELABORATION_FAILED")
          \/ /\ rec' = [rec EXCEPT !.net = None]
             /\ GoesOnTo("kernel")
             /\ UNCHANGED <<prevNet, prevRtl>>
          \/ /\ NoOpEdit(net)
             /\ rec' = [rec EXCEPT !.net = net]
             /\ Fails("RTL_NOOP")
             /\ UNCHANGED <<prevNet, prevRtl>>
          \/ /\ ~NoOpEdit(net)
             /\ rec' = [rec EXCEPT !.net = net]
             /\ prevNet' = net /\ prevRtl' = tree.rtl
             /\ GoesOnTo("kernel")
    /\ UNCHANGED <<givenVars, tree, toggles, seen, repairVars>>

(* N32: cross-compile the kernel against the elaborated parameters.        *)
KernelGate ==
    /\ pc = "kernel"
    /\ UNCHANGED <<rec, lastIdent>>
    /\ GoesOnTo("simulate") \/ ToolFails("KERNEL_BUILD_FAILED")
    /\ UNCHANGED <<givenVars, tree, builtVars, repairVars>>

(* N50 and N41: no counters or no equivalence line, too few bytes moved,   *)
(* a wrong output, or a measurement.                                       *)
SimulateGate ==
    /\ pc = "simulate"
    /\ UNCHANGED <<rec, lastIdent>>
    /\ \/ ToolFails("EQUIV_MISSING")
       \/ Fails("TRIPWIRE_FAILED")
       \/ Fails("EQUIV_FAILED")
       \/ Returns(Outcome("PASS", FALSE))
    /\ UNCHANGED <<givenVars, tree, builtVars, repairVars>>

-----------------------------------------------------------------------------
(***************************************************************************)
(* N71 to N73                                                              *)
(***************************************************************************)

(* Only the agent arm is repaired, and never the baseline iteration.       *)
Budget == IF it > 1 /\ Arm = "agent" THEN RepairBudget ELSE 0

FailedClass == Classify(res.verdict, res.infra)

(* Fault: off by one in the total.                                         *)
MayRepair_OffByOne ==
    /\ Budget > 0
    /\ res.verdict \in Repairable
    /\ ToAgent(FailedClass)
    /\ attempts <= Budget
    /\ perClass[FailedClass] < Retries[FailedClass]

MayRepair ==
    /\ Budget > 0
    /\ res.verdict \in Repairable
    /\ ToAgent(FailedClass)
    /\ attempts < Budget
    /\ perClass[FailedClass] < Retries[FailedClass]

GiveUp ==
    /\ pc = "triage"
    /\ ~MayRepair
    /\ pc' = "failed"
    /\ UNCHANGED <<givenVars, tree, builtVars, ladderVars, repairVars>>

(* Fault: the caps count failed rounds only at the first one.              *)
Counts_Once ==
    /\ attempts' = IF attempts = 0 THEN 1 ELSE attempts
    /\ perClass' = IF attempts = 0
                   THEN [perClass EXCEPT ![FailedClass] = @ + 1] ELSE perClass

(* Fault: the number of attempts runs down, as if it were what is left.    *)
Counts_Down ==
    /\ attempts' = attempts - 1
    /\ perClass' = [perClass EXCEPT ![FailedClass] = @ + 1]

Counts ==
    /\ attempts' = attempts + 1
    /\ perClass' = [perClass EXCEPT ![FailedClass] = @ + 1]

OpenRepair ==
    /\ pc = "triage"
    /\ MayRepair
    /\ Counts
    /\ pc' = "repair"
    /\ UNCHANGED <<givenVars, tree, builtVars, ladderVars>>

(* Fault: the ladder resumes where the last passed gate was.               *)
RepairTurn_Resumes ==
    /\ pc = "repair"
    /\ tree' \in AgentTree
    /\ pc' \in {"failed", "identity"}
    /\ UNCHANGED <<givenVars, builtVars, ladderVars, repairVars>>

(* The repair turn ends: its call failed or it reported NOT_ACTIONABLE, or *)
(* the whole ladder re-runs.  Either way it may have edited the tree.      *)
RepairTurn ==
    /\ pc = "repair"
    /\ tree' \in AgentTree
    /\ pc' \in {"failed", "scope"}
    /\ UNCHANGED <<givenVars, builtVars, ladderVars, repairVars>>

Gates == {"scope", "legality", "identity", "compile", "elaborate", "kernel",
          "simulate"}

Settled == {"passed", "failed", "raised"}

(* get() raises: a lost worker, an out-of-memory kill, a lost container.   *)
RaiseOut ==
    /\ pc \in Gates
    /\ pc' = "raised"
    /\ UNCHANGED <<givenVars, tree, builtVars, ladderVars, repairVars>>

EvaluateAndRepair ==
    \/ ScopeGate \/ LegalityGate \/ IdentityGate \/ CompileGate
    \/ ElaborateGate \/ KernelGate \/ SimulateGate
    \/ GiveUp \/ OpenRepair \/ RepairTurn \/ RaiseOut

-----------------------------------------------------------------------------
(***************************************************************************)
(* One iteration on its own                                                *)
(***************************************************************************)

FreshIteration ==
    /\ pc = "scope"
    /\ rec = NoRecord
    /\ proposed = None /\ proposedRtl = None /\ lastIdent = None
    /\ res = NoOutcome
    /\ attempts = 0
    /\ perClass = [c \in Class |-> 0]

(* The iteration after the baseline was admitted, with the proposer's tree *)
(* in the container and possibly one more design evaluated before.         *)
IterationInit ==
    /\ it = 2
    /\ parent = Baseline /\ parentRtl = BaseRtl
    /\ llmOk \in BOOLEAN
    /\ tree \in AgentTree
    /\ toggles = Baseline
    /\ \E other \in AgentTree :
          /\ other.cfg \in LegalConfig
          /\ seen = {<<Baseline, BaseRtl>>, IdentOf(other)}
    /\ prevNet = Netlist(Baseline, Baseline, BaseRtl) /\ prevRtl = BaseRtl
    /\ FreshIteration

IterationSpec ==
    IterationInit /\ [][EvaluateAndRepair]_iterVars /\ WF_iterVars(EvaluateAndRepair)

-----------------------------------------------------------------------------
(***************************************************************************)
(* Properties                                                              *)
(***************************************************************************)

(* Every variable of an iteration has its type.                            *)
IterationTypeOK ==
    /\ it \in Nat
    /\ parent \in Config /\ parentRtl \in Rtl \union {None}
    /\ llmOk \in BOOLEAN
    /\ tree \in Tree
    /\ toggles \in Config
    /\ seen \subseteq Ident
    /\ prevNet \in NetId \union {None} /\ prevRtl \in Rtl \union {None}
    /\ rec \in [cfg: Config \union {None}, rtl: Rtl \union {None},
               net: NetId \union {None}]
    /\ proposed \in Config \union {None}
    /\ proposedRtl \in Rtl \union {None}
    /\ lastIdent \in Ident \union {None}
    /\ res \in OutcomeSet
    /\ attempts \in Nat
    /\ perClass \in [Class -> Nat]

(* The repair loop never spends more turns than --repair-budget allows in  *)
(* total, nor more on one class than its own cap.  The cap of "infra" is   *)
(* zero, so this is also the promise that an infrastructure failure is     *)
(* never handed to the repairer (the guards of main()'s while loop).       *)
BudgetRespected ==
    /\ attempts <= Budget
    /\ \A c \in Class : perClass[c] <= Retries[c]

(* A design that reaches the scoring step was in scope, T0-legal, recorded *)
(* as itself and elaborated with its own toggles, whatever sequence of     *)
(* failures and repairs came before: every repair re-enters the ladder at  *)
(* N13, and a repair may break a gate that passed in an earlier round.     *)
PassIsAdmissible ==
    pc = "passed" =>
        /\ tree.clean
        /\ tree.cfg \in LegalConfig
        /\ toggles = tree.cfg
        /\ <<rec.cfg, rec.rtl>> = IdentOf(tree)
        /\ IdentOf(tree) \in seen

(* A design that passes after a repair still carries the mutation the      *)
(* harness parsed in round 0: every field that was moved is still on the   *)
(* side of the parent's value it was moved to, a rewritten RTL is not      *)
(* restored, and the design is not the parent again (the revert guards of  *)
(* evaluate_tree).                                                         *)
RepairKeepsMutation ==
    pc = "passed" /\ attempts > 0 =>
        /\ proposed # None =>
               \A f \in Field :
                   /\ proposed[f] > parent[f] => tree.cfg[f] > parent[f]
                   /\ proposed[f] < parent[f] => tree.cfg[f] < parent[f]
        /\ (parentRtl # None /\ proposedRtl \notin {None, parentRtl}) =>
               tree.rtl # parentRtl
        /\ IdentOf(tree) # <<parent, parentRtl>>

(* The verdict an iteration ends with is never about the repair: a repair  *)
(* round that reverted, edited nothing or repeated a design is dropped and *)
(* the failure before it stands ("the failure that stands is the last one  *)
(* actually measured").                                                    *)
VerdictIsAboutTheDesign ==
    pc = "failed" /\ attempts > 0 => res.verdict \in Repairable

(* Every iteration ends: the caps leave no endless exchange between a gate *)
(* that keeps failing and a repairer that keeps editing.                   *)
IterationSettles == <>(pc \in Settled)
=============================================================================
