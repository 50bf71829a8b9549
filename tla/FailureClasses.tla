--------------------------- MODULE FailureClasses ---------------------------
(***************************************************************************)
(* The failure taxonomy of src/src/recovery.py: what each verdict of the   *)
(* gate ladder is classified as, how often a class may be repaired, who    *)
(* may be shown it, and when a repair counts as a revert of the mutation   *)
(* it was asked to repair.  Everything here is a pure table or function;   *)
(* RepairLoop and SearchLoop use it, and it declares no state.             *)
(***************************************************************************)
EXTENDS Integers

CONSTANTS
    Field,      \* the fields of a design state
    MaxLevel    \* fields take the values 0..MaxLevel

ASSUME MaxLevelAssumption == MaxLevel \in Nat

(* A design state: one value per field.                                    *)
Config == [Field -> 0..MaxLevel]

(***************************************************************************)
(* Verdicts and classes                                                    *)
(***************************************************************************)

(* The verdicts evaluate_tree returns as a GateFail that a class exists    *)
(* for, and the class.                                                     *)
ByVerdict ==
    [T0_ILLEGAL          |-> "t0",
     COMPILE_FAILED      |-> "compile",
     ELABORATION_FAILED  |-> "elaboration",
     KERNEL_BUILD_FAILED |-> "kernel",
     EQUIV_FAILED        |-> "divergence",
     EQUIV_MISSING       |-> "hang",
     TRIPWIRE_FAILED     |-> "tripwire",
     RTL_NOOP            |-> "rtl_noop",
     SCOPE_VIOLATION     |-> "scope",
     INFRA_FAILURE       |-> "infra"]

(* The classes a verdict can be given here.  "lint" and "timing" of the    *)
(* source are reached by no verdict of the loop.                           *)
Class == {"t0", "compile", "elaboration", "kernel", "divergence", "hang",
          "tripwire", "rtl_noop", "scope", "infra", "unknown"}

(* FailureClass.retries: repair turns one class may use in an iteration.   *)
Retries ==
    [c \in Class |->
        IF c = "compile" THEN 3
        ELSE IF c \in {"t0", "elaboration", "kernel"} THEN 2
        ELSE IF c = "infra" THEN 0
        ELSE 1]

(* FailureClass.to_agent: whether any model may see the failure.           *)
ToAgent(c) == c # "infra"

(* Verdicts about a proposal, not about a bug in a mutation.               *)
PolicyVerdict == {"AGENT_FAILED", "NO_EDIT", "DUPLICATE",
                  "REPAIR_REVERTED", "REPAIR_NO_EDIT"}

FailVerdict == DOMAIN ByVerdict \union PolicyVerdict

Repairable == {v \in DOMAIN ByVerdict : ToAgent(ByVerdict[v])}

(* Verdicts that carry no new design to remember (_NO_DESIGN).             *)
NoDesign == PolicyVerdict \union {"INFRA_FAILURE"}

(* classify(): an infrastructure signature in the log decides first, then  *)
(* the verdict's own class, then "unknown".                                *)
Classify(verdict, infraLog) ==
    IF infraLog THEN "infra"
    ELSE IF verdict \in DOMAIN ByVerdict THEN ByVerdict[verdict]
    ELSE "unknown"

(***************************************************************************)
(* The revert guard                                                        *)
(***************************************************************************)

MutatedFields(p, q) == {f \in Field : p[f] # q[f]}

(* Fault: a value past the parent's is not seen as a revert.               *)
RevertsField_ExactOnly(p, q, r) == r = p

(* A repaired value r undoes the move p -> q of one field: it is back at   *)
(* p, or past p on the side away from q.                                   *)
RevertsField(p, q, r) == r = p \/ (q - p) * (r - p) < 0

(* revert_check(parent, proposed, repaired).reverted is not empty.         *)
Reverts(p, q, r) ==
    \E f \in MutatedFields(p, q) : RevertsField(p[f], q[f], r[f])
=============================================================================
