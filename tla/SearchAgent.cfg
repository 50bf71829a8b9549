SPECIFICATION Spec
CONSTANTS
    Field <- MCField
    MaxLevel = 2
    Rtl = {"r0", "r1"}
    BaseRtl = "r0"
    Baseline <- MCBaseline
    LegalConfig <- MCLegalConfig
    AgentTree <- MCScopedTree
    Netlist <- MCNetlist
    RepairBudget = 1
    Arm = "agent"
    None = None
    Iters = 3
    ApplyMayFail = FALSE
    SeedTrees = {}
INVARIANTS
    TreeIsParentAtRest
    ParentIsLastAdmitted
    NeverMeasuredTwice
    HistoryAgreesWithRecords
CHECK_DEADLOCK FALSE
