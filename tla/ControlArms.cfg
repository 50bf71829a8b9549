SPECIFICATION ArmSpec
CONSTANTS
    Field <- MCField
    MaxLevel = 1
    Rtl = {"r0"}
    BaseRtl = "r0"
    Baseline <- MCBaseline
    LegalConfig <- MCLegalConfig
    AgentTree = {}
    Netlist <- MCNetlist
    RepairBudget = 0
    Arm = "control"
    None = None
    Iters = 5
    ApplyMayFail = FALSE
    SeedTrees = {}
    Lever <- MCLever
    Sets <- MCSets
    Reads <- MCReads
    Values <- MCValues
INVARIANTS
    ArmTypeOK
    TreeIsParentAtRest
    IncumbentIsParent
    ExhaustedIsLocalOptimum
VIEW MCView
CHECK_DEADLOCK FALSE
