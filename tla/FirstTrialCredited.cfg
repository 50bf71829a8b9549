SPECIFICATION ArmSpec
CONSTANTS
    Field <- MCField
    MaxLevel = 1
    Rtl = {"r0"}
    BaseRtl = "r0"
    Baseline <- MCBaseline
    LegalConfig <- MCLegalConfig
    AgentTree = {}
    Netlist <- MCNetlist
    RepairBudget = 0
    Arm = "control"
    None = None
    Iters = 4
    ApplyMayFail = FALSE
    SeedTrees = {}
    Lever <- MCLever
    Sets <- MCSets
    Reads <- MCReads
    Values <- MCValues
INVARIANTS
    TrialIsOneLever
CHECK_DEADLOCK FALSE
