SPECIFICATION Spec
CONSTANTS
    Field <- MCField
    MaxLevel = 2
    Rtl = {"r0", "r1"}
    BaseRtl = "r0"
    Baseline <- MCBaseline
    LegalConfig <- MCLegalConfig
    AgentTree <- MCAgentTree
    Netlist <- MCNetlist
    RepairBudget = 0
    Arm = "agent"
    None = None
    Iters = 3
    ApplyMayFail = TRUE
    SeedTrees <- MCSeedTrees
INVARIANT
    SearchTypeOK
PROPERTIES
    ImplementsContract
    RunEnds
CHECK_DEADLOCK FALSE
