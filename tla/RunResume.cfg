SPECIFICATION ResumeSpec
CONSTANTS
    Field <- MCField
    MaxLevel = 2
    Rtl = {"r0", "r1"}
    BaseRtl = "r0"
    Baseline <- MCBaseline
    LegalConfig <- MCLegalConfig
    AgentTree <- MCAgentTree
    Netlist <- MCNetlist
    RepairBudget = 1
    Arm = "agent"
    None = None
    Iters = 3
    ApplyMayFail = FALSE
    SeedTrees = {}
    MaxRestarts = 2
INVARIANTS
    TreeIsParentAtRest
    RecordsMeasureOnce
    EveryDesignIsTold
PROPERTIES
    ResumeKeepsTheSearch
CHECK_DEADLOCK FALSE
