SPECIFICATION IterationSpec
CONSTANTS
    Field <- MCField
    MaxLevel = 2
    Rtl = {"r0", "r1"}
    BaseRtl = "r0"
    Baseline <- MCBaseline
    LegalConfig <- MCLegalConfig
    AgentTree <- MCAgentTree
    Netlist <- MCNetlist
    RepairBudget = 2
    Arm = "agent"
    None = None
INVARIANTS
    IterationTypeOK
    BudgetRespected
    PassIsAdmissible
    RepairKeepsMutation
    VerdictIsAboutTheDesign
PROPERTIES
    IterationSettles
CHECK_DEADLOCK FALSE
