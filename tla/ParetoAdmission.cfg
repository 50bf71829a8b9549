SPECIFICATION Spec
CONSTANTS
    Objective <- MCObjective
    MaxObjective = 2
    Niche = {bitmap, csr}
    Reward <- MCReward
    AreaBudget = 1
    Tau0 = 4
    Iters = 4
    Plan = {TRUE, FALSE}
    None = None
SYMMETRY NicheSymmetry
INVARIANTS
    ParetoTypeOK
    FrontIsAntichain
    FrontCoversOffered
    ArchiveHoldsBest
CHECK_DEADLOCK FALSE
