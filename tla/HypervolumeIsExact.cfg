SPECIFICATION Spec
CONSTANTS
    Objective <- MCObjective
    MaxObjective = 2
    Niche = {bitmap}
    Reward = {0}
    AreaBudget = 2
    Tau0 = 4
    Iters = 3
    Plan <- MCNoPlan
    None = None
INVARIANT
    HypervolumeIsExact
CHECK_DEADLOCK FALSE
