SPECIFICATION Spec
CONSTANTS
    Hw = {"h0", "h1"}
    Sw = {"s0", "s1"}
    Rtl = {"r0", "r1"}
    Designs <- MCDesigns
    Baseline <- MCBaseline
    Pinned = "h0"
    Netlist <- MCNetlist
    Sources = {"c0", "c1"}
    Args <- MCArgs
    Launches = 2
    None = None
INVARIANT MeasuresThisDesign
CHECK_DEADLOCK FALSE
