SPECIFICATION Spec
CONSTANTS
    Hw = {"h0", "h1"}
    Sw = {"s0", "s1"}
    Rtl = {"r0", "r1"}
    Designs <- MCDesigns
    Baseline <- MCBaseline
    Pinned = "h0"
    Netlist <- MCNetlist
    Sources = {"c0", "c1"}
    Args <- MCArgs
    Launches = 2
    None = None
INVARIANTS
    CacheTypeOK
    ArtifactIsOfThisDesign
    BinaryIsOfThisSource
    MeasuresTheTypedDesign
    
    SynthesisIsOfThisDesign
    UncachedRoundIsExact
PROPERTY
    OwnHeaderWhenElaborated
VIEW MCView
CHECK_DEADLOCK FALSE
