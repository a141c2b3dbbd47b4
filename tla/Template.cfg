SPECIFICATION TFairSpec
CONSTANTS
    Templates = {s, f}
    Main = main
    Args = {"same", "pointer", "base"}
    MaxUses = 1
    MaxDepth = 3
INVARIANTS
    TemplateTypeOK
    ChainIsHonest
    InstancesOnce
PROPERTY
    InstantiationEnds
