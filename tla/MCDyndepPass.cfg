CONSTANTS
    gen = gen
    cc1 = cc1
    cc2 = cc2
    link = link
    all = all
    test = test
    src = src
    hdr = hdr
    o1 = o1
    o2 = o2
    bin = bin
    top = top
    ok = ok
    NoBuild = NoBuild
    Build <- MCBuild
    File <- MCFile
    Graphs <- PlanGraphs
    Plans <- MCPlans
SPECIFICATION DSpec
INVARIANTS
    AmendedBeforeRun
    TargetsBuilt
PROPERTIES
    ProducersKept
