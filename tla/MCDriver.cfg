CONSTANTS
    link = link
    gen1 = gen1
    gen2 = gen2
    nested = nested
    cc = cc
    NoEdge = NoEdge
    Edge <- MCEdge
    Jobs = 2
    Units <- MCUnits
    Pooled <- MCPooled
    Depth = 1
    Local <- MCLocal
    Panics <- MCPanics
    AvailGib <- Readings
    ReserveGib = 2
    FullGib = 6
    Bail = 2
SPECIFICATION FairSpec
INVARIANTS
    WithinLimits
    PermitsFollowThreads
PROPERTIES
    StartsGiveUpDry
    Ends
