SPECIFICATION Spec
CONSTANTS
    Worlds <- McWorlds
    NoTask = NoTask
    CopyNames = {"x.h"}
INVARIANTS
    OutputsAsReal
    InputsAsReal
    FailsLikeReal
