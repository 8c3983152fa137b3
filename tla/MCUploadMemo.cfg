CONSTANTS
    script = script
    data = data
    old = old
    new = new
    task = task
    resolver = resolver
    Resolver = resolver
    Worker <- OneTask
    File <- MCFile
    Below <- MCBelow
    Rewritten <- MCRewritten
    Content <- MCContent
    Size <- MCSize
    MaxClock = 2
SPECIFICATION Spec
INVARIANTS
    UploadsSound
    MemoSound
