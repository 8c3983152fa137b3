SPECIFICATION Spec
CONSTANTS
  src = src
  ph = ph
  hdr = hdr
  bin = bin
  gen = gen
  sub = sub
  top = top
  compile = compile
  link = link
  Path <- McPath
  Dir <- McDir
  Root = top
  In <- McIn
  Configured <- McConfigured
  Edge <- McEdge
  Outs <- McOuts
  Declared <- McDeclared
  Probes <- McProbes
  Targets <- McTargets
  Patched <- McPatched
  Same <- McSame
  MaxPasses = 3
  MaxEdits = 1
  MaxKills = 0
  MaxRetries = 0
  MaxFails = 0
INVARIANTS
  ReuseCounted
