------------------------------ MODULE MCDriver -------------------------------
(* A link, two edges of a pool of depth one, a local edge and a compile.   *)
EXTENDS Driver

CONSTANTS link, gen1, gen2, nested, cc

MCEdge   == {link, gen1, gen2, nested, cc}
MCUnits  == [e \in MCEdge |-> IF e = link THEN Jobs ELSE 1]
MCPooled == {gen1, gen2}
MCLocal  == {nested}
Readings == {1, 8}
MCPanics == {cc}
==============================================================================
