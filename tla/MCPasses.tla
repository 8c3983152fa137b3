------------------------------ MODULE MCPasses ------------------------------
(* compile makes hdr, below two directories of its own, and ph, where      *)
(* configure left a placeholder, from src; link makes bin from hdr and     *)
(* finds ph on disk.                                                       *)
EXTENDS Passes

CONSTANTS src, ph, hdr, bin, gen, sub, top, compile, link

McPath == {src, ph, hdr, bin}
McDir  == {gen, sub}
McIn   == [x \in McPath \cup McDir |->
              CASE x = hdr -> sub [] x = sub -> gen [] OTHER -> top]
McConfigured == [p \in {src, ph} |-> <<"configure", p>>]

McEdge     == {compile, link}
McOuts     == [e \in McEdge |-> IF e = compile THEN {hdr, ph} ELSE {bin}]
McDeclared == [e \in McEdge |-> IF e = compile THEN {src} ELSE {hdr}]
McProbes   == [e \in McEdge |-> IF e = compile THEN {} ELSE {ph}]
McTargets  == {{hdr}, {bin}, {bin, hdr, ph}}
McPatched  == {src}

(* From a source with a hook's edit, the placeholder comes out as it was.  *)
McSame(p, drv) == p = ph /\ drv[1] = compile /\ drv[2][src][1] = "hook"
=============================================================================
