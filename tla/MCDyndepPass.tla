---------------------------- MODULE MCDyndepPass -----------------------------
(* Two dyndep files, `hdr` made by gen and `ok` made by test, bound to the *)
(* compiles of two targets.  A target's dyndep file is collated after that *)
(* of the target it links, as CMake does for Fortran.                      *)
EXTENDS DyndepPass, MCScheduler

Says(out, ins, outs) == [out |-> out, ins |-> ins, outs |-> outs]

(* cc1 compiles a module, the file `top` that build.ninja knows nothing    *)
(* of, and cc2 uses it.  cc2 may also miss a header the other compile      *)
(* writes.                                                                 *)
Modules ==
    [Colliding EXCEPT !.producer = [Outs EXCEPT ![top] = NoBuild],
                      !.ordering = [Nothing(MCBuild) EXCEPT
                                        ![test] = {hdr},
                                        ![cc1]  = {src, hdr}, ![cc2] = {src, ok},
                                        ![link] = {o1, o2}],
                      !.phony    = {},
                      !.targets  = <<o2, bin>>,
                      !.miss     = [Nothing(MCBuild) EXCEPT ![cc2] = {{o1}}]]

Plan(g, first, second) ==
    [graph |-> g,
     bound |-> [f \in {hdr, ok} |-> IF f = hdr THEN {cc1} ELSE {cc2}],
     says  |-> [f \in {hdr, ok} |-> IF f = hdr THEN first ELSE second]]

UsesModule    == Plan(Modules, {Says(o1, {}, {top})}, {Says(o2, {top}, {})})
EachUsesOther == Plan(Modules, {Says(o1, {o2}, {})}, {Says(o2, {o1}, {})})
BothMake      == Plan(Modules, {Says(o1, {}, {top})}, {Says(o2, {}, {top})})
NotBound      == Plan(Modules, {Says(o2, {top}, {})}, {Says(src, {}, {top})})

(* Two collations side by side, the second of which may miss a header; a   *)
(* third compile includes what the first writes.                           *)
Apart ==
    [Modules EXCEPT !.producer = [Outs EXCEPT ![top] = NoBuild, ![src] = all],
                    !.ordering = [Nothing(MCBuild) EXCEPT
                                        ![cc1]  = {hdr}, ![cc2] = {ok},
                                        ![link] = {o1, o2, src}],
                    !.targets  = <<bin>>,
                    !.miss     = [Nothing(MCBuild) EXCEPT ![test] = {{hdr}},
                                                          ![cc2]  = {{src}},
                                                          ![all]  = {{o1}}]]

ModuleApart == Plan(Apart, {Says(o1, {}, {top})}, {Says(o2, {top}, {})})
NothingSaid == Plan(Apart, {Says(o1, {}, {})}, {})

MCPlans   == {UsesModule, EachUsesOther, BothMake, NotBound, ModuleApart, NothingSaid}
PlanGraphs == {p.graph : p \in Plans}

ASSUME SeparatePlans == \A p \in Plans : Separate(p)
==============================================================================
