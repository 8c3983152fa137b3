----------------------------- MODULE MCScheduler -----------------------------
(* Small build graphs for the scheduler: three to six edges each.          *)
EXTENDS Scheduler

CONSTANTS gen, cc1, cc2, link, all, test,       \* edges
          src, hdr, o1, o2, bin, top, ok        \* files

MCBuild == {gen, cc1, cc2, link, all, test}
MCFile  == {src, hdr, o1, o2, bin, top, ok}

Nothing(S) == [x \in S |-> {}]

(* One output each; `src` is a source file. *)
Outs == [f \in MCFile |-> CASE f = hdr -> gen  [] f = o1  -> cc1
                            [] f = o2  -> cc2  [] f = bin -> link
                            [] f = top -> all  [] f = ok  -> test
                            [] OTHER   -> NoBuild]

(* Two compiles and a link under a phony.  The first compile includes a    *)
(* header `gen` writes and may also miss a file the second one writes, and *)
(* the other way round: deferrals that chain, repeat and collide.          *)
Colliding ==
    [producer   |-> Outs,
     ordering   |-> [Nothing(MCBuild) EXCEPT ![cc1]  = {src}, ![cc2] = {src},
                                             ![link] = {o1, o2},
                                             ![all]  = {bin}],
     validation |-> Nothing(MCBuild),
     phony      |-> {all},
     local      |-> {},
     targets    |-> <<top>>,
     miss       |-> [Nothing(MCBuild) EXCEPT ![cc1] = {{hdr}, {hdr, o2}},
                                             ![cc2] = {{o1}}]]

(* One object asked for: the generator is outside the first walk, and the  *)
(* generator of the other header sits on a cycle of the ninja file.        *)
OneObject ==
    [Colliding EXCEPT !.ordering = [Nothing(MCBuild) EXCEPT
                                        ![gen]  = {src}, ![cc1] = {src},
                                        ![cc2]  = {o1},
                                        ![link] = {top}, ![all] = {bin}],
                      !.phony   = {},
                      !.targets = <<o1, o2>>,
                      !.miss    = [Nothing(MCBuild) EXCEPT ![cc1] = {{hdr}, {top}}]]

(* A link with two outputs, a validation that reads the second one, a      *)
(* local edge, and a target whose edge is wanted already.                  *)
Validated ==
    [Colliding EXCEPT !.producer = [Outs EXCEPT ![o2] = link],
                      !.ordering = [Nothing(MCBuild) EXCEPT
                                        ![cc1] = {hdr}, ![link] = {o1},
                                        ![test] = {o2}, ![all] = {bin}],
                      !.validation = [Nothing(MCBuild) EXCEPT ![link] = {ok}],
                      !.local   = {gen},
                      !.targets = <<top, o2>>,
                      !.miss    = [Nothing(MCBuild) EXCEPT ![link] = {{hdr}}]]

(* Three compiles side by side that each may miss what the others write.   *)
SideBySide ==
    [Colliding EXCEPT !.ordering = [Nothing(MCBuild) EXCEPT
                                        ![cc1] = {src}, ![cc2] = {src}, ![test] = {hdr},
                                        ![all] = {o1, o2, ok}],
                      !.targets  = <<top>>,
                      !.miss     = [Nothing(MCBuild) EXCEPT ![cc1]  = {{hdr}, {o2}},
                                                            ![cc2]  = {{ok}, {o1}},
                                                            ![test] = {{hdr}, {o1}}]]

MCGraphs     == {Colliding, OneObject, Validated, SideBySide}

ASSUME ApartGraphs == \A g \in Graphs : MissesApart(g)
==============================================================================
