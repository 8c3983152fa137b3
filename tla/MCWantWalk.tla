----------------------------- MODULE MCWantWalk ------------------------------
(* The scheduler's graphs, walked call by call, and one more with a cycle  *)
(* behind a good target.                                                   *)
EXTENDS WantWalk, MCScheduler

(* The first target is fine, the second is on a cycle that a file outside  *)
(* it enters.                                                              *)
RingBehind ==
    [Colliding EXCEPT !.ordering = [Nothing(MCBuild) EXCEPT
                                        ![cc1] = {hdr}, ![cc2] = {o1, bin},
                                        ![link] = {o2, top}, ![all] = {o2}],
                      !.phony    = {},
                      !.targets  = <<o1, top>>,
                      !.miss     = [Nothing(MCBuild) EXCEPT ![cc1] = {{o2}}]]

WalkGraphs      == {Colliding, OneObject, Validated, SideBySide, RingBehind}

(* In Validated alone a validation reads what it validates; there, the     *)
(* target that enters the cycle does so by another file.                   *)
ASSUME InputGraphs == \A g \in Graphs \ {Validated} : CyclesThroughInputs(g)
==============================================================================
