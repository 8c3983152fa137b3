---------------------------- MODULE MCMemoLog ------------------------------
(* Two processes, of two driver builds, and two keys.                      *)
EXTENDS MemoLog

CONSTANTS p1, p2, before, after, dirA, dirB

TwoProcs == {p1, p2}
Builds   == {before, after}
TwoKeys  == {dirA, dirB}
Both     == {"resolve", "discovery"}

(* Nothing tells processes, builds or keys apart. *)
Alike == Permutations(TwoProcs) \cup Permutations(Builds) \cup Permutations(TwoKeys)

(* The passing run goes no further than the first time drivers of two      *)
(* builds are up together: mixed stays, and both its properties speak of   *)
(* the states before.                                                      *)
ApartByBuild == ~mixed
==============================================================================
