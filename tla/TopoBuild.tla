------------------------------ MODULE TopoBuild ------------------------------
(***************************************************************************)
(* What a build run promises, with no queue, no thread and no counter: the *)
(* edges it was asked for finish one at a time, each after everything it   *)
(* depends on, and the run says "ok" only when nothing it owes is left.    *)
(* A dependency may be discovered late (a dyndep file, an include that a   *)
(* generator answers), but only for an edge that has not finished yet.     *)
(***************************************************************************)
CONSTANT Build                  \* the build edges of the ninja graph

VARIABLES deps,                 \* deps[b]: the edges b must come after
          wanted,               \* the edges the run owes
          done,                 \* the edges that have finished
          verdict               \* "none", then "ok" or "err" for good

vars == <<deps, wanted, done, verdict>>

Init == /\ deps \in [Build -> SUBSET Build]
        /\ wanted = {}
        /\ done = {}
        /\ verdict = "none"

(* The run takes on more edges and learns more dependencies; what has      *)
(* finished keeps the dependencies it finished with.                       *)
Learn == /\ deps' \in [Build -> SUBSET Build]
         /\ \A b \in Build : deps[b] \subseteq deps'[b]
         /\ \A b \in done : deps'[b] = deps[b]
         /\ wanted' \in SUBSET Build
         /\ wanted \subseteq wanted'

Amend == /\ verdict = "none"
         /\ Learn
         /\ UNCHANGED <<done, verdict>>

Finish(b) == /\ verdict = "none"
             /\ b \in wanted \ done
             /\ deps[b] \subseteq done
             /\ done' = done \cup {b}
             /\ UNCHANGED <<deps, wanted, verdict>>

Succeed == /\ verdict = "none"
           /\ wanted \subseteq done
           /\ verdict' = "ok"
           /\ UNCHANGED <<deps, wanted, done>>

(* A run may give up at any time, also while it takes on more. *)
Fail == /\ verdict = "none"
        /\ Learn
        /\ verdict' = "err"
        /\ UNCHANGED done

Next == \/ Amend
        \/ \E b \in Build : Finish(b)
        \/ Succeed
        \/ Fail

Spec == Init /\ [][Next]_vars

==============================================================================
