---------------------------- MODULE MCStoreClient ----------------------------
(* A placement that asks for outputs of two derivations, a best-effort     *)
(* call that asks for one of them too, and an upload.                      *)
EXTENDS StoreClient

CONSTANTS gen, lib, place, depfiles, nar

P(d, o) == [drv |-> d, out |-> o]
McAsks == [c \in {place, depfiles} |->
             CASE c = place    -> <<P(gen, "out"), P(lib, "out"), P(gen, "dev")>>
               [] c = depfiles -> <<P(lib, "out")>>]

(* A daemon that may be silent or fail a build, and one behind a socket    *)
(* that refuses and breaks.                                                *)
McDaemons ==
    {[answers |-> [d \in {gen, lib} |-> IF d = gen THEN {"ok", "may pass"} ELSE a],
      faults  |-> {"silence"}] : a \in {{"ok", "refused"}, {"failed"}}}
    \cup {[answers |-> [d \in {gen, lib} |-> {"ok"}],
           faults  |-> {"no connection", "broken connection"}]}
=============================================================================
