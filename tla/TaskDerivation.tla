--------------------------- MODULE TaskDerivation ---------------------------
(* build_task_derivation and handle_derivation_result: from the inputs of  *)
(* a task to the derivation that is written to the store, on a thread of   *)
(* the task's own, while the disk may change.                              *)
(*                                                                         *)
(* A derivation carries entries <<path, object>>, the objects it refers    *)
(* to, and the outputs it declares.                                        *)
EXTENDS Discovery

Refused(d, why) == [d EXCEPT !.err = why]
Then(d, Do(_)) == IF d.err = "" /\ d.defer = {} THEN Do(d) ELSE d

OpaqueIn(inputs) == {p \in DOMAIN inputs : ~IsBuilt(inputs[p])}
BuiltIn(inputs)  == {p \in DOMAIN inputs : IsBuilt(inputs[p])}
Trees(inputs)    == {p \in DOMAIN inputs : IsTree(p) /\ p \in DOMAIN world.inside}
Modules(inputs)  == {p \in Trees(inputs) : Is(p, "include")}   \* carried_module_trees
Wanted(e)        == Says(e, "wants")

(* What a stage may still look at: the task's own inputs, then what was    *)
(* discovered so far.                                                      *)
Inputs(t)     == {File(p, t.inputs[p]) : p \in DOMAIN t.inputs}
Known(t, d)   == Inputs(t) \cup d.found
Uploads(t, d) == {f \in Known(t, d) : ~IsBuilt(f.obj)}
Objects(F)    == {f.obj : f \in F}
With(d, F)    == [d EXCEPT !.entries = @ \cup F, !.refs = @ \cup Objects(F)]
Without(d, F) == [d EXCEPT !.entries = @ \ F, !.refs = @ \ Objects(F)]
Replaced(d, F, G) == With(Without(d, F), G)

(* A discovered file is added unless the very entry is there. *)
Adds(d, F) == [With(d, F \ d.entries) EXCEPT !.found = @ \cup (F \ d.entries)]
WithFound(d, got, otherwise) ==
    CASE got.absent # {}                     -> otherwise
      [] got.absent = {} /\ got.defer # {} -> [d EXCEPT !.store = @ \cup got.store, !.defer = got.defer]
      [] OTHER -> Adds([d EXCEPT !.store = @ \cup got.store], got.deps)

-----------------------------------------------------------------------------
(* The stages of build_task_derivation *)

Declared(t, indexed) ==
    [entries |-> Inputs(t), refs |-> Objects(Inputs(t)), found |-> {},
     store |-> t.store, outs |-> {}, defer |-> IF indexed THEN t.defer ELSE {}, err |-> ""]

(* A compile driver is required of a compile. *)
Tooled(e, d) == IF Says(e, "no compiler") THEN Refused(d, "tool") ELSE d

(* moc: the headers its inputs reach, with what the build has written      *)
(* already realised for the walk.  A walk that fails is done without.      *)
MocWalked(e, t, d) ==
    IF t.moc = <<>> THEN d
    ELSE LET realise == IF world.local THEN BuiltIn(t.inputs) \cap Elems(t.moc) ELSE {}
             v       == [declared |-> DOMAIN t.inputs, stored |-> OpaqueIn(t.inputs) \cup realise]
             seeds   == Among(t.moc, LAMBDA p : p \in v.declared \/ OnDisk(p))
         IN IF \E p \in realise : t.inputs[p].by \in world.broken THEN d
            ELSE WithFound(d, Discovered(e, v, {}, t.inputs, seeds, FALSE), d)

(* The compile's own discovery starts from the inputs that lie on disk. *)
StaticView(e, t) == [declared |-> DOMAIN t.inputs \ Outs(e), stored |-> {}]
Seeds(t) == SetToSeq({p \in OpaqueIn(t.inputs) : ~IsTree(p)} \cup t.store)
DiscoveredIn(e, t, indexed, d) ==
    IF ~Wanted(e) THEN d
    ELSE WithFound(d, Discovered(e, StaticView(e, t), Modules(t.inputs), t.inputs, Seeds(t),
                                 indexed /\ Says(e, "gcc") /\ world.local),
                   Refused(d, "upload"))

(* An upload of a path that an edge's output has is dropped. *)
Unshadowed(t, d) ==
    LET built == {f.path : f \in {g \in Known(t, d) : IsBuilt(g.obj)}}
        up    == {f \in Uploads(t, d) : f.path \in built}
    IN [Without(d, up) EXCEPT !.found = @ \ up]

(* A path uploaded at two contents is read again, and that alone is kept. *)
Collided(t, d) == {f \in Uploads(t, d) : \E g \in Uploads(t, d) : g.path = f.path /\ g.obj # f.obj}
BothKept(t, d) == d
Uncollided(t, d) ==
    Replaced(d, Collided(t, d), {File(f.path, Upload(f.path)) : f \in Collided(t, d)})

(* Headers of the outer derivation's own output, at the place they are     *)
(* staged for the command.                                                 *)
Staged(e, d) == With(d, {File(s.to, Upload(s.from)) : s \in world.staged[e]})

(* A task that must see the outer paths as they are gets the uploads that  *)
(* were rewritten, again and as they are.                                  *)
Raw(p) == [Upload(p) EXCEPT !.raw = TRUE]
Unrewritten(e, t, d) ==
    LET old == {f \in Uploads(t, d) : f.path \in world.outer /\ OnDisk(f.path)}
    IN IF ~Says(e, "lto") THEN d
       ELSE Replaced(d, old, {File(f.path, Raw(f.path)) : f \in old})

(* The command or an input climbs above the build directory's own root. *)
Climbed(e, d) == IF Says(e, "climbs") THEN Refused(d, "climb") ELSE d

(* What a dropped entry shared with one that remains is referred to again. *)
DroppedForGood(t, d) == d
Rereferenced(t, d) ==
    [d EXCEPT !.refs = @ \cup Objects(Known(t, d) \cap d.entries)]

(* The declared outputs, what the command writes besides, a copy it makes  *)
(* of what is not its input, and its depfile; one store name each.         *)
Writes(e, t) == Outs(e) \cup Undeclared(e) \cup CopyWrites(e, t)
StoreName(p) == IF p \in DOMAIN world.stored_as THEN world.stored_as[p] ELSE p
WithDeclaredOutputs(e, t, d) == [d EXCEPT !.outs = Outs(e) \cup world.depfile[e]]
Declares(d, P) ==
    IF \E p \in P, q \in P : p # q /\ StoreName(p) = StoreName(q)
    THEN Refused(d, "output name") ELSE [d EXCEPT !.outs = P]
WithOutputs(e, t, d) == Declares(d, Writes(e, t) \cup world.depfile[e])

(* The stages in the order of the code; a refusal or a deferral ends them. *)
BuildStage(e, t, indexed, d, stage) ==
    CASE stage = "tool"       -> Tooled(e, d)
      [] stage = "moc"        -> MocWalked(e, t, d)
      [] stage = "discover"   -> DiscoveredIn(e, t, indexed, d)
      [] stage = "shadowed"   -> Unshadowed(t, d)
      [] stage = "collisions" -> Uncollided(t, d)
      [] stage = "staged"     -> Staged(e, d)
      [] stage = "raw"        -> Unrewritten(e, t, d)
      [] stage = "climb"      -> Climbed(e, d)
      [] stage = "refer"      -> Rereferenced(t, d)
      [] stage = "outputs"    -> WithOutputs(e, t, d)

BuildStages == <<"tool", "moc", "discover", "shadowed", "collisions", "staged", "raw", "climb",
                 "refer", "outputs">>
BuildTask(e, t, indexed) ==
    FoldLeft(LAMBDA d, stage : Then(d, LAMBDA x : BuildStage(e, t, indexed, x, stage)),
             Declared(t, indexed), BuildStages)

-----------------------------------------------------------------------------
(* handle_derivation_result *)

Claimed(d) == {f.path : f \in d.entries}
(* A path that a declared input has keeps it.  What is offered for a path  *)
(* is what lies there now, however often it is.                            *)
Updates(d, deps, store) ==
    With([d EXCEPT !.store = @ \cup store], {f \in deps : f.path \notin Claimed(d)})

(* A resource list another edge wrote is built, and what it names carried. *)
ProducedLists(e, t) ==
    IF Says(e, "rcc") THEN {p \in BuiltIn(t.inputs) : Is(p, "list")} ELSE {}
WithListed(e, t, d) ==
    LET lists   == ProducedLists(e, t)
        named   == {QrcMembersOf(e, p) : p \in lists}
        members == UNION {q.files : q \in named}
    IN IF lists = {} THEN d
       ELSE IF \E p \in lists : t.inputs[p].by \in world.broken THEN Refused(d, "build")
       ELSE Updates(d, UploadsOf(members), UNION {q.store : q \in named})

(* Headers on disk that only a produced tree's own headers reach. *)
ThroughTrees(carried, within) ==
    LET have    == within \cup carried
        Hits(p) == {d.at[Min(Places(d, LAMBDA c : c \in have \/ OnDisk(c)))] :
                      d \in {x \in Elems(world.directives[p]) :
                               Places(x, LAMBDA c : c \in have \/ OnDisk(c)) # {}}}
        Ours(c) == ~Is(c, "store") /\ c \notin world.host
    IN Reached(carried, [p \in DOMAIN world.directives |->
                           {c \in Hits(p) : \/ c \in within
                                            \/ p \notin carried \ within /\ Ours(c)}])
         \ have

DynamicView(t) ==
    LET built == BuiltIn(t.inputs)
        files == {p \in built : ~IsTree(p)} \cup UNION {world.inside[p] : p \in Trees(t.inputs) \cap built}
    IN [declared |-> files, stored |-> files]

WithUpdates(t, d, got) ==
    LET carried == {f.path : f \in d.entries}
        within  == UNION {world.inside[p] : p \in Trees(t.inputs)}
        through == ThroughTrees(carried, within)
    IN CASE got.absent # {}                     -> Refused(d, "upload")
         [] got.absent = {} /\ got.defer # {} -> [d EXCEPT !.defer = got.defer]
         [] OTHER -> Updates(d, got.deps \cup UploadsOf(through), got.store)
WithDynamic(e, t, indexed, d) ==
    LET built == BuiltIn(t.inputs) IN
    IF ~Wanted(e) \/ built = {} THEN d
    ELSE IF \E p \in built : t.inputs[p].by \in world.broken THEN Refused(d, "build")
    ELSE WithUpdates(t, d, Discovered(e, DynamicView(t), Modules(t.inputs), t.inputs,
                                      SetToSeq({p \in built : ~IsTree(p)}), indexed /\ Says(e, "gcc")))

(* In a derivation's own build the second half is a derivation: it finds   *)
(* the headers once the inputs are built, with nothing to defer to.        *)
Handled(e, t, indexed, d) ==
    IF world.local
    THEN Then(Then(d, LAMBDA x : WithListed(e, t, x)), LAMBDA x : WithDynamic(e, t, indexed, x))
    ELSE Then(d, LAMBDA x : WithDynamic(e, t, FALSE, x))
==============================================================================
