------------------------------- MODULE Runner --------------------------------
(* The Runner, from the start of an edge to the registration of what it    *)
(* wrote.  The main thread starts edges and receives results, one at a     *)
(* time; each task's derivation is built on a thread of its own, from the  *)
(* disk as it is by then.                                                  *)
EXTENDS TaskDerivation

CONSTANTS Editable,   \* files something rewrites while the build runs
          MaxEdits    \* bound: how often each

VARIABLES wanted,     \* edges the build wants
          phase,      \* BuildState, as far as the Runner tells them apart
          tasks,      \* the Task a thread works on
          built,      \* the derivation a thread has assembled for it
          emitted,    \* the derivation an edge ended with
          channel,    \* mpsc: results on their way to wait
          no_defer,   \* edges to build as if nothing were to be produced
          received,   \* edges in the order their outputs were registered
          outcome     \* "running", or why run() returned

(* What a run leaves as it is, what the readers take for sequences, and    *)
(* where files and the other names of files are.                           *)
Fixed == {"outs", "tags", "shape", "spelt", "emitted", "depfile", "words", "argv", "banked"}
IsSequence(s) == s \in Seq(Elems(s))
ASSUME WorldsAssumption ==
    \A w \in Worlds :
        /\ Fixed \cup {"disk", "ordering", "dirtying"} \subseteq DOMAIN w
        /\ \A e \in Edge : IsSequence(w.outs[e]) /\ IsSequence(w.words[e]) /\ IsSequence(w.argv[e])
        /\ DOMAIN w.shape \subseteq Path /\ Range(w.spelt) \subseteq Path

(* A file is the output of one command.  No output and no depfile is a     *)
(* directory.                                                              *)
ASSUME OutputsAssumption ==
    \A w \in Worlds : \A e \in Edge :
        /\ \A n \in Elems(w.outs[e]) :
              /\ n \in Path
              /\ \A f \in Edge :
                    n \in Elems(w.outs[f]) /\ "phony" \notin w.tags[e] \cup w.tags[f] => e = f
        /\ \A n \in (Elems(w.outs[e]) \cup w.depfile[e]) \cap DOMAIN w.shape : "tree" \notin w.shape[n]

(* An answer is banked by an attempt at the same build: nothing rewrites   *)
(* what it lists, and a task inside a derivation's build keeps no answers. *)
ASSUME BankedAssumption ==
    \A w \in Worlds : \A e \in Edge : \A b \in w.banked[e] :
        /\ w.local
        /\ b.deps \subseteq w.disk \ (w.edited \cup UNION {w.placed[f] : f \in Edge})
        /\ \A f \in Edge : "local" \in w.tags[f] => Elems(w.outs[f]) \cap b.deps = {}

(* An earlier pass's derivations were built as this pass builds them. *)
ASSUME EarlierAssumption ==
    \A w \in Worlds : \A e \in Edge :
        /\ \A f, g \in w.emitted[e].entries : f.path = g.path => f.obj = g.obj
        /\ \A f \in w.emitted[e].entries : f.obj \in w.emitted[e].refs

vars == <<world, rev, registry, path_cache, wanted, phase, tasks, built, emitted, channel,
          no_defer, received, outcome>>

NoTask == [inputs |-> <<>>]
NoDrv  == [entries |-> {}, refs |-> {}, outs |-> {}, err |-> "none"]

Init ==
    /\ world \in Worlds
    /\ rev = <<>> /\ path_cache = <<>>
    /\ nodes = UNION {Elems(world.outs[e]) \cup Elems(world.ordering[e]) : e \in Edge}
    /\ derived_files = [p \in world.configured |->
                          File(p, [by |-> Disk, what |-> Content(p), rev |-> 0, raw |-> FALSE])]
    /\ phony_aliases = <<>> /\ stamp_inputs = <<>> /\ stamp_records = <<>>
    /\ co_outputs = ProjectReferences /\ soname_links = <<>> /\ gir_includes = <<>>
    /\ runtime_lib_deps = <<>> /\ path_defines = <<>> /\ py_closures = <<>>
    /\ wanted = world.wanted
    /\ phase = [e \in Edge |-> "want"]
    /\ tasks = [e \in Edge |-> NoTask]
    /\ built = [e \in Edge |-> NoDrv]
    /\ emitted = [e \in Edge |-> NoDrv]
    /\ channel = <<>> /\ no_defer = {} /\ received = <<>> /\ outcome = "running"

Makers(e) == {Producer(n) : n \in Elems(world.ordering[e])} \ {NoEdge}
Names(e)  == {f \in Edge : Says(f, "phony") /\ Outs(f) \cap Elems(world.ordering[e]) # {}}
IsDone(e) == phase[e] = "done"
IsReady(e) ==
    /\ outcome = "running" /\ e \in wanted /\ phase[e] = "want"
    /\ \A f \in Makers(e) \cup Names(e) : IsDone(f)

Result(e) == [edge |-> e, files |-> <<>>, side |-> {}, dirs |-> {}, defer |-> {}, err |-> ""]
Answer(r) == channel' = Append(channel, r)

-----------------------------------------------------------------------------
(* start *)

StartPhony(e) ==
    /\ IsReady(e) /\ Says(e, "phony")
    /\ phony_aliases' = Given(PhonyNames(e), world.ordering[e]) @@ phony_aliases
    /\ phase' = [phase EXCEPT ![e] = "answered"]
    /\ Answer(Result(e))
    /\ UNCHANGED <<world, rev, nodes, derived_files, stamp_inputs, stamp_records, co_outputs,
                   soname_links, gir_includes, runtime_lib_deps, path_defines, py_closures, path_cache,
                   wanted, tasks, built, emitted, no_defer, received, outcome>>

Resolving(e) == IsReady(e) /\ ~Says(e, "phony") /\ ~Says(e, "local")

Resolved(e, t) ==
    /\ derived_files' = t.reg /\ nodes' = t.known
    /\ co_outputs' = t.co
    /\ py_closures' = t.py
    /\ stamp_records' = IF Says(e, "stamp")
                        THEN Given(Outs(e), StampRecord(e, t)) @@ stamp_records
                        ELSE stamp_records
    /\ tasks' = [tasks EXCEPT ![e] = [inputs |-> t.inputs, store |-> t.store, moc |-> t.moc,
                                      defer |-> t.defer, resolved |-> TRUE]]
    /\ phase' = [phase EXCEPT ![e] = "running"]
    /\ UNCHANGED outcome

(* An edge that cannot be resolved may still have an earlier pass's        *)
(* derivation; else the run ends.  What it registered before it failed is  *)
(* left out: the next task registers the same uploads.                     *)
LeftUnresolved(e) ==
    /\ co_outputs' = Siblings(co_outputs, e)
    /\ IF e \in world.recorded
       THEN /\ tasks' = [tasks EXCEPT ![e] = [inputs |-> <<>>, store |-> {}, moc |-> <<>>,
                                              defer |-> {}, resolved |-> FALSE]]
            /\ phase' = [phase EXCEPT ![e] = "running"]
            /\ UNCHANGED outcome
       ELSE /\ outcome' = "error"
            /\ UNCHANGED <<tasks, phase>>
    /\ UNCHANGED <<nodes, derived_files, stamp_records, py_closures>>

StartTask(e) ==
    /\ Resolving(e)
    /\ Records(e)
    /\ \E t \in {NewTask(e)} : IF t.err THEN LeftUnresolved(e) ELSE Resolved(e, t)
    /\ UNCHANGED <<world, rev, phony_aliases, path_cache, wanted, built, emitted, channel,
                   no_defer, received>>

-----------------------------------------------------------------------------
(* The thread of a task *)

Working(e) == outcome = "running" /\ phase[e] = "running" /\ ~Says(e, "local")

(* What the result registers: the declared outputs first, then what the    *)
(* command writes besides, read off the command and the disk once more.    *)
Registers(e) == world.outs[e] \o SetToSeq((Writes(e, tasks[e]) \cap Path) \ Outs(e))
OutputFiles(e, paths) == [i \in DOMAIN paths |-> File(paths[i], Output(e, paths[i]))]
Finished(e) == [Result(e) EXCEPT !.files = OutputFiles(e, Registers(e)),
                                 !.side  = SideFiles(e, tasks[e]),
                                 !.dirs  = EditedTrees(e)]

(* Outputs that go to the outer derivation's own output are built and put  *)
(* there at once.                                                          *)
PlacesOuter(e) ==
    IF world.placed[e] = {} \/ ~world.local THEN UNCHANGED <<world, rev>>
    ELSE /\ world' = [world EXCEPT !.disk = @ \cup world.placed[e]]
         /\ rev' = [p \in world.placed[e] |-> Revision(p) + 1] @@ rev
Ends(e, r) ==
    /\ Answer(r)
    /\ phase' = [phase EXCEPT ![e] = "answered"]
Still == UNCHANGED <<registry, wanted, tasks, no_defer, received, outcome>>
Quiet == UNCHANGED built /\ Still

(* An earlier pass's derivation is taken while it is valid, by an edge     *)
(* that was resolved again.                                                *)
Reusable(e) == world.local /\ tasks[e].resolved /\ e \in world.reusable
Unplaced(e) == world.placed[e] # {} /\ e \in world.broken
Reuse(e) ==
    /\ Working(e) /\ Reusable(e)
    /\ emitted' = [emitted EXCEPT ![e] = world.emitted[e]]
    /\ IF Unplaced(e)
       THEN Ends(e, [Result(e) EXCEPT !.err = "place"]) /\ UNCHANGED <<world, rev>>
       ELSE Ends(e, Finished(e)) /\ PlacesOuter(e)
    /\ UNCHANGED path_cache /\ Quiet

Unresolved(e) ==
    /\ Working(e) /\ ~tasks[e].resolved
    /\ Ends(e, [Result(e) EXCEPT !.err = "unresolved"])
    /\ UNCHANGED <<world, rev, path_cache, emitted>> /\ Quiet

(* What the scans of a task asked of the disk is remembered. *)
Remembered(e) ==
    LET v     == StaticView(e, tasks[e])
        files == AddAll(Seeds(tasks[e]), Forced(e))
    IN
    IF ~Wanted(e) \/ Banked(e, v, Modules(tasks[e].inputs), files) # {} THEN path_cache
    ELSE path_cache @@ [c \in Asked(v, Scan(v, Seeds(tasks[e]))) |-> OnDisk(c)]

(* A stage that fails, or finds what has still to be written, ends the     *)
(* task: nothing is emitted.                                               *)
Stops(e, d) ==
    IF d.err # "" THEN Ends(e, [Result(e) EXCEPT !.err = d.err])
    ELSE Ends(e, [Result(e) EXCEPT !.defer = d.defer])

Assemble(e) ==
    /\ Working(e) /\ ~Reusable(e) /\ tasks[e].resolved
    /\ \E d \in {BuildTask(e, tasks[e], e \notin no_defer)} :
          IF d.err # "" \/ d.defer # {}
          THEN Stops(e, d) /\ UNCHANGED built
          ELSE /\ built' = [built EXCEPT ![e] = d]
               /\ phase' = [phase EXCEPT ![e] = "assembled"]
               /\ UNCHANGED channel
    /\ path_cache' = Remembered(e)
    /\ UNCHANGED <<world, rev, emitted>> /\ Still

Emit(e) ==
    /\ outcome = "running" /\ phase[e] = "assembled"
    /\ \E d \in {Handled(e, tasks[e], e \notin no_defer, built[e])} :
          LET why == IF d.err # "" \/ d.defer # {} THEN d.err
                     ELSE IF Unplaced(e) THEN "place"
                     ELSE IF Says(e, "outside") THEN "outside" ELSE ""
          IN IF why # "" \/ d.defer # {}
             THEN Stops(e, [d EXCEPT !.err = why]) /\ UNCHANGED <<emitted, world, rev>>
             ELSE /\ emitted' = [emitted EXCEPT ![e] = d]
                  /\ Ends(e, Finished(e)) /\ PlacesOuter(e)
    /\ UNCHANGED path_cache /\ Quiet

-----------------------------------------------------------------------------
(* An edge that runs in the build directory itself.  What it orders after  *)
(* is looked up when it starts, and placed and read when it runs.          *)

Needs(n)     == UNION {Elems(world.ordering[f]) : f \in {g \in Edge : n \in Outs(g)}}
Before(N)    == Reached(N, [n \in UNION {Outs(f) : f \in Edge} |-> Needs(n)])
Closure(e)   == Before(Elems(world.ordering[e]))
ToPlace(e)   == {f \in UNION {Elems(ResolveTarget(n)) : n \in Closure(e)} : IsBuilt(f.obj)}

StartLocal(e) ==
    /\ IsReady(e) /\ Says(e, "local")
    /\ IF ~world.local
       THEN /\ outcome' = "error"
            /\ UNCHANGED <<phase, tasks, co_outputs>>
       ELSE /\ co_outputs' = Siblings(co_outputs, e)
            /\ tasks' = [tasks EXCEPT ![e] = [inputs |-> [p \in {f.path : f \in ToPlace(e)} |->
                              (CHOOSE f \in ToPlace(e) : f.path = p).obj]]]
            /\ phase' = [phase EXCEPT ![e] = "running"]
            /\ UNCHANGED outcome
    /\ UNCHANGED <<world, rev, nodes, derived_files, phony_aliases, stamp_inputs, stamp_records,
                   soname_links, gir_includes, runtime_lib_deps, path_defines, py_closures, path_cache,
                   wanted, built, emitted, channel, no_defer, received>>

RunLocal(e) ==
    LET places == tasks[e].inputs
        later  == [p \in Outs(e) |-> Revision(p) + 1]
        outs   == SetToSeq(Outs(e) \cap world.made)
    IN
    /\ outcome = "running" /\ phase[e] = "running" /\ Says(e, "local")
    /\ IF e \in world.broken \/ \E p \in DOMAIN places : places[p].by \in world.broken
       THEN /\ Ends(e, [Result(e) EXCEPT !.err = "local"])
            /\ UNCHANGED <<world, rev>>
       ELSE /\ world' = [world EXCEPT !.disk = @ \cup DOMAIN places \cup Elems(outs)]
            /\ rev' = later @@ rev
            /\ Ends(e, [Result(e) EXCEPT !.files =
                  [i \in DOMAIN outs |-> File(outs[i], [Upload(outs[i]) EXCEPT !.rev = later[outs[i]]])]])
    /\ UNCHANGED <<emitted, path_cache>> /\ Quiet

-----------------------------------------------------------------------------
(* wait, and what the scheduler does with a deferral *)

Register(r) ==
    /\ derived_files' = RecordAll(derived_files, nodes, r)
    /\ nodes' = nodes \cup {KeyOf(nodes, f.path) : f \in Elems(r.files)}
    /\ co_outputs' = Riding(co_outputs, nodes, r)

(* A missed input is added and its producer wanted.  One that is an input  *)
(* already supplies nothing: the edge is then built without deferral.  One *)
(* that needs the edge itself ends the run.                                *)
Wants(F, n) ==
    LET ins == Before({n}) IN F \cup {f \in Edge : Outs(f) \cap ins # {}}
DeferAgain(r) ==
    LET new == r.defer \ Elems(world.ordering[r.edge]) IN
    /\ world' = [world EXCEPT !.ordering[r.edge] = @ \o SetToSeq(new)]
    /\ wanted' = FoldSet(LAMBDA n, F : Wants(F, n), wanted, new)
    /\ phase' = [phase EXCEPT ![r.edge] = "want"]
    /\ UNCHANGED <<no_defer, outcome>>
Defer(r) ==
    LET e   == r.edge
        new == r.defer \ Elems(world.ordering[e])
    IN IF new = {}
       THEN /\ no_defer' = no_defer \cup {e}
            /\ phase' = [phase EXCEPT ![e] = "want"]
            /\ UNCHANGED <<world, wanted, outcome>>
       ELSE IF \E n \in new : Outs(e) \cap Before({n}) # {}
       THEN /\ outcome' = IF world.keep_going THEN "running" ELSE "error"
            /\ phase' = [phase EXCEPT ![e] = "failed"]
            /\ UNCHANGED <<world, wanted, no_defer>>
       ELSE /\ world' = [world EXCEPT !.ordering[e] = @ \o SetToSeq(new),
                                      !.dirtying[e] = @ \o SetToSeq(new)]
            /\ wanted' = FoldSet(LAMBDA n, F : Wants(F, n), wanted, new)
            /\ phase' = [phase EXCEPT ![e] = "want"]
            /\ UNCHANGED <<no_defer, outcome>>

Untouched == UNCHANGED <<rev, phony_aliases, stamp_inputs, stamp_records, soname_links, gir_includes,
                         runtime_lib_deps, path_defines, py_closures, path_cache, tasks, built, emitted>>

Receive ==
    /\ outcome = "running" /\ channel # <<>> /\ channel' = Tail(channel)
    /\ LET r == Head(channel) IN
       /\ r.err = "" /\ r.defer = {}
       /\ Register(r)
       /\ phase' = [phase EXCEPT ![r.edge] = "done"]
       /\ received' = Append(received, r.edge)
    /\ UNCHANGED <<world, wanted, no_defer, outcome>> /\ Untouched

ReceiveDeferred ==
    /\ outcome = "running" /\ channel # <<>> /\ channel' = Tail(channel)
    /\ Head(channel).err = "" /\ Head(channel).defer # {}
    /\ Defer(Head(channel))
    /\ UNCHANGED <<nodes, derived_files, co_outputs, received>> /\ Untouched

(* A failure ends the run, unless told to keep going; a failed local edge  *)
(* ends it in any case.                                                    *)
ReceiveFailed ==
    /\ outcome = "running" /\ channel # <<>> /\ channel' = Tail(channel)
    /\ LET e == Head(channel).edge IN
       /\ Head(channel).err # ""
       /\ phase' = [phase EXCEPT ![e] = "failed"]
       /\ outcome' = IF Says(e, "local") \/ ~world.keep_going THEN "error" ELSE "running"
    /\ UNCHANGED <<world, wanted, no_defer, nodes, derived_files, co_outputs, received>> /\ Untouched

(* Nothing is left to start or to wait for. *)
CanReturn == channel = <<>> /\ \A e \in Edge : ~IsReady(e) /\ phase[e] \notin {"running", "assembled"}

Return ==
    /\ outcome = "running" /\ CanReturn
    /\ outcome' = IF \A e \in wanted : IsDone(e) THEN "built" ELSE "failed"
    /\ UNCHANGED <<world, wanted, phase, channel, no_defer, nodes, derived_files, co_outputs,
                   received>> /\ Untouched

(* A tool of the build, or the user, rewrites a file. *)
Rewrite(p) ==
    /\ outcome = "running" /\ Revision(p) < MaxEdits
    /\ world' = [world EXCEPT !.disk = @ \cup {p}]
    /\ rev' = (p :> Revision(p) + 1) @@ rev
    /\ UNCHANGED <<registry, path_cache, wanted, phase, tasks, built, emitted, channel, no_defer,
                   received, outcome>>

Stopped == outcome # "running" /\ UNCHANGED vars

Main == Receive \/ ReceiveDeferred \/ ReceiveFailed \/ Return
Next ==
    \/ Main
    \/ \E e \in Edge : \/ StartPhony(e) \/ StartTask(e) \/ StartLocal(e)
                       \/ Reuse(e) \/ Unresolved(e) \/ Assemble(e) \/ Emit(e) \/ RunLocal(e)
    \/ \E p \in Editable \cap world.edited : Rewrite(p)
    \/ Stopped

(* The main thread and every task thread run on; nothing makes anyone      *)
(* rewrite a file.  Weak fairness of each thread, with its action's guard  *)
(* in the place of ENABLED: a thread that may step does not wait for ever. *)
Starts    == \E e \in Edge : phase[e] = "want" /\ phase'[e] # "want"
MainSteps == Len(channel') < Len(channel) \/ outcome' # outcome
Fairness ==
    /\ []<>~(\E e \in Edge : IsReady(e)) \/ []<><<Starts>>_vars
    /\ \A e \in Edge : []<>~(outcome = "running" /\ phase[e] \in {"running", "assembled"})
    /\ \/ []<>~(outcome = "running" /\ (channel # <<>> \/ CanReturn))
       \/ []<><<MainSteps>>_vars

Spec == Init /\ [][Next]_vars /\ Fairness

-----------------------------------------------------------------------------
(* Properties *)

IsEmitted(e)   == emitted[e].err = "" /\ ~Says(e, "local")
Precedes(f, e) == Outs(f) \cap Closure(e) # {}
Maker_(p)      == Producer(KeyOf(nodes, p))
Edits(e)       == EditedTrees(e) \cap emitted[e].outs
LastOf(F)      == LET i == Max({j \in DOMAIN received : received[j] \in F}) IN received[i]

(* What stands for an output is what its own edge wrote, whatever upload   *)
(* was registered for the name before; and what stands for a directory     *)
(* that steps edit in place is what the last of them left.                 *)
RegistryFollowsProducer ==
    \A e \in Elems(received) :
        /\ \A n \in {m \in Outs(e) : ~Says(e, "local") /\ ~Says(e, "phony")} :
              derived_files[KeyOf(nodes, n)].obj.by = e
        /\ \A p \in Edits(e) :
              derived_files[KeyOf(nodes, p)].obj.by
                = LastOf({f \in Elems(received) : p \in Edits(f)})

(* No task carries a copy found on disk of a file that an edge it is       *)
(* ordered after writes.                                                   *)
NoStaleInput ==
    \A e \in Edge : IsEmitted(e) =>
        \A f \in emitted[e].entries :
            LET g == Maker_(f.path) IN
            g # NoEdge /\ ~Says(g, "local") /\ Precedes(g, e) => IsBuilt(f.obj)

(* A compile that discovery may defer is emitted with every header its     *)
(* live directives read of those the index knows the maker of, as their    *)
(* edges write them: none is missing and none is a copy that lay on disk.  *)
(* That holds also of an answer given again, unless it was banked by a     *)
(* compile that was itself built without deferral.                         *)
MayDefer(e) == e \notin no_defer /\ \A b \in world.banked[e] : b.asked
HeadersFromTheirMakers ==
    \A e \in Edge : IsEmitted(e) /\ Says(e, "gcc") /\ world.local /\ MayDefer(e) =>
        LET carried == {f.path : f \in emitted[e].entries}
            inner   == UNION {world.inside[t] : t \in carried \cap DOMAIN world.inside}
            have    == carried \cup inner \cup (world.disk \cap world.sources)
            reads   == CompileReads(e, have)
        IN /\ \A p \in reads.at \cap carried : Maker_(p) # NoEdge /\ ~Says(Maker_(p), "local") =>
                 \E f \in emitted[e].entries : f.path = p /\ f.obj.by = Maker_(p)
           /\ \A p \in reads.at : \A i \in DOMAIN world.directives[p] :
                 LET d == world.directives[p][i] IN
                 d.live /\ d.name \in reads.lost => \A j \in DOMAIN d.at : ~Made(d, j)

(* A task's derivation holds one object for a path. *)
OneContentPerPath ==
    \A e \in Edge : \A f, g \in emitted[e].entries : f.path = g.path => f.obj = g.obj

(* Whatever a derivation carries it refers to, also after another entry of *)
(* the same bytes was dropped.                                             *)
SurvivorsReferenced ==
    \A e \in Edge : \A f \in emitted[e].entries : f.obj \in emitted[e].refs

(* Every output registered for an edge is one its derivation declares.     *)
RegisteredAreWritten ==
    \A k \in DOMAIN derived_files :
        LET f == derived_files[k] IN
        IsBuilt(f.obj) => f.obj.by \in Elems(received) /\ f.path \in emitted[f.obj.by].outs

(* Skipping the stamps another stamp covers loses no input.                *)
DrainedInFull(e, s) ==
    FoldLeft(LAMBDA acc, item : Visited(e, item, [acc EXCEPT !.covered = {}]), s, Order(e, s))
SameInFull(e, s) == DOMAIN Drained(e, s).inputs = DOMAIN DrainedInFull(e, s).inputs
CoversSound ==
    \A e \in Edge : IsReady(e) => SameInFull(e, Idle(e))

(* A target stands for all that its name covers, each file once: an output *)
(* for what its edge wrote with it, a phony name for all its inputs.       *)
TargetsResolved ==
    \A e \in Elems(received) : \A n \in Outs(e) :
        LET files == ResolveTarget(n) IN
        /\ IsInjective(files)
        /\ ~Says(e, "phony") /\ ~Says(e, "local") =>
              \A m \in Outs(e) : \E f \in Elems(files) : f.path = m /\ f.obj.by = e
        /\ n \in DOMAIN phony_aliases =>
              \A m \in Elems(world.ordering[e]) : Elems(ResolveTarget(m)) \subseteq Elems(files)

(* Every run returns: no edge is deferred for ever.                        *)
Returns == <>(outcome # "running")

(* A LATER PASS DOES NOT NEED TO RESOLVE AN EDGE IT REUSES: an edge that   *)
(* has a valid derivation of an earlier pass does not fail because it      *)
(* could not be resolved again.                                            *)
ReuseStands ==
    \A i \in DOMAIN channel :
        channel[i].err = "unresolved" /\ world.local => channel[i].edge \notin world.reusable
==============================================================================
