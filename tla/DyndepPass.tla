----------------------------- MODULE DyndepPass ------------------------------
(***************************************************************************)
(* The two passes of build(): the dyndep files are built first, by a run   *)
(* of their own (Scheduler::load_all_dyndep in crates/nix-ninja/src/       *)
(* build.rs), what they say is folded into the graph (apply_entry in       *)
(* crates/nix-ninja/src/dyndep.rs), and then the targets are wanted and    *)
(* run by the same scheduler, with the edge states the first pass left.    *)
(*                                                                         *)
(* An amendment gives an edge inputs, and gives files that had no producer *)
(* one: both `ordering` and `graph.producer` change between the passes.    *)
(***************************************************************************)
EXTENDS Scheduler

CONSTANT Plans          \* build graphs, with their dyndep files

(* What a dyndep file says of the edge that makes `out`. *)
Entry == [out : File, ins : SUBSET File, outs : SUBSET File]

(* bound[f]: the edges that name the dyndep file f in build.ninja. *)
IsPlan(p) == /\ p.graph \in Graphs
             /\ DOMAIN p.bound \subseteq File
             /\ IsFiniteSet(DOMAIN p.bound)
             /\ p.bound \in [DOMAIN p.bound -> SUBSET Build]
             /\ p.says \in [DOMAIN p.bound -> SUBSET Entry]

ASSUME PlansAssumption == \A p \in Plans : IsPlan(p)

VARIABLES
    plan,       \* what the run was given
    pass,       \* "dyndep", then "build"
    unread,     \* dyndep files not yet read
    said        \* what was read and is not applied yet: <<file, entry>>

dvars == <<plan, pass, unread, said>>
passVars == <<vars, dvars>>
DyndepFiles == DOMAIN plan.bound

(* Mutant: the targets are wanted in the first pass already. *)
Everything == DyndepFiles \cup ToSet(plan.graph.targets)

WantedFirst == DyndepFiles

(* by_file is a hash map: its files are wanted in any order. *)
DInit ==
    /\ plan \in Plans
    /\ Fresh
    /\ graph = plan.graph
    /\ pass = "dyndep"
    /\ unread = DyndepFiles
    /\ said = {}
    /\ todo \in SetToSeqs(WantedFirst)

-----------------------------------------------------------------------------
(* Between the passes.                                                     *)

Reading == pass = "dyndep" /\ phase = "ok"

GiveUp == phase' = "abort"

ReadDyndep(f) ==
    /\ Reading
    /\ said = {}
    /\ f \in unread
    /\ unread' = unread \ {f}
    /\ said' = {f} \X plan.says[f]
    /\ UNCHANGED <<vars, plan, pass>>

(* The file is not there, or does not parse. *)
ReadFails(f) ==
    /\ Reading
    /\ said = {}
    /\ f \in unread
    /\ GiveUp
    /\ UNCHANGED <<graph, keepGoing, ordering, state, pending, ready, noDefer,
                   threads, results, running, failed, emitted, todo, dvars>>

(* An output no edge makes is somebody else's concern. *)
SkipEntry(x) ==
    /\ Reading
    /\ x \in said
    /\ graph.producer[x[2].out] = NoBuild
    /\ said' = said \ {x}
    /\ UNCHANGED <<vars, plan, pass, unread>>

(* An edge that did not name the file is not amended by it. *)
RefuseEntry(x) ==
    /\ Reading
    /\ x \in said
    /\ graph.producer[x[2].out] \in Build \ plan.bound[x[1]]
    /\ GiveUp
    /\ UNCHANGED <<graph, keepGoing, ordering, state, pending, ready, noDefer,
                   threads, results, running, failed, emitted, todo, dvars>>

(* Mutant: the last edge to name an output produces it. *)
ProducerTaken(b, F) == [f \in File |-> IF f \in F THEN b ELSE graph.producer[f]]

ProducerWith(b, F) ==
    [f \in File |-> IF f \in F /\ graph.producer[f] = NoBuild
                    THEN b ELSE graph.producer[f]]

(* apply_entry: the inputs, then the outputs; an output of another edge is *)
(* an error.                                                               *)
ApplyEntry(x) ==
    /\ Reading
    /\ x \in said
    /\ graph.producer[x[2].out] \in plan.bound[x[1]]
    /\ LET b == graph.producer[x[2].out] IN
        /\ ordering' = WithImplicitInputs(b, x[2].ins)
        /\ graph' = [graph EXCEPT !.producer = ProducerWith(b, x[2].outs)]
        /\ IF \A f \in x[2].outs : graph.producer[f] \in {NoBuild, b}
           THEN UNCHANGED phase
           ELSE GiveUp
    /\ said' = said \ {x}
    /\ UNCHANGED <<keepGoing, state, pending, ready, noDefer, threads, results,
                   running, failed, emitted, todo, plan, pass, unread>>

(* The same scheduler is given the targets; run() counts from zero again. *)
BeginTargets ==
    /\ Reading
    /\ unread = {}
    /\ said = {}
    /\ pass' = "build"
    /\ phase' = "want"
    /\ todo' = graph.targets
    /\ running' = 0
    /\ failed' = 0
    /\ UNCHANGED <<graph, keepGoing, ordering, state, pending, ready, noDefer,
                   threads, results, emitted, plan, unread, said>>

Amending == \/ \E f \in unread : ReadDyndep(f) \/ ReadFails(f)
            \/ \E x \in said : SkipEntry(x) \/ RefuseEntry(x) \/ ApplyEntry(x)
            \/ BeginTargets

DNext == \/ Main /\ UNCHANGED dvars
         \/ \E b \in Build : Task(b) /\ UNCHANGED dvars
         \/ Amending
         \/ ~Reading /\ Stopped /\ UNCHANGED dvars

DSpec == DInit /\ [][DNext]_passVars

-----------------------------------------------------------------------------
(* Properties; Bookkeeping, OrderRespected and NoSilentStall are           *)
(* Scheduler's own, over both passes.                                      *)

Unapplied == unread \cup {x[1] : x \in said}

(* Every file an edge is given or may be deferred on. *)
Reads(p, b) == p.graph.ordering[b] \cup p.graph.validation[b] \cup UNION p.graph.miss[b]

(* C suffices to build the dyndep files, and no dyndep file speaks of C:   *)
(* none is bound to an edge of C, and none gives a producer to a source    *)
(* file C reads.                                                           *)
ComesFirst(C, p) ==
    LET Made(f) == p.graph.producer[f] \in C \cup {NoBuild}
    IN  /\ \A f \in DOMAIN p.bound : Made(f) /\ p.bound[f] \cap C = {}
        /\ \A b \in C : \A f \in Reads(p, b) : Made(f)
        /\ \A f \in DOMAIN p.bound : \A e \in p.says[f] : \A g \in e.outs, b \in C :
              p.graph.producer[g] = NoBuild => g \notin Reads(p, b)

(* A plan whose dyndep files do not need one another's edges.  The code    *)
(* has no check for the others: the first pass runs an edge it needs       *)
(* whether or not a dyndep file is to say more of it.                      *)
Separate(p) == \E C \in SUBSET Build : ComesFirst(C, p)

(* "Every dyndep file is built first, in its own pass, and applied before  *)
(* the real schedule starts": an edge that names a dyndep file is not      *)
(* started before what the file says of it is in the graph.                *)
AmendedBeforeRun ==
    \A f \in Unapplied : \A b \in plan.bound[f] : state[b] \notin {"Running", "Done"}

(* A file that has a producer keeps it: no amendment takes an output away  *)
(* from the edge that makes it.                                            *)
ProducersKept ==
    [][\A f \in File : graph.producer[f] # NoBuild
          => graph'.producer[f] = graph.producer[f]]_passVars

(* A run that is ok after both passes built the targets, with the outputs  *)
(* and the inputs the dyndep files added.                                  *)
TargetsBuilt ==
    pass = "build" /\ phase = "ok" =>
        /\ Wanted = Done
        /\ Producers(ToSet(graph.targets)) \subseteq Done
        /\ \A b \in Done : OrderDeps(ordering)[b] \subseteq Done

==============================================================================
