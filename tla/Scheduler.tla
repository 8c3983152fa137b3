------------------------------ MODULE Scheduler ------------------------------
(***************************************************************************)
(* The driver's topological scheduler: BuildStates, Scheduler and the run  *)
(* loop of crates/nix-ninja/src/build.rs, with the two ends of the runner  *)
(* they talk to (Runner::start spawns a task thread, Runner::wait receives *)
(* its result).  One main thread runs the loop; every task thread works on *)
(* its own and reports once over the result channel.                       *)
(*                                                                         *)
(* A task may answer "deferred": discovery met a header that an edge this  *)
(* one is not ordered after produces.  The scheduler then edits the graph, *)
(* so `ordering` is a variable here and not a constant.                    *)
(*                                                                         *)
(* The depth-first walk that wants a file is taken in one step, as the set *)
(* of edges it marks; module WantWalk has the walk itself.                 *)
(***************************************************************************)
EXTENDS Integers, Sequences, FiniteSets, SequencesExt

CONSTANTS Build,        \* the build edges (BuildId)
          File,         \* the file nodes (FileId)
          NoBuild,      \* the producer of a source file: None
          Graphs        \* the build graphs the run may be given

BuildState == {"Unneeded", "Want", "Ready", "Running", "Done"}

(* A loaded ninja graph, with the targets on the command line, and for     *)
(* each edge the sets of files its include discovery may miss.             *)
Graph == [producer   : [File -> Build \cup {NoBuild}],
          ordering   : [Build -> SUBSET File],
          validation : [Build -> SUBSET File],
          phony      : SUBSET Build,
          local      : SUBSET Build,
          targets    : Seq(File),
          miss       : [Build -> SUBSET SUBSET File]]

ASSUME NoBuildAssumption == NoBuild \notin Build
ASSUME BuildAssumption   == IsFiniteSet(Build)
ASSUME GraphsAssumption  == Graphs \subseteq Graph

VARIABLES
    graph,      \* the loaded graph, fixed for the run
    keepGoing,  \* NIX_NINJA_KEEP_GOING=1
    ordering,   \* ordering[b]: b's ordering inputs, as edited so far
    state,      \* BuildStates.states
    pending,    \* BuildStates.total_pending
    ready,      \* BuildStates.ready, a FIFO of edges
    noDefer,    \* Runner.no_defer: edges built without the producer index
    threads,    \* edges whose task thread is at work
    results,    \* results sent and not yet received
    running,    \* the run loop's count of edges started and not answered
    failed,     \* the run loop's count of failures
    emitted,    \* edges whose task completed: its derivation is in the store
    todo,       \* targets still to be wanted
    phase       \* "want", "run", then "ok", "failed" or "abort"

vars == <<graph, keepGoing, ordering, state, pending, ready, noDefer, threads,
          results, running, failed, emitted, todo, phase>>

Result == [bid : Build, kind : {"ok", "failed", "deferred"}, fids : SUBSET File]

Answer(b, k, F) == [bid |-> b, kind |-> k, fids |-> F]

-----------------------------------------------------------------------------
(* The graph, read as a relation between edges.                            *)

Producers(files) == {graph.producer[f] : f \in files} \ {NoBuild}

OrderDeps(ord) == [b \in Build |-> Producers(ord[b])]

(* want_build walks the validation inputs after the ordering ones. *)
WalkDeps(ord) ==
    [b \in Build |-> Producers(ord[b]) \cup Producers(graph.validation[b])]

(* Everything S reaches along dep, S included: the least closed superset. *)
Reach(S, dep) ==
    {b \in Build : \A C \in SUBSET Build :
        (S \subseteq C /\ \A c \in C : dep[c] \subseteq C) => b \in C}

(* No cycle inside S: no part of it in which every edge waits on the part. *)
Knots(S, dep) ==
    {T \in SUBSET S : T # {} /\ \A b \in T : dep[b] \cap T # {}}

Acyclic(S, dep) == Knots(S, dep) = {}

(* Mutant: an input being built counts as built. *)
RecheckReadyWhileRunning(ord, b) ==
    \A p \in Producers(ord[b]) : state[p] \in {"Running", "Done"}

RecheckReady(ord, b) == \A p \in Producers(ord[b]) : state[p] = "Done"

(* Mutant: the guard looks at the producers themselves and no further. *)
ProducerCycleDirect(consumer, P) == consumer \in P

(* The deferral's cycle guard: a producer that already reaches the edge. *)
ProducerCycle(consumer, P) == consumer \in Reach(P, OrderDeps(ordering))

-----------------------------------------------------------------------------
(* Wanting files: the unneeded edges a walk from their producers meets.    *)

Unneeded == {b \in Build : state[b] = "Unneeded"}

NewlyWanted(ord, files) ==
    Reach(Producers(files) \cap Unneeded,
          [b \in Build |-> WalkDeps(ord)[b] \cap Unneeded])

PendingWith(C) == pending + Cardinality(C)

(* The edges of C join the run: Ready if every input is built, else Want. *)
MarkedReady(ord, C) == {b \in C : RecheckReady(ord, b)}

MarkedState(ord, C) ==
    [b \in Build |-> CASE b \notin C                -> state[b]
                       [] b \in MarkedReady(ord, C) -> "Ready"
                       [] OTHER                     -> "Want"]

(* A walk that meets a cycle has marked, by then, some edges whose inputs *)
(* it had already walked.                                                 *)
PartlyWalked(ord, C) ==
    {D \in SUBSET C : /\ Acyclic(D, OrderDeps(ord))
                      /\ \A b \in D : OrderDeps(ord)[b] \cap Unneeded \subseteq D}

-----------------------------------------------------------------------------
Fresh ==
    /\ graph \in Graphs
    /\ keepGoing \in BOOLEAN
    /\ ordering = graph.ordering
    /\ state = [b \in Build |-> "Unneeded"]
    /\ pending = 0
    /\ ready = <<>>
    /\ noDefer = {}
    /\ threads = {}
    /\ results = {}
    /\ running = 0
    /\ failed = 0
    /\ emitted = {}
    /\ phase = "want"

Init == Fresh /\ todo = graph.targets

(* build() wants each target in turn.  A cycle through ordering inputs is *)
(* always refused; one that closes through a validation input is refused  *)
(* or walked depending on the file it was entered by.                     *)
WantTarget ==
    /\ phase = "want"
    /\ todo # <<>>
    /\ LET C == NewlyWanted(ordering, {Head(todo)}) IN
        /\ Acyclic(C, OrderDeps(ordering))
        /\ state' = MarkedState(ordering, C)
        /\ pending' = PendingWith(C)
        /\ \E s \in SetToSeqs(MarkedReady(ordering, C)) : ready' = ready \o s
    /\ todo' = Tail(todo)
    /\ UNCHANGED <<graph, keepGoing, ordering, noDefer, threads, results,
                   running, failed, emitted, phase>>

WantTargetRefused ==
    /\ phase = "want"
    /\ todo # <<>>
    /\ ~Acyclic(NewlyWanted(ordering, {Head(todo)}), WalkDeps(ordering))
    /\ phase' = "abort"
    /\ UNCHANGED <<graph, keepGoing, ordering, state, pending, ready, noDefer,
                   threads, results, running, failed, emitted, todo>>

BeginRun ==
    /\ phase = "want"
    /\ todo = <<>>
    /\ phase' = "run"
    /\ UNCHANGED <<graph, keepGoing, ordering, state, pending, ready, noDefer,
                   threads, results, running, failed, emitted, todo>>

-----------------------------------------------------------------------------
(* The run loop: everything ready is started before anything is awaited.   *)

(* The head of the queue is set Running.  Runner::start answers a phony    *)
(* itself, over the channel, and gives any other edge a thread.            *)
StartEdge ==
    /\ phase = "run"
    /\ ready # <<>>
    /\ LET b == Head(ready) IN
        /\ state' = [state EXCEPT ![b] = "Running"]
        /\ IF b \in graph.phony
           THEN /\ results' = results \cup {Answer(b, "ok", {})}
                /\ UNCHANGED threads
           ELSE /\ threads' = threads \cup {b}
                /\ UNCHANGED results
    /\ ready' = Tail(ready)
    /\ running' = running + 1
    /\ UNCHANGED <<graph, keepGoing, ordering, pending, noDefer, failed,
                   emitted, todo, phase>>

(* Runner::start fails (the edge does not resolve, a permit wait stalled,  *)
(* a local edge in a derivation): the error leaves the loop at once, even  *)
(* under keep-going.                                                       *)
StartFails ==
    /\ phase = "run"
    /\ ready # <<>>
    /\ Head(ready) \notin graph.phony
    /\ state' = [state EXCEPT ![Head(ready)] = "Running"]
    /\ ready' = Tail(ready)
    /\ phase' = "abort"
    /\ UNCHANGED <<graph, keepGoing, ordering, pending, noDefer, threads,
                   results, running, failed, emitted, todo>>

(* A task thread ends: its derivation is written, it failed, or discovery  *)
(* answered Deferred before anything was written.                          *)
TaskEmits(b) ==
    /\ phase = "run"
    /\ b \in threads
    /\ emitted' = emitted \cup {b}
    /\ threads' = threads \ {b}
    /\ results' = results \cup {Answer(b, "ok", {})}
    /\ UNCHANGED <<graph, keepGoing, ordering, state, pending, ready, noDefer,
                   running, failed, todo, phase>>

TaskFails(b) ==
    /\ phase = "run"
    /\ b \in threads
    /\ threads' = threads \ {b}
    /\ results' = results \cup {Answer(b, "failed", {})}
    /\ UNCHANGED <<graph, keepGoing, ordering, state, pending, ready, noDefer,
                   running, failed, emitted, todo, phase>>

(* Mutant: the deferral is noticed after the derivation was written. *)
WrittenBeforeDeferring(b) == emitted \cup {b}

WrittenOnDeferral(b) == emitted

TaskDefers(b, F) ==
    /\ phase = "run"
    /\ b \in threads
    /\ b \notin noDefer \cup graph.local
    /\ emitted' = WrittenOnDeferral(b)
    /\ threads' = threads \ {b}
    /\ results' = results \cup {Answer(b, "deferred", F)}
    /\ UNCHANGED <<graph, keepGoing, ordering, state, pending, ready, noDefer,
                   running, failed, todo, phase>>

-----------------------------------------------------------------------------
(* Runner::wait hands the loop one result.                                 *)

Receive(r) ==
    /\ phase = "run"
    /\ ready = <<>>
    /\ running > 0
    /\ r \in results
    /\ results' = results \ {r}
    /\ running' = running - 1
    /\ UNCHANGED <<graph, keepGoing, threads, emitted, todo>>

(* Mutant: the producers of an edge are not looked at before it is queued. *)
NowReadyUnchecked(b) ==
    {d \in Build : /\ state[d] = "Want"
                   /\ b \in WalkDeps(ordering)[d]}

(* Mutant: one dependent is readied and the others are forgotten. *)
NowReadyOne(b) ==
    LET freed == {d \in Build :
                  /\ state[d] = "Want"
                  /\ b \in WalkDeps(ordering)[d]
                  /\ \A p \in Producers(ordering[d]) \ {b} : state[p] = "Done"}
    IN  IF freed = {} THEN {} ELSE {CHOOSE d \in freed : TRUE}

(* Mutant: a dependent is queued whatever its state. *)
NowReadyAnyState(b) ==
    {d \in Build : /\ b \in WalkDeps(ordering)[d]
                   /\ \A p \in Producers(ordering[d]) \ {b} : state[p] = "Done"}

(* Mutant: an input added to an edge is not entered among its file's       *)
(* dependents.                                                             *)
NowReadyAsLoaded(b) ==
    {d \in Build : /\ state[d] = "Want"
                   /\ b \in WalkDeps(graph.ordering)[d]
                   /\ \A p \in Producers(ordering[d]) \ {b} : state[p] = "Done"}

(* The dependents of b's outputs that wait only on finished edges, b being *)
(* one of them by now.                                                     *)
NowReady(b) ==
    {d \in Build : /\ state[d] = "Want"
                   /\ b \in WalkDeps(ordering)[d]
                   /\ \A p \in Producers(ordering[d]) \ {b} : state[p] = "Done"}

(* ready_dependents. *)
HandleDone(r) ==
    /\ Receive(r)
    /\ r.kind = "ok"
    /\ LET D == NowReady(r.bid) IN
        /\ state' = [b \in Build |-> CASE b \in D    -> "Ready"
                                       [] b = r.bid  -> "Done"
                                       [] OTHER      -> state[b]]
        /\ \E s \in SetToSeqs(D) : ready' = ready \o s
    /\ pending' = pending - 1
    /\ UNCHANGED <<ordering, noDefer, failed, phase>>

(* A failed edge stays Running for good; the loop goes on only under       *)
(* keep-going, and never after a local edge failed.                        *)
HandleFailure(r) ==
    /\ Receive(r)
    /\ r.kind = "failed"
    /\ IF r.bid \in graph.local
       THEN failed' = failed /\ phase' = "abort"
       ELSE failed' = failed + 1 /\ phase' = IF keepGoing THEN "run" ELSE "abort"
    /\ UNCHANGED <<ordering, state, pending, ready, noDefer>>

(* DeferMiss::new_ids: what the deferral names beyond the edge's inputs. *)
NewIds(r) == r.fids \ ordering[r.bid]

(* Mutant: the edge is queued again with its index still on. *)
SuppressForgotten(b) == noDefer

Suppress(b) == noDefer \cup {b}

(* Nothing new: the edge is built once more, without the producer index. *)
DeferralAddsNothing(r) ==
    /\ Receive(r)
    /\ r.kind = "deferred"
    /\ NewIds(r) = {}
    /\ noDefer' = Suppress(r.bid)
    /\ state' = [state EXCEPT ![r.bid] = "Ready"]
    /\ ready' = Append(ready, r.bid)
    /\ UNCHANGED <<ordering, pending, failed, phase>>

DeferralFails(r) ==
    /\ failed' = failed + 1
    /\ phase' = IF keepGoing THEN "run" ELSE "abort"

(* The cycle guard refuses before any edit. *)
DeferralRefused(r) ==
    /\ Receive(r)
    /\ r.kind = "deferred"
    /\ NewIds(r) # {}
    /\ ProducerCycle(r.bid, Producers(NewIds(r)))
    /\ DeferralFails(r)
    /\ UNCHANGED <<ordering, state, pending, ready, noDefer>>

(* Mutant: only an edge that had no such input is given one. *)
WithImplicitInputsOnce(b, F) ==
    IF ordering[b] # graph.ordering[b] THEN ordering
    ELSE [ordering EXCEPT ![b] = @ \cup F]

(* dyndep::add_implicit_input, for each new file: a file already among the *)
(* edge's inputs of any kind, validation included, is not added again.     *)
WithImplicitInputs(b, F) ==
    [ordering EXCEPT ![b] = @ \cup (F \ graph.validation[b])]

(* The producers become inputs, they are wanted, and the edge waits again. *)
DeferralRequeued(r) ==
    /\ Receive(r)
    /\ r.kind = "deferred"
    /\ NewIds(r) # {}
    /\ ~ProducerCycle(r.bid, Producers(NewIds(r)))
    /\ ordering' = WithImplicitInputs(r.bid, NewIds(r))
    /\ LET C    == NewlyWanted(ordering', NewIds(r))
           free == RecheckReady(ordering', r.bid)
       IN /\ Acyclic(C, OrderDeps(ordering'))
          /\ state' = [MarkedState(ordering', C) EXCEPT
                          ![r.bid] = IF free THEN "Ready" ELSE "Want"]
          /\ \E s \in SetToSeqs(MarkedReady(ordering', C)) :
                ready' = ready \o s \o (IF free THEN <<r.bid>> ELSE <<>>)
          /\ pending' = PendingWith(C)
    /\ UNCHANGED <<noDefer, failed, phase>>

(* Wanting a producer met a cycle: the inputs stay added, what was walked  *)
(* stays wanted, and the edge stays Running.                               *)
DeferralWantFails(r) ==
    /\ Receive(r)
    /\ r.kind = "deferred"
    /\ NewIds(r) # {}
    /\ ~ProducerCycle(r.bid, Producers(NewIds(r)))
    /\ ordering' = WithImplicitInputs(r.bid, NewIds(r))
    /\ ~Acyclic(NewlyWanted(ordering', NewIds(r)), WalkDeps(ordering'))
    /\ \E C \in PartlyWalked(ordering', NewlyWanted(ordering', NewIds(r))) :
        /\ state' = MarkedState(ordering', C)
        /\ \E s \in SetToSeqs(MarkedReady(ordering', C)) : ready' = ready \o s
        /\ pending' = PendingWith(C)
    /\ DeferralFails(r)
    /\ UNCHANGED noDefer

(* Nothing owed, or nothing ready and nothing running. *)
EndRun ==
    /\ phase = "run"
    /\ pending = 0 \/ (ready = <<>> /\ running = 0)
    /\ phase' = IF failed > 0 THEN "failed" ELSE "ok"
    /\ UNCHANGED <<graph, keepGoing, ordering, state, pending, ready, noDefer,
                   threads, results, running, failed, emitted, todo>>

(* The run is over: nothing moves any more. *)
Stopped == phase \in {"ok", "failed", "abort"} /\ UNCHANGED vars

Handle(r) == \/ HandleDone(r)
             \/ HandleFailure(r)
             \/ DeferralAddsNothing(r)
             \/ DeferralRefused(r)
             \/ DeferralRequeued(r)
             \/ DeferralWantFails(r)

Main == \/ WantTarget
        \/ WantTargetRefused
        \/ BeginRun
        \/ StartEdge
        \/ StartFails
        \/ \E r \in results : Handle(r)
        \/ EndRun

Task(b) == \/ TaskEmits(b)
           \/ TaskFails(b)
           \/ \E F \in graph.miss[b] : TaskDefers(b, F)

Next == \/ Main
        \/ \E b \in Build : Task(b)
        \/ Stopped

Spec == Init /\ [][Next]_vars

(* The main thread never parks while it can move, and a task thread runs   *)
(* to its end.                                                             *)
FairSpec == Spec /\ WF_vars(Main) /\ \A b \in Build : WF_vars(Task(b))

-----------------------------------------------------------------------------
(* Properties.                                                             *)

Owed   == {b \in Build : state[b] \notin {"Unneeded", "Done"}}
Done   == {b \in Build : state[b] = "Done"}
Wanted == Build \ Unneeded

Answered == {r.bid : r \in results}

(* Edges that failed, or whose deferral was refused: Running, and nobody   *)
(* works on them.                                                          *)
Stuck == {b \in Build : state[b] = "Running"} \ (threads \cup Answered)

(* Types, the shape of every variable the scheduler and the runner share. *)
TypeOK ==
    /\ graph \in Graph
    /\ keepGoing \in BOOLEAN
    /\ ordering \in [Build -> SUBSET File]
    /\ state \in [Build -> BuildState]
    /\ pending \in Nat
    /\ ready \in Seq(Build)
    /\ noDefer \subseteq Build
    /\ threads \subseteq Build
    /\ results \subseteq Result
    /\ running \in Nat
    /\ failed \in Nat
    /\ emitted \subseteq Build
    /\ todo \in Seq(File)
    /\ phase \in {"want", "run", "ok", "failed", "abort"}

(* The redundant copies BuildStates and run() keep stay in step with the   *)
(* states, over every requeue: total_pending counts the edges owed, the    *)
(* ready queue holds each Ready edge exactly once, an edge is with one     *)
(* thread or in one result at most, and `running` counts those.            *)
Bookkeeping ==
    /\ pending = Cardinality(Owed)
    /\ ToSet(ready) = {b \in Build : state[b] = "Ready"}
    /\ Len(ready) = Cardinality(ToSet(ready))
    /\ running = Cardinality(threads) + Cardinality(results)
    /\ Cardinality(Answered) = Cardinality(results)
    /\ threads \cap Answered = {}
    /\ \A b \in threads \cup Answered : state[b] = "Running"

(* The order: whatever may start, is at work or has finished comes after   *)
(* every producer of its inputs, those a deferral added included, and an   *)
(* edge that waits has something to wait for.                              *)
OrderRespected ==
    /\ \A b \in Build \ Stuck :
          state[b] \in {"Ready", "Running", "Done"} => RecheckReady(ordering, b)
    /\ \A b \in Build : state[b] = "Want" => ~RecheckReady(ordering, b)

(* run(), at its break: "every remaining Want is downstream of a failure.  *)
(* Only reachable with failures recorded".  A run that starves with no     *)
(* failure on record would end Ok with edges never built.                  *)
NoSilentStall ==
    phase = "run" /\ ready = <<>> /\ running = 0 /\ pending > 0 => failed > 0

(* An Ok run built everything it wanted, the edges deferrals pulled in     *)
(* included, and each target's producer with them.                         *)
OkMeansBuilt ==
    phase = "ok" => /\ Wanted = Done
                    /\ Producers(ToSet(graph.targets)) \subseteq Done
                    /\ Done \ graph.phony = emitted

(* A derivation is written at most once for an edge, and never for one     *)
(* whose answer was a deferral: the re-run writes it.                      *)
WrittenOnce ==
    /\ \A b \in threads : b \notin emitted
    /\ \A r \in results : r.kind # "ok" => r.bid \notin emitted

(* Keep-going abandons a failed edge's dependents and nothing else: when   *)
(* the run ends with failures, an edge left unbuilt reaches a stuck one.   *)
KeepGoingDrains ==
    phase = "failed" =>
        \A b \in Owed : Reach({b}, OrderDeps(ordering)) \cap Stuck # {}

(* No edge may miss a file it has as a validation input: such a file is    *)
(* among its inputs already and is not added.                              *)
MissesApart(g) == \A b \in Build : \A F \in g.miss[b] : F \cap g.validation[b] = {}

(* A deferral that names new producers puts them among the edge's ordering *)
(* inputs before the edge may run again.                                   *)
DeferralOrders ==
    [][\A r \in results \ results' :
          r.kind = "deferred" /\ state'[r.bid] \in {"Want", "Ready"}
             => r.fids \subseteq ordering'[r.bid]]_vars

(* The run ends: deferrals cannot go round for ever and no state of the    *)
(* loop waits on itself, as long as every task thread ends.                *)
Termination == <>(phase \in {"ok", "failed", "abort"})

Verdict == CASE phase = "ok"                  -> "ok"
             [] phase \in {"failed", "abort"} -> "err"
             [] OTHER                         -> "none"

Topo == INSTANCE TopoBuild WITH
            deps    <- OrderDeps(ordering),
            wanted  <- Wanted,
            done    <- Done,
            verdict <- Verdict

(* The run keeps the promise of TopoBuild: edges finish one at a time, each *)
(* after everything it depends on at that moment, a finished edge is never  *)
(* given a new dependency, and "ok" is said only of a debt that is paid.    *)
TopoSpec == Topo!Spec

==============================================================================
