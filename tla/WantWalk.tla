------------------------------ MODULE WantWalk -------------------------------
(***************************************************************************)
(* The depth-first walk that wants a file: BuildStates::want_file and      *)
(* want_build, one call or return per step, in the two places the driver   *)
(* calls them from.  build() wants each target before the run;             *)
(* handle_deferred_input wants the producers a deferral names while the    *)
(* task threads work on.                                                   *)
(*                                                                         *)
(* Scheduler takes each of these walks in one step, by the set of edges it *)
(* marks.  Here the set comes out of the recursion, and SchedulerSpec says *)
(* that the one step tells the truth.                                      *)
(***************************************************************************)
EXTENDS Scheduler

VARIABLES
    mode,       \* "idle", "walking", or "refused" for good
    asked,      \* files the walk has still to be started from
    stack,      \* the open calls of want_file, the innermost last
    deferral,   \* the deferral being handled: a set of one result, or {}
    before      \* what Scheduler still sees: the state the walk began in

wvars == <<mode, asked, stack, deferral, before>>
allVars == <<vars, wvars>>

(* An open call: the file it was made for, the edge that produces it, and  *)
(* what is left of want_build's two loops.                                 *)
Open(f) == [file |-> f, bid |-> graph.producer[f],
            ordering |-> ordering[graph.producer[f]],
            validation |-> graph.validation[graph.producer[f]],
            ready |-> TRUE, marked |-> FALSE]

OnStack == {fr.file : fr \in ToSet(stack)}

Seen == [state |-> state, pending |-> pending, ready |-> ready, ordering |-> ordering]

WInit == /\ Init
         /\ mode = "idle"
         /\ asked = {}
         /\ stack = <<>>
         /\ deferral = {}
         /\ before = Seen

-----------------------------------------------------------------------------
(* Where a walk starts.                                                    *)

WantNextTarget ==
    /\ mode = "idle"
    /\ phase = "want"
    /\ todo # <<>>
    /\ mode' = "walking"
    /\ asked' = {Head(todo)}
    /\ before' = Seen
    /\ UNCHANGED <<vars, stack, deferral>>

(* The cycle guard has passed, the inputs are added, and every producer is *)
(* wanted.                                                                 *)
WantDeferred(r) ==
    /\ mode = "idle"
    /\ Receive(r)
    /\ r.kind = "deferred"
    /\ NewIds(r) # {}
    /\ ~ProducerCycle(r.bid, Producers(NewIds(r)))
    /\ ordering' = WithImplicitInputs(r.bid, NewIds(r))
    /\ mode' = "walking"
    /\ asked' = NewIds(r)
    /\ deferral' = {r}
    /\ before' = Seen
    /\ UNCHANGED <<state, pending, ready, noDefer, failed, phase, stack>>

-----------------------------------------------------------------------------
(* want_file, called for f from a stack in which it is not open.           *)

(* Mutant: the caller is not told that the file is still to be built. *)
StillReady(s) == s

NotReady(s) == IF s = <<>> THEN s ELSE [s EXCEPT ![Len(s)].ready = FALSE]

(* A source file, or an edge visited before: the call returns at once, and *)
(* an edge that is not Done makes the caller wait.                         *)
CallReturns(f, s) ==
    LET p == graph.producer[f] IN
        /\ p = NoBuild \/ p \notin Unneeded
        /\ stack' = IF p = NoBuild \/ p \in Done THEN s ELSE NotReady(s)

CallOpens(f, s) ==
    /\ graph.producer[f] \in Unneeded
    /\ stack' = Append(s, Open(f))

(* Mutant: the whole stack is searched for the edge, not for the file. *)
ClosesByEdge(f) ==
    \E g \in OnStack : graph.producer[g] = graph.producer[f]

Closes(f) == f \in OnStack

Call(f, s) ==
    /\ ~Closes(f)
    /\ CallReturns(f, s) \/ CallOpens(f, s)
    /\ UNCHANGED <<vars, mode, deferral, before>>

(* A file that is open already is a dependency cycle: the error passes     *)
(* through every open call.                                                *)
Refuse(f) ==
    /\ Closes(f)
    /\ stack' = <<>>
    /\ asked' = {}
    /\ IF deferral = {}
       THEN /\ mode' = "refused"
            /\ phase' = "abort"
            /\ UNCHANGED failed
       ELSE /\ mode' = "idle"
            /\ failed' = failed + 1
            /\ phase' = IF keepGoing THEN "run" ELSE "abort"
    /\ deferral' = {}
    /\ UNCHANGED <<graph, keepGoing, ordering, state, pending, ready, noDefer,
                   threads, results, running, emitted, todo, before>>

Visit(f, s) == \/ Call(f, s) /\ UNCHANGED asked
               \/ Refuse(f)

-----------------------------------------------------------------------------
(* want_build, in the innermost open call.                                 *)

Begin(f) ==
    /\ mode = "walking"
    /\ stack = <<>>
    /\ f \in asked
    /\ asked' = asked \ {f}
    /\ Call(f, stack)

Top == Last(stack)

InputsWalked == Top.ordering = {}

WantInput(f) ==
    /\ mode = "walking"
    /\ stack # <<>>
    /\ f \in Top.ordering
    /\ Visit(f, Append(Front(stack), [Top EXCEPT !.ordering = @ \ {f}]))

Counted == pending + 1

(* BuildStates::set: the edge is counted, and queued if its inputs are     *)
(* built.                                                                  *)
Mark ==
    /\ mode = "walking"
    /\ stack # <<>>
    /\ InputsWalked
    /\ ~Top.marked
    /\ state' = [state EXCEPT ![Top.bid] = IF Top.ready THEN "Ready" ELSE "Want"]
    /\ pending' = Counted
    /\ ready' = IF Top.ready THEN Append(ready, Top.bid) ELSE ready
    /\ stack' = Append(Front(stack), [Top EXCEPT !.marked = TRUE])
    /\ UNCHANGED <<graph, keepGoing, ordering, noDefer, threads, results, running,
                   failed, emitted, todo, phase, mode, asked, deferral, before>>

(* The validation inputs are walked with the same stack. *)
WantValidation(f) ==
    /\ mode = "walking"
    /\ stack # <<>>
    /\ Top.marked
    /\ f \in Top.validation
    /\ Visit(f, Append(Front(stack), [Top EXCEPT !.validation = @ \ {f}]))

(* The call returns: its edge is not Done, so the caller is not ready. *)
Return ==
    /\ mode = "walking"
    /\ stack # <<>>
    /\ Top.marked
    /\ Top.validation = {}
    /\ stack' = NotReady(Front(stack))
    /\ UNCHANGED <<vars, mode, asked, deferral, before>>

-----------------------------------------------------------------------------
(* The walk is over: the next target, or the deferred edge waits again.    *)

Walked == mode = "walking" /\ stack = <<>> /\ asked = {}

TargetWanted ==
    /\ Walked
    /\ deferral = {}
    /\ mode' = "idle"
    /\ todo' = Tail(todo)
    /\ UNCHANGED <<graph, keepGoing, ordering, state, pending, ready, noDefer,
                   threads, results, running, failed, emitted, phase>>
    /\ UNCHANGED <<asked, stack, deferral, before>>

DeferredWanted(r) ==
    /\ Walked
    /\ r \in deferral
    /\ LET free == RecheckReady(ordering, r.bid) IN
        /\ state' = [state EXCEPT ![r.bid] = IF free THEN "Ready" ELSE "Want"]
        /\ ready' = IF free THEN Append(ready, r.bid) ELSE ready
    /\ mode' = "idle"
    /\ deferral' = {}
    /\ UNCHANGED <<graph, keepGoing, ordering, pending, noDefer, threads, results,
                   running, failed, emitted, todo, phase, asked, stack, before>>

-----------------------------------------------------------------------------
(* The rest of the driver, as Scheduler has it; the main thread does one   *)
(* thing at a time.                                                        *)

MainIdle ==
    /\ mode = "idle"
    /\ \/ BeginRun
       \/ StartEdge
       \/ StartFails
       \/ \E r \in results : \/ HandleDone(r)
                             \/ HandleFailure(r)
                             \/ DeferralAddsNothing(r)
                             \/ DeferralRefused(r)
       \/ EndRun
    /\ UNCHANGED wvars

Walk == \/ WantNextTarget
        \/ \E r \in results : WantDeferred(r)
        \/ \E f \in File : Begin(f) \/ WantInput(f) \/ WantValidation(f)
        \/ Mark
        \/ Return
        \/ TargetWanted
        \/ \E r \in deferral : DeferredWanted(r)

WNext == \/ Walk
         \/ MainIdle
         \/ \E b \in Build : Task(b) /\ UNCHANGED wvars
         \/ Stopped /\ UNCHANGED wvars

WSpec == WInit /\ [][WNext]_allVars

-----------------------------------------------------------------------------
(* What Scheduler sees while a walk is under way. *)
Hidden == mode \in {"walking", "refused"}

Sched == INSTANCE Scheduler WITH
            state    <- IF Hidden THEN before.state ELSE state,
            pending  <- IF Hidden THEN before.pending ELSE pending,
            ready    <- IF Hidden THEN before.ready ELSE ready,
            ordering <- IF Hidden THEN before.ordering ELSE ordering,
            results  <- results \cup deferral,
            running  <- running + Cardinality(deferral)

(* Every walk, whatever the order it takes the inputs in and wherever it   *)
(* breaks off, does what Scheduler says in one step.                       *)
SchedulerSpec == Sched!Spec

(* Wherever validation inputs close a cycle, ordering inputs alone close   *)
(* one inside it.  Not so of an edge that has a file as a validation which *)
(* is made from one of its own outputs.                                    *)
CyclesThroughInputs(g) ==
    \A C \in (SUBSET Build) \ {{}} :
        (\A b \in C : \E f \in g.ordering[b] \cup g.validation[b] : g.producer[f] \in C)
          => \E D \in (SUBSET C) \ {{}} : \A b \in D : \E f \in g.ordering[b] : g.producer[f] \in D

(* A target is refused only where its ordering inputs, the ones an edge    *)
(* must come after, go round.                                              *)
RefusedOnlyOnCycle ==
    mode = "refused" =>
        ~Acyclic(Sched!NewlyWanted(ordering, {Head(todo)}), OrderDeps(ordering))

==============================================================================
