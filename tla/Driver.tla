------------------------------- MODULE Driver --------------------------------
(***************************************************************************)
(* The runner's threads: the main thread starts ready edges (Runner::start *)
(* and Runner::start_local_edge in crates/nix-ninja/src/task.rs), each     *)
(* under a job permit and then its ninja pool's permit, hands both to a    *)
(* thread of its own, and otherwise waits for results (Runner::wait).  A   *)
(* thread sends its result and drops its permits afterwards; one that      *)
(* panics drops them without having sent anything.                         *)
(*                                                                         *)
(* Which edges are ready and when is Scheduler's subject: here they are    *)
(* all ready from the start.  The two semaphores are instances of          *)
(* JobPermits with a single waiter, the main thread.                       *)
(***************************************************************************)
EXTENDS Integers, FiniteSets

CONSTANTS Edge,         \* the edges to start
          NoEdge,       \* no edge is being started
          Jobs,         \* -j, the job permits
          Units,        \* Units[e]: the admission weight of e
          Pooled,       \* edges that name the ninja pool
          Depth,        \* the depth of that pool; 0 is unbounded
          Local,        \* edges run in the build dir, under every job permit
          Panics,       \* edges whose thread may die without reporting
          AvailGib, ReserveGib, FullGib, Bail

ASSUME EdgeAssumption == /\ IsFiniteSet(Edge)
                         /\ NoEdge \notin Edge
                         /\ Pooled \subseteq Edge
                         /\ Local \subseteq Edge
                         /\ Panics \subseteq Edge
ASSUME JobsAssumption == Jobs \in Nat \ {0} /\ Depth \in Nat
ASSUME PermitsAssumption == /\ Units \in [Edge -> Nat]
                            /\ Bail \in Nat \ {0}
                            /\ AvailGib \subseteq Nat
                            /\ ReserveGib \in Nat /\ FullGib \in Nat

VARIABLES
    main,       \* "pick", "global", "pool", "recv", then "done" or "abort"
    current,    \* the edge being started
    queue,      \* ready edges not yet started
    thread,     \* thread[e]: "none", "working", "leaving", "unpooled", "gone"
    inbox,      \* results sent and not yet received
    inFlight,   \* Runner.in_flight
    running,    \* the run loop's count
    \* the job permits
    gpc, gcount, gheavy, gheld, gprev, gquiet, glooked, gdry,
    \* the pool's permits
    ppc, pcount, pheavy, pheld, pprev, pquiet, plooked, pdry

gvars == <<gpc, gcount, gheavy, gheld, gprev, gquiet, glooked, gdry>>
pvars == <<ppc, pcount, pheavy, pheld, pprev, pquiet, plooked, pdry>>
dvars == <<main, current, queue, thread, inbox, inFlight, running>>
vars  == <<dvars, gvars, pvars>>

(* A local edge asks for every job permit; a pool permit weighs one. *)
Asked == [e \in Edge |-> IF e \in Local THEN Jobs ELSE Units[e]]

G == INSTANCE JobPermits WITH
        Task <- Edge, Cap <- Jobs, Ask <- Asked, Callers <- 1,
        pc <- gpc, count <- gcount, heavy <- gheavy, held <- gheld,
        prev <- gprev, quiet <- gquiet, looked <- glooked, dry <- gdry

P == INSTANCE JobPermits WITH
        Task <- Edge, Cap <- Depth, Ask <- [e \in Edge |-> 1], Callers <- 1,
        pc <- ppc, count <- pcount, heavy <- pheavy, held <- pheld,
        prev <- pprev, quiet <- pquiet, looked <- plooked, dry <- pdry

(* Mutant: a pool of depth one gets no semaphore either. *)
BoundedAboveOne(e) == e \in Pooled /\ Depth > 1

(* pool_permits_from_depths: a pool of depth 0 gets no semaphore. *)
Bounded(e) == e \in Pooled /\ Depth > 0

-----------------------------------------------------------------------------
Init ==
    /\ main = "pick"
    /\ current = NoEdge
    /\ queue = Edge
    /\ thread = [e \in Edge |-> "none"]
    /\ inbox = {}
    /\ inFlight = {}
    /\ running = 0
    /\ G!Init
    /\ P!Init

(* The next ready edge: it queues for job permits.  A local edge is listed *)
(* as in flight before it waits, any other edge once it holds its permits. *)
Pick(e) ==
    /\ main = "pick"
    /\ e \in queue
    /\ queue' = queue \ {e}
    /\ current' = e
    /\ main' = "global"
    /\ inFlight' = IF e \in Local THEN inFlight \cup {e} ELSE inFlight
    /\ G!Park(e)
    /\ UNCHANGED <<thread, inbox, running, pvars>>

Spawn(e) ==
    /\ main' = "pick"
    /\ current' = NoEdge
    /\ thread' = [thread EXCEPT ![e] = "working"]
    /\ inFlight' = inFlight \cup {e}
    /\ running' = running + 1

(* Job permits first, the pool's next: who waits on a pool holds its job   *)
(* permits already.                                                        *)
TakeJobPermits ==
    /\ main = "global"
    /\ G!Admit(current)
    /\ IF Bounded(current)
       THEN /\ main' = "pool"
            /\ P!Park(current)
            /\ UNCHANGED <<current, thread, inFlight, running>>
       ELSE Spawn(current) /\ UNCHANGED pvars
    /\ UNCHANGED <<queue, inbox>>

TakePoolPermit ==
    /\ main = "pool"
    /\ P!Admit(current)
    /\ Spawn(current)
    /\ UNCHANGED <<queue, inbox, gvars>>

WaitForPermits ==
    /\ \/ main = "global" /\ G!LookAgain(current) /\ UNCHANGED pvars
       \/ main = "pool"   /\ P!LookAgain(current) /\ UNCHANGED gvars
    /\ UNCHANGED dvars

(* The wait gives up: start returns the error and the run ends with it. *)
StallOnPermits ==
    /\ \/ main = "global" /\ G!GiveUp(current) /\ UNCHANGED pvars
       \/ main = "pool"   /\ P!GiveUp(current) /\ UNCHANGED gvars
    /\ main' = "abort"
    /\ UNCHANGED <<current, queue, thread, inbox, inFlight, running>>

TimePasses ==
    /\ \/ main = "global" /\ G!Tick /\ UNCHANGED pvars
       \/ main = "pool"   /\ P!Tick /\ UNCHANGED gvars
    /\ UNCHANGED dvars

(* Nothing is ready: wait for a result, or be done. *)
StartWaiting ==
    /\ main = "pick"
    /\ queue = {}
    /\ main' = IF running = 0 THEN "done" ELSE "recv"
    /\ UNCHANGED <<current, queue, thread, inbox, inFlight, running, gvars, pvars>>

NoLongerListed(e) == inFlight \ {e}

Receive(e) ==
    /\ main = "recv"
    /\ e \in inbox
    /\ inbox' = inbox \ {e}
    /\ inFlight' = NoLongerListed(e)
    /\ running' = running - 1
    /\ main' = "pick"
    /\ UNCHANGED <<current, queue, thread, gvars, pvars>>

(* recv_timeout says Disconnected only when no sender is left.  The runner *)
(* keeps `tx`, the sender every thread's own is cloned from, for as long   *)
(* as it waits.                                                            *)
Senders == {"runner"} \cup {e \in Edge : thread[e] = "working"}

(* A wait that hears nothing prints its stall line and waits on, unless    *)
(* the channel says Disconnected: then the run fails, naming what was out. *)
HearNothing ==
    /\ main = "recv"
    /\ inbox = {}
    /\ main' = IF Senders = {} THEN "abort" ELSE main
    /\ UNCHANGED <<current, queue, thread, inbox, inFlight, running, gvars, pvars>>

-----------------------------------------------------------------------------
(* A task thread: it works, sends, and drops the pool permit and the job   *)
(* permits, in that order.                                                 *)

(* Mutant: a local edge's thread ends and reports nothing. *)
LocalSilent(e) == {e} \ Local

Sent(e) == {e}

SendResult(e) ==
    /\ main \notin {"done", "abort"}
    /\ thread[e] = "working"
    /\ thread' = [thread EXCEPT ![e] = "leaving"]
    /\ inbox' = inbox \cup Sent(e)
    /\ UNCHANGED <<main, current, queue, inFlight, running, gvars, pvars>>

Panic(e) ==
    /\ main \notin {"done", "abort"}
    /\ e \in Panics
    /\ thread[e] = "working"
    /\ thread' = [thread EXCEPT ![e] = "leaving"]
    /\ UNCHANGED <<main, current, queue, inbox, inFlight, running, gvars, pvars>>

(* Mutant: the pool permit is not moved into the thread. *)
PoolPermitForgotten(e) == UNCHANGED pvars

ReturnPoolPermit(e) == IF Bounded(e) THEN P!Release(e) ELSE UNCHANGED pvars

DropPoolPermit(e) ==
    /\ main \notin {"done", "abort"}
    /\ thread[e] = "leaving"
    /\ thread' = [thread EXCEPT ![e] = "unpooled"]
    /\ ReturnPoolPermit(e)
    /\ UNCHANGED <<main, current, queue, inbox, inFlight, running, gvars>>

DropJobPermits(e) ==
    /\ main \notin {"done", "abort"}
    /\ thread[e] = "unpooled"
    /\ thread' = [thread EXCEPT ![e] = "gone"]
    /\ G!Release(e)
    /\ UNCHANGED <<main, current, queue, inbox, inFlight, running, pvars>>

Stopped == main \in {"done", "abort"} /\ UNCHANGED vars

Main == \/ \E e \in Edge : Pick(e) \/ Receive(e)
        \/ TakeJobPermits
        \/ TakePoolPermit
        \/ WaitForPermits
        \/ StallOnPermits
        \/ StartWaiting
        \/ HearNothing

Thread(e) == SendResult(e) \/ Panic(e) \/ DropPoolPermit(e) \/ DropJobPermits(e)

Next == \/ Main
        \/ TimePasses
        \/ \E e \in Edge : Thread(e)
        \/ Stopped

Spec == Init /\ [][Next]_vars

(* The main thread moves when it can, every thread runs to its end, and    *)
(* time passes.                                                            *)
FairSpec == /\ Spec
            /\ WF_vars(Main)
            /\ WF_vars(TimePasses)
            /\ \A e \in Edge : WF_vars(Thread(e))

-----------------------------------------------------------------------------
Working == {e \in Edge : thread[e] = "working"}

(* Whoever is at work is inside both limits: a whole-budget edge, a link   *)
(* or a local edge, is alone, and a pool never has more than its depth at  *)
(* work.                                                                   *)
WithinLimits ==
    /\ \A e \in Working : G!IsHeavy(e) => Working = {e}
    /\ Depth > 0 => Cardinality(Working \cap Pooled) <= Depth

(* The permits follow the threads: at work or leaving with them, or in the *)
(* hands of the main thread on its way to the pool, and with nobody else.  *)
PermitsFollowThreads ==
    \A e \in Edge :
        /\ gpc[e] = "holding" <=> \/ thread[e] \in {"working", "leaving", "unpooled"}
                                  \/ e = current /\ main = "pool"
                                  \/ e = current /\ main = "abort" /\ ppc[e] = "stalled"
        /\ ppc[e] = "holding" <=> Bounded(e) /\ thread[e] \in {"working", "leaving"}

(* A start gives up on either semaphore only while nothing comes back.     *)
StartsGiveUpDry == G!GivesUpOnlyDry /\ P!GivesUpOnlyDry

(* Edges whose thread died without reporting. *)
Lost == {e \in Panics \cap (inFlight \ inbox) :
            thread[e] \in {"leaving", "unpooled", "gone"}}

(* Every started edge is answered for: the run ends, in success or in an   *)
(* error, unless a thread dies.                                            *)
Ends == <>(main \in {"done", "abort"} \/ Lost # {})

==============================================================================
