----------------------------- MODULE JobPermits ------------------------------
(***************************************************************************)
(* The weighted counting semaphore that bounds what runs at once: the job  *)
(* permits of the whole driver and of each ninja pool                      *)
(* (JobPermits, PermitState and JobPermit in crates/nix-ninja/src/task.rs).*)
(*                                                                         *)
(* A task parks under the lock and looks again at every release and at     *)
(* every tick.  Its weight is what it asked for, clamped to the budget; a  *)
(* task that takes the whole budget is heavy, and while one is parked the  *)
(* light ones queue behind it.  The budget itself follows the machine's    *)
(* memory and load.  A waiter that sees no permit come back for Bail ticks *)
(* gives up.                                                               *)
(***************************************************************************)
EXTENDS Integers, FiniteSets

CONSTANTS Task,         \* who may hold a permit
          Cap,          \* the whole budget: -j, or a pool's depth
          Ask,          \* Ask[t]: the weight t asks for
          Callers,      \* how many tasks may wait at once; 1 in the driver
          AvailGib,     \* readings of available memory
          ReserveGib,   \* at or below it the budget is 1
          FullGib,      \* at or above it the budget is whole
          Bail          \* PERMIT_ZERO_DRAIN_BAIL, in ticks

VARIABLES
    pc,         \* "idle", "parked", "holding" or "stalled"
    count,      \* PermitState.count: units held
    heavy,      \* PermitState.heavy: parked tasks of whole weight
    held,       \* PermitState.held, as the weight each task holds
    prev,       \* prev[t]: prev_count, the count t saw last
    quiet,      \* quiet[t]: ticks since t last saw the count fall
    looked,     \* parked tasks that have looked since the last tick
    dry         \* ticks since a permit was last released, up to Bail

vars == <<pc, count, heavy, held, prev, quiet, looked, dry>>

AtLeastOne(n) == IF n = 0 THEN 1 ELSE n
Least(m, n)   == IF m < n THEN m ELSE n

(* weight.clamp(1, cap.max(1)). *)
Weight(t) == Least(AtLeastOne(Ask[t]), AtLeastOne(Cap))

IsHeavy(t) == Weight(t) = AtLeastOne(Cap)

Parked  == {t \in Task : pc[t] = "parked"}
Holding == {t \in Task : pc[t] = "holding"}

-----------------------------------------------------------------------------
(* What admission may spend, given the readings.                           *)

(* Linear between the reserve and the full mark, never 0 and never above   *)
(* the cap.                                                                *)
BudgetForMemory(avail) ==
    IF Cap <= 1 \/ FullGib <= ReserveGib THEN AtLeastOne(Cap)
    ELSE IF avail >= FullGib             THEN Cap
    ELSE IF avail <= ReserveGib          THEN 1
    ELSE 1 + ((Cap - 1) * (avail - ReserveGib)) \div (FullGib - ReserveGib)

(* ninja's -l: one at a time while the load is over the limit. *)
BudgetForLoad(over) == IF over THEN 1 ELSE AtLeastOne(Cap)

Budget(avail, over) == Least(BudgetForMemory(avail), BudgetForLoad(over))

-----------------------------------------------------------------------------
Init ==
    /\ pc = [t \in Task |-> "idle"]
    /\ count = 0
    /\ heavy = 0
    /\ held = [t \in Task |-> 0]
    /\ prev = [t \in Task |-> 0]
    /\ quiet = [t \in Task |-> 0]
    /\ looked = {}
    /\ dry = 0

(* acquire_weighted: the lock is taken and a heavy task raises the latch. *)
Park(t) ==
    /\ pc[t] = "idle"
    /\ Cardinality(Parked) < Callers
    /\ pc' = [pc EXCEPT ![t] = "parked"]
    /\ prev' = [prev EXCEPT ![t] = count]
    /\ quiet' = [quiet EXCEPT ![t] = 0]
    /\ heavy' = IF IsHeavy(t) THEN heavy + 1 ELSE heavy
    /\ looked' = looked \ {t}
    /\ UNCHANGED <<count, held, dry>>

(* A light task waits behind a parked heavy one; a weight over the shrunken *)
(* budget is admitted once nothing else holds a unit.                       *)
Admissible(t, budget) ==
    /\ IsHeavy(t) \/ heavy = 0
    /\ count = 0 \/ count + Weight(t) <= budget

Lowered(t) == IF IsHeavy(t) THEN heavy - 1 ELSE heavy

(* The call returns: its clock and its last count go with it. *)
Return(t) ==
    /\ prev' = [prev EXCEPT ![t] = 0]
    /\ quiet' = [quiet EXCEPT ![t] = 0]

Admit(t) ==
    /\ pc[t] = "parked"
    /\ \E avail \in AvailGib, over \in BOOLEAN : Admissible(t, Budget(avail, over))
    /\ pc' = [pc EXCEPT ![t] = "holding"]
    /\ count' = count + Weight(t)
    /\ held' = [held EXCEPT ![t] = Weight(t)]
    /\ heavy' = Lowered(t)
    /\ Return(t)
    /\ looked' = looked \ {t}
    /\ UNCHANGED dry

(* Mutant: the drain clock runs from the moment the task parked. *)
QuietSinceParked(t) == quiet[t]

(* The drain clock restarts when the count is seen to have fallen. *)
QuietSeen(t) == IF count < prev[t] THEN 0 ELSE quiet[t]

(* The wait loop finds no room: it waits on, or gives up and wakes every   *)
(* other waiter.                                                           *)
LookAgain(t) ==
    /\ pc[t] = "parked"
    /\ t \notin looked \/ count # prev[t]
    /\ \E avail \in AvailGib, over \in BOOLEAN : ~Admissible(t, Budget(avail, over))
    /\ QuietSeen(t) < Bail
    /\ prev' = [prev EXCEPT ![t] = count]
    /\ quiet' = [quiet EXCEPT ![t] = QuietSeen(t)]
    /\ looked' = looked \cup {t}
    /\ UNCHANGED <<pc, count, heavy, held, dry>>

GiveUp(t) ==
    /\ pc[t] = "parked"
    /\ \E avail \in AvailGib, over \in BOOLEAN : ~Admissible(t, Budget(avail, over))
    /\ QuietSeen(t) >= Bail
    /\ pc' = [pc EXCEPT ![t] = "stalled"]
    /\ heavy' = Lowered(t)
    /\ Return(t)
    /\ looked' = {}
    /\ UNCHANGED <<count, held, dry>>

(* Drop for JobPermit: the units come back and every waiter is woken. *)
Release(t) ==
    /\ pc[t] = "holding"
    /\ pc' = [pc EXCEPT ![t] = "idle"]
    /\ count' = IF count < held[t] THEN 0 ELSE count - held[t]
    /\ held' = [held EXCEPT ![t] = 0]
    /\ looked' = {}
    /\ dry' = 0
    /\ UNCHANGED <<heavy, prev, quiet>>

(* One PERMIT_WAIT_TICK passes: every waiter has looked since the last. *)
Tick ==
    /\ Parked # {}
    /\ Parked \subseteq looked
    /\ quiet' = [t \in Task |-> IF t \in Parked THEN Least(quiet[t] + 1, Bail)
                                ELSE 0]
    /\ dry' = Least(dry + 1, Bail)
    /\ looked' = {}
    /\ UNCHANGED <<pc, count, heavy, held, prev>>

-----------------------------------------------------------------------------
(* The promise of the stall error, "no released permits": with one waiter  *)
(* at a time, nobody gives up while permits come back, however long it has *)
(* been waiting, nor while nothing is held at all.                         *)
GivesUpOnlyDry ==
    [][\A t \in Task : pc[t] = "parked" /\ pc'[t] = "stalled"
          => dry >= Bail /\ Holding # {}]_vars

==============================================================================
