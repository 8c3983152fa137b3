---------------------------- MODULE Driver_proofs -----------------------------
(***************************************************************************)
(* Proofs about Driver, for every -j, every pool depth, every weight, and  *)
(* every reading of memory and load.                                       *)
(*                                                                         *)
(* The count of a semaphore is the number of the slots its holders fill: a *)
(* holder of weight w fills slots <<e, 1>> to <<e, w>>.  Sums become       *)
(* cardinalities that way, and two holders of which one is whole would     *)
(* fill more slots than there are.                                         *)
(***************************************************************************)
EXTENDS Driver, FiniteSetTheorems, TLAPS

W == [e \in Edge |-> G!Weight(e)]

Slots(S) == {u \in S \X (1..Jobs) : u[2] <= W[u[1]]}

-----------------------------------------------------------------------------
(* What weights and budgets are bounded by.                                *)

LEMMA Weights == /\ W \in [Edge -> 1..Jobs]
                 /\ \A e \in Edge : W[e] = G!Weight(e)
                 /\ \A e \in Edge : P!Weight(e) = 1
<1>1. Asked \in [Edge -> Nat]
  BY JobsAssumption, PermitsAssumption DEF Asked
<1>2. \A e \in Edge : G!Weight(e) \in 1..Jobs
  BY <1>1, JobsAssumption DEF G!Weight, G!Least, G!AtLeastOne
<1>3. \A e \in Edge : P!Weight(e) = 1
  BY JobsAssumption DEF P!Weight, P!Least, P!AtLeastOne
<1> QED
  BY <1>2, <1>3 DEF W

(* The part of the cap that the memory leaves. *)
LEMMA Share ==
    ASSUME NEW c \in Nat, NEW a \in Nat, NEW r \in Nat, NEW f \in Nat,
           c >= 1, r < a, a < f
    PROVE  1 + ((c - 1) * (a - r)) \div (f - r) \in 1..c
<1> DEFINE n == c - 1
           x == a - r
           d == f - r
<1>1. n \in Nat /\ x \in Nat /\ d \in Nat /\ d > 0 /\ x < d
  OBVIOUS
<1> HIDE DEF n, x, d
<1>2. n * x \in Nat /\ n * x <= n * d
  BY <1>1
<1>3. (n * x) \div d \in Nat /\ d * ((n * x) \div d) <= n * x
  BY <1>1, <1>2
<1>4. d * ((n * x) \div d) <= d * n
  BY <1>1, <1>2, <1>3
<1>5. (n * x) \div d <= n
  BY <1>1, <1>3, <1>4
<1> QED
  BY <1>1, <1>3, <1>5 DEF n, x, d

(* No reading admits more than the cap. *)
LEMMA GBudget ==
    ASSUME NEW avail \in AvailGib, NEW over \in BOOLEAN
    PROVE  G!Budget(avail, over) \in 1..Jobs
<1>1. avail \in Nat /\ ReserveGib \in Nat /\ FullGib \in Nat /\ Jobs \in Nat \ {0}
  BY PermitsAssumption, JobsAssumption
<1>2. G!BudgetForMemory(avail) \in 1..Jobs
  BY <1>1, Share DEF G!BudgetForMemory, G!AtLeastOne
<1>3. G!BudgetForLoad(over) \in 1..Jobs
  BY <1>1 DEF G!BudgetForLoad, G!AtLeastOne
<1> QED
  BY <1>2, <1>3 DEF G!Budget, G!Least

LEMMA PBudget ==
    ASSUME NEW avail \in AvailGib, NEW over \in BOOLEAN, Depth > 0
    PROVE  P!Budget(avail, over) \in 1..Depth
<1>1. avail \in Nat /\ ReserveGib \in Nat /\ FullGib \in Nat /\ Depth \in Nat \ {0}
  BY PermitsAssumption, JobsAssumption
<1>2. P!BudgetForMemory(avail) \in 1..Depth
  BY <1>1, Share DEF P!BudgetForMemory, P!AtLeastOne
<1>3. P!BudgetForLoad(over) \in 1..Depth
  BY <1>1 DEF P!BudgetForLoad, P!AtLeastOne
<1> QED
  BY <1>2, <1>3 DEF P!Budget, P!Least

-----------------------------------------------------------------------------
(* Slots.                                                                  *)

LEMMA SlotsFinite ==
    ASSUME NEW S \in SUBSET Edge
    PROVE  IsFiniteSet(Slots(S)) /\ Cardinality(Slots(S)) \in Nat
<1>1. IsFiniteSet(S)
  BY EdgeAssumption, FS_Subset
<1>0. IsFiniteSet(1..Jobs)
  BY JobsAssumption, FS_Interval
<1>2. IsFiniteSet(S \X (1..Jobs))
  BY <1>0, <1>1, FS_Product
<1>3. Slots(S) \subseteq S \X (1..Jobs)
  BY DEF Slots
<1> QED
  BY <1>2, <1>3, FS_Subset, FS_CardinalityType

(* One more holder fills as many more slots as it weighs. *)
LEMMA SlotsAdd ==
    ASSUME NEW S \in SUBSET Edge, NEW e \in Edge \ S
    PROVE  Cardinality(Slots(S \cup {e})) = Cardinality(Slots(S)) + W[e]
<1> DEFINE B == {e} \X (1..W[e])
<1>1. W[e] \in 1..Jobs /\ Jobs \in Nat
  BY Weights, JobsAssumption
<1>2. IsFiniteSet(B) /\ Cardinality(B) = W[e]
  <2>1. IsFiniteSet({e}) /\ Cardinality({e}) = 1
    BY FS_Singleton
  <2>2. IsFiniteSet(1..W[e]) /\ Cardinality(1..W[e]) = W[e]
    BY <1>1, FS_Interval
  <2>3. IsFiniteSet(B) /\ Cardinality(B) = 1 * W[e]
    BY <2>1, <2>2, FS_Product
  <2> QED
    BY <1>1, <2>3
<1>3. Slots(S \cup {e}) = Slots(S) \cup B
  BY <1>1 DEF Slots
<1>4. Slots(S) \cap B = {}
  BY DEF Slots
<1>5. IsFiniteSet(Slots(S)) /\ Cardinality(Slots(S)) \in Nat
  BY SlotsFinite
<1>6. Cardinality(Slots(S) \cup B) = Cardinality(Slots(S)) + Cardinality(B)
                                     - Cardinality(Slots(S) \cap B)
  BY <1>2, <1>5, FS_Union
<1>7. Cardinality(Slots(S) \cap B) = 0
  BY <1>4, FS_EmptySet
<1>8. Cardinality(Slots(S \cup {e})) = Cardinality(Slots(S)) + W[e] - 0
  BY <1>2, <1>3, <1>6, <1>7
<1> QED
  BY <1>1, <1>5, <1>8

(* A holder fills its weight, and an empty count means that none holds. *)
LEMMA SlotsHold ==
    ASSUME NEW S \in SUBSET Edge, NEW e \in S
    PROVE  /\ Cardinality(Slots(S)) = Cardinality(Slots(S \ {e})) + W[e]
           /\ Cardinality(Slots(S)) >= 1
<1>1. (S \ {e}) \cup {e} = S /\ S \ {e} \in SUBSET Edge /\ e \in Edge \ (S \ {e})
  OBVIOUS
<1>2. Cardinality(Slots(S)) = Cardinality(Slots(S \ {e})) + W[e]
  BY <1>1, SlotsAdd
<1>3. Cardinality(Slots(S \ {e})) \in Nat /\ W[e] \in 1..Jobs
  BY <1>1, SlotsFinite, Weights
<1> QED
  BY <1>2, <1>3, JobsAssumption

-----------------------------------------------------------------------------
(* The books of the two semaphores, in the form that is inductive.         *)

PC == {"idle", "parked", "holding", "stalled"}

GHolding == {e \in Edge : gpc[e] = "holding"}
PHolding == {e \in Edge : ppc[e] = "holding"}

GBooks ==
    /\ gpc \in [Edge -> PC]
    /\ gheld \in [Edge -> Nat]
    /\ gcount \in Nat
    /\ \A e \in Edge : gpc[e] = "holding" => gheld[e] = W[e]
    /\ gcount = Cardinality(Slots(GHolding))
    /\ gcount <= Jobs

PBooks ==
    /\ ppc \in [Edge -> PC]
    /\ pheld \in [Edge -> Nat]
    /\ pcount \in Nat
    /\ \A e \in Edge : ppc[e] = "holding" => pheld[e] = 1
    /\ pcount = Cardinality(PHolding)
    /\ Depth > 0 => pcount <= Depth

(* Nobody comes to hold or ceases to. *)
GSame == /\ UNCHANGED <<gcount, gheld>>
         /\ gpc' \in [Edge -> PC]
         /\ \A e \in Edge : gpc'[e] = "holding" <=> gpc[e] = "holding"
PSame == /\ UNCHANGED <<pcount, pheld>>
         /\ ppc' \in [Edge -> PC]
         /\ \A e \in Edge : ppc'[e] = "holding" <=> ppc[e] = "holding"

LEMMA GSameKeeps == ASSUME GBooks, GSame PROVE GBooks'
<1>1. GHolding' = GHolding
  BY DEF GSame, GHolding
<1> QED
  BY <1>1 DEF GBooks, GSame

LEMMA PSameKeeps == ASSUME PBooks, PSame PROVE PBooks'
<1>1. PHolding' = PHolding
  BY DEF PSame, PHolding
<1> QED
  BY <1>1 DEF PBooks, PSame

(* Waiting, whichever way it goes on, moves nobody in or out. *)
LEMMA GWaits ==
    ASSUME GBooks, NEW e \in Edge,
           G!Park(e) \/ G!LookAgain(e) \/ G!GiveUp(e) \/ G!Tick \/ UNCHANGED gvars
    PROVE  GSame /\ GBooks'
<1>1. GSame
  BY DEF GBooks, GSame, PC, G!Park, G!LookAgain, G!GiveUp, G!Tick, gvars
<1> QED
  BY <1>1, GSameKeeps

LEMMA PWaits ==
    ASSUME PBooks, NEW e \in Edge,
           P!Park(e) \/ P!LookAgain(e) \/ P!GiveUp(e) \/ P!Tick \/ UNCHANGED pvars
    PROVE  PSame /\ PBooks'
<1>1. PSame
  BY DEF PBooks, PSame, PC, P!Park, P!LookAgain, P!GiveUp, P!Tick, pvars
<1> QED
  BY <1>1, PSameKeeps

(* An admission stays within the budget, and so within -j. *)
LEMMA GAdmits ==
    ASSUME GBooks, NEW e \in Edge, G!Admit(e)
    PROVE  GBooks'
<1>1. /\ gpc[e] = "parked" /\ gpc' = [gpc EXCEPT ![e] = "holding"]
      /\ gcount' = gcount + W[e] /\ gheld' = [gheld EXCEPT ![e] = W[e]]
  BY Weights DEF G!Admit
<1>2. W[e] \in 1..Jobs /\ Jobs \in Nat
  BY Weights, JobsAssumption
<1>3. gcount = 0 \/ gcount + W[e] <= Jobs
  <2>1. PICK avail \in AvailGib, over \in BOOLEAN : G!Admissible(e, G!Budget(avail, over))
    BY DEF G!Admit
  <2>2. G!Budget(avail, over) \in 1..Jobs
    BY GBudget
  <2>3. gcount = 0 \/ gcount + W[e] <= G!Budget(avail, over)
    BY <2>1, Weights DEF G!Admissible
  <2> QED
    BY <1>2, <2>2, <2>3 DEF GBooks
<1>4. GHolding' = GHolding \cup {e} /\ e \in Edge \ GHolding /\ GHolding \in SUBSET Edge
  BY <1>1 DEF GBooks, GHolding
<1>5. Cardinality(Slots(GHolding')) = gcount + W[e]
  BY <1>4, SlotsAdd DEF GBooks
<1>6. Slots(GHolding)' = Slots(GHolding')
  BY DEF Slots, W
<1> QED
  BY <1>1, <1>2, <1>3, <1>5, <1>6 DEF GBooks, PC

LEMMA PAdmits ==
    ASSUME PBooks, NEW e \in Edge, P!Admit(e)
    PROVE  PBooks'
<1>1. /\ ppc[e] = "parked" /\ ppc' = [ppc EXCEPT ![e] = "holding"]
      /\ pcount' = pcount + 1 /\ pheld' = [pheld EXCEPT ![e] = 1]
  BY Weights DEF P!Admit
<1>3. Depth > 0 => pcount = 0 \/ pcount + 1 <= Depth
  <2> SUFFICES ASSUME Depth > 0 PROVE pcount = 0 \/ pcount + 1 <= Depth
    OBVIOUS
  <2>1. PICK avail \in AvailGib, over \in BOOLEAN : P!Admissible(e, P!Budget(avail, over))
    BY DEF P!Admit
  <2>2. P!Budget(avail, over) \in 1..Depth
    BY PBudget
  <2>3. pcount = 0 \/ pcount + 1 <= P!Budget(avail, over)
    BY <2>1, Weights DEF P!Admissible
  <2> QED
    BY <2>2, <2>3, JobsAssumption DEF PBooks
<1>4. PHolding' = PHolding \cup {e} /\ e \notin PHolding /\ IsFiniteSet(PHolding)
  BY <1>1, EdgeAssumption, FS_Subset DEF PBooks, PHolding
<1>5. Cardinality(PHolding') = pcount + 1
  BY <1>4, FS_AddElement DEF PBooks
<1> QED
  BY <1>1, <1>3, <1>5, JobsAssumption DEF PBooks, PC

(* What comes back is what was taken. *)
LEMMA GReleases ==
    ASSUME GBooks, NEW e \in Edge, G!Release(e)
    PROVE  GBooks'
<1>1. /\ gpc[e] = "holding" /\ gpc' = [gpc EXCEPT ![e] = "idle"]
      /\ gheld' = [gheld EXCEPT ![e] = 0]
      /\ gcount' = IF gcount < gheld[e] THEN 0 ELSE gcount - gheld[e]
  BY DEF G!Release
<1>2. GHolding \in SUBSET Edge /\ e \in GHolding /\ GHolding' = GHolding \ {e}
  BY <1>1 DEF GBooks, GHolding
<1>3. gcount = Cardinality(Slots(GHolding \ {e})) + W[e]
  BY <1>2, SlotsHold DEF GBooks
<1>4. Cardinality(Slots(GHolding \ {e})) \in Nat /\ W[e] \in 1..Jobs /\ Jobs \in Nat
  BY <1>2, SlotsFinite, Weights, JobsAssumption
<1>5. gheld[e] = W[e]
  BY <1>1 DEF GBooks
<1>6. gcount' = Cardinality(Slots(GHolding'))
  BY <1>1, <1>2, <1>3, <1>4, <1>5
<1>7. Slots(GHolding)' = Slots(GHolding')
  BY DEF Slots, W
<1> QED
  BY <1>1, <1>3, <1>4, <1>5, <1>6, <1>7 DEF GBooks, PC

LEMMA PReleases ==
    ASSUME PBooks, NEW e \in Edge, P!Release(e)
    PROVE  PBooks'
<1>1. /\ ppc[e] = "holding" /\ ppc' = [ppc EXCEPT ![e] = "idle"]
      /\ pheld' = [pheld EXCEPT ![e] = 0]
      /\ pcount' = IF pcount < pheld[e] THEN 0 ELSE pcount - pheld[e]
  BY DEF P!Release
<1>2. IsFiniteSet(PHolding) /\ e \in PHolding /\ PHolding' = PHolding \ {e}
  BY <1>1, EdgeAssumption, FS_Subset DEF PBooks, PHolding
<1>3. /\ Cardinality(PHolding \ {e}) = pcount - 1
      /\ Cardinality(PHolding \ {e}) \in Nat
  BY <1>2, FS_RemoveElement, FS_CardinalityType DEF PBooks
<1>4. pcount' = Cardinality(PHolding')
  BY <1>1, <1>2, <1>3 DEF PBooks
<1> QED
  BY <1>1, <1>3, <1>4, JobsAssumption DEF PBooks, PC

-----------------------------------------------------------------------------
(* Where the permits are, in the form that is inductive: besides what      *)
(* PermitsFollowThreads says, an edge that waits for its pool is not yet   *)
(* in a thread, and a wait for the pool that gave up ended the run.        *)

Follow ==
    /\ main \in {"pick", "global", "pool", "recv", "done", "abort"}
    /\ thread \in [Edge -> {"none", "working", "leaving", "unpooled", "gone"}]
    /\ PermitsFollowThreads
    /\ main \in {"global", "pool"} => current \in Edge
    /\ main = "pool" => Bounded(current) /\ thread[current] \in {"none", "gone"}
    /\ \A e \in Edge : ppc[e] = "stalled" => main = "abort"

IInv == GBooks /\ PBooks /\ Follow

LEMMA InitIInv == Init => IInv
<1> SUFFICES ASSUME Init PROVE IInv
  OBVIOUS
<1>1. /\ gpc = [e \in Edge |-> "idle"] /\ gcount = 0 /\ gheld = [e \in Edge |-> 0]
      /\ ppc = [e \in Edge |-> "idle"] /\ pcount = 0 /\ pheld = [e \in Edge |-> 0]
  BY DEF Init, G!Init, P!Init
<1>2. GHolding = {} /\ PHolding = {} /\ Slots(GHolding) = {}
  BY <1>1 DEF GHolding, PHolding, Slots
<1>3. Cardinality(Slots(GHolding)) = 0 /\ Cardinality(PHolding) = 0
  BY <1>2, FS_EmptySet
<1>4. GBooks /\ PBooks
  BY <1>1, <1>3, JobsAssumption DEF GBooks, PBooks, PC
<1>5. Follow
  BY <1>1, EdgeAssumption DEF Init, Follow, PermitsFollowThreads
<1> QED
  BY <1>4, <1>5 DEF IInv

LEMMA PickKeeps == ASSUME IInv, NEW e \in Edge, Pick(e) PROVE IInv'
<1>1. GBooks' /\ PBooks'
  BY GWaits, PWaits DEF IInv, Pick
<1>2. Follow'
  BY DEF IInv, GBooks, PBooks, Follow, PermitsFollowThreads, PC, Pick, G!Park, pvars, Bounded
<1> QED
  BY <1>1, <1>2 DEF IInv

LEMMA TakeJobPermitsKeeps == ASSUME IInv, TakeJobPermits PROVE IInv'
<1>1. current \in Edge /\ main = "global" /\ G!Admit(current)
  BY DEF IInv, Follow, TakeJobPermits
<1>2. GBooks'
  BY <1>1, GAdmits DEF IInv
<1>3. /\ gpc[current] = "parked" /\ gpc' = [gpc EXCEPT ![current] = "holding"]
      /\ thread[current] \in {"none", "gone"}
  BY <1>1 DEF IInv, GBooks, PC, Follow, PermitsFollowThreads, G!Admit
<1>4. CASE Bounded(current)
  <2>1. P!Park(current) /\ UNCHANGED <<current, thread>> /\ main' = "pool"
    BY <1>4 DEF TakeJobPermits
  <2>2. PBooks'
    BY <1>1, <2>1, PWaits DEF IInv
  <2>3. ppc' = [ppc EXCEPT ![current] = "parked"] /\ ppc[current] = "idle"
    BY <2>1 DEF P!Park
  <2>4. Follow'
    BY <1>1, <1>3, <1>4, <2>1, <2>3
       DEF IInv, GBooks, PBooks, PC, Follow, PermitsFollowThreads, Bounded
  <2> QED
    BY <1>2, <2>2, <2>4 DEF IInv
<1>5. CASE ~Bounded(current)
  <2>1. Spawn(current) /\ UNCHANGED pvars
    BY <1>5 DEF TakeJobPermits
  <2>2. PBooks'
    BY <1>1, <2>1, PWaits DEF IInv
  <2>3. Follow'
    BY <1>1, <1>3, <1>5, <2>1, EdgeAssumption
       DEF IInv, GBooks, PBooks, PC, Follow, PermitsFollowThreads, Spawn, Bounded, pvars
  <2> QED
    BY <1>2, <2>2, <2>3 DEF IInv
<1> QED
  BY <1>4, <1>5

LEMMA TakePoolPermitKeeps == ASSUME IInv, TakePoolPermit PROVE IInv'
<1>1. current \in Edge /\ main = "pool" /\ P!Admit(current)
  BY DEF IInv, Follow, TakePoolPermit
<1>2. PBooks' /\ GBooks'
  BY <1>1, PAdmits, GWaits DEF IInv, TakePoolPermit
<1>3. ppc' = [ppc EXCEPT ![current] = "holding"]
  BY <1>1 DEF P!Admit
<1>4. Follow'
  BY <1>1, <1>3, EdgeAssumption
     DEF IInv, GBooks, PBooks, PC, Follow, PermitsFollowThreads, TakePoolPermit, Spawn,
         Bounded, gvars
<1> QED
  BY <1>2, <1>4 DEF IInv

LEMMA WaitsKeep ==
    ASSUME IInv, WaitForPermits \/ StallOnPermits \/ TimePasses
    PROVE  IInv'
<1>1. current \in Edge /\ main \in {"global", "pool"}
  BY DEF IInv, Follow, WaitForPermits, StallOnPermits, TimePasses
<1>2. GSame /\ PSame /\ GBooks' /\ PBooks'
  BY <1>1, GWaits, PWaits DEF IInv, WaitForPermits, StallOnPermits, TimePasses
<1>3. CASE WaitForPermits \/ TimePasses
  <2>1. gpc' = gpc /\ ppc' = ppc /\ UNCHANGED dvars
    BY <1>3 DEF WaitForPermits, TimePasses, G!LookAgain, P!LookAgain, G!Tick, P!Tick,
                gvars, pvars
  <2>2. Follow'
    BY <2>1 DEF IInv, Follow, PermitsFollowThreads, dvars, Bounded
  <2> QED
    BY <1>2, <2>2 DEF IInv
<1>4. CASE StallOnPermits
  <2>1. main' = "abort" /\ UNCHANGED <<current, thread>>
    BY <1>4 DEF StallOnPermits
  <2>2. CASE main = "global"
    <3>1. gpc' = [gpc EXCEPT ![current] = "stalled"] /\ ppc' = ppc /\ gpc[current] = "parked"
      BY <1>4, <2>2 DEF StallOnPermits, G!GiveUp, pvars
    <3> QED
      BY <1>1, <1>2, <2>1, <2>2, <3>1
         DEF IInv, GBooks, PBooks, PC, Follow, PermitsFollowThreads, Bounded
  <2>3. CASE main = "pool"
    <3>1. ppc' = [ppc EXCEPT ![current] = "stalled"] /\ gpc' = gpc /\ ppc[current] = "parked"
      BY <1>4, <2>3 DEF StallOnPermits, P!GiveUp, gvars
    <3> QED
      BY <1>1, <1>2, <2>1, <2>3, <3>1
         DEF IInv, GBooks, PBooks, PC, Follow, PermitsFollowThreads, Bounded
  <2> QED
    BY <1>1, <2>2, <2>3
<1> QED
  BY <1>3, <1>4

LEMMA MainKeeps ==
    ASSUME IInv, StartWaiting \/ HearNothing \/ \E e \in Edge : Receive(e)
    PROVE  IInv'
<1>1. /\ main \in {"pick", "recv"} /\ main' \in {"pick", "recv", "done", "abort"}
      /\ UNCHANGED <<current, thread, gvars, pvars>>
  BY DEF StartWaiting, HearNothing, Receive
<1>3. GBooks' /\ PBooks'
  BY <1>1 DEF IInv, GBooks, PBooks, GHolding, PHolding, gvars, pvars, Slots, W
<1>4. Follow'
  BY <1>1 DEF IInv, Follow, PermitsFollowThreads, Bounded, gvars, pvars
<1> QED
  BY <1>3, <1>4 DEF IInv

LEMMA ThreadKeeps == ASSUME IInv, NEW e \in Edge, Thread(e) PROVE IInv'
<1>1. CASE SendResult(e) \/ Panic(e)
  <2>1. /\ thread[e] = "working" /\ thread' = [thread EXCEPT ![e] = "leaving"]
        /\ UNCHANGED <<main, current, gvars, pvars>>
    BY <1>1 DEF SendResult, Panic
  <2>2. GBooks' /\ PBooks'
    BY <2>1, GWaits, PWaits DEF IInv
  <2>3. Follow'
    BY <2>1 DEF IInv, Follow, PermitsFollowThreads, Bounded, gvars, pvars
  <2> QED
    BY <2>2, <2>3 DEF IInv
<1>2. CASE DropPoolPermit(e)
  <2>1. /\ thread[e] = "leaving" /\ thread' = [thread EXCEPT ![e] = "unpooled"]
        /\ UNCHANGED <<main, current, gvars>>
        /\ IF Bounded(e) THEN P!Release(e) ELSE UNCHANGED pvars
    BY <1>2 DEF DropPoolPermit, ReturnPoolPermit
  <2>2. GBooks' /\ PBooks'
    BY <2>1, GWaits, PWaits, PReleases DEF IInv
  <2>3. /\ Bounded(e) => ppc' = [ppc EXCEPT ![e] = "idle"]
        /\ ~Bounded(e) => ppc' = ppc
    BY <2>1 DEF P!Release, pvars
  <2>4. Follow'
    BY <2>1, <2>3 DEF IInv, PBooks, PC, Follow, PermitsFollowThreads, Bounded, gvars
  <2> QED
    BY <2>2, <2>4 DEF IInv
<1>3. CASE DropJobPermits(e)
  <2>1. /\ main \notin {"done", "abort"}
        /\ thread[e] = "unpooled" /\ thread' = [thread EXCEPT ![e] = "gone"]
        /\ UNCHANGED <<main, current, pvars>> /\ G!Release(e)
    BY <1>3 DEF DropJobPermits
  <2>2. GBooks' /\ PBooks'
    BY <2>1, PWaits, GReleases DEF IInv
  <2>3. gpc' = [gpc EXCEPT ![e] = "idle"]
    BY <2>1 DEF G!Release
  <2>4. Follow'
    BY <2>1, <2>3 DEF IInv, GBooks, PC, Follow, PermitsFollowThreads, Bounded, pvars
  <2> QED
    BY <2>2, <2>4 DEF IInv
<1> QED
  BY <1>1, <1>2, <1>3 DEF Thread

LEMMA NextKeeps == IInv /\ [Next]_vars => IInv'
<1> SUFFICES ASSUME IInv, [Next]_vars PROVE IInv'
  OBVIOUS
<1>1. CASE \E e \in Edge : Pick(e)
  BY <1>1, PickKeeps
<1>2. CASE \E e \in Edge : Receive(e)
  BY <1>2, MainKeeps
<1>3. CASE TakeJobPermits \/ TakePoolPermit
  BY <1>3, TakeJobPermitsKeeps, TakePoolPermitKeeps
<1>4. CASE WaitForPermits \/ StallOnPermits \/ TimePasses
  BY <1>4, WaitsKeep
<1>5. CASE StartWaiting \/ HearNothing
  BY <1>5, MainKeeps
<1>6. CASE \E e \in Edge : Thread(e)
  BY <1>6, ThreadKeeps
<1>7. CASE UNCHANGED vars
  BY <1>7 DEF IInv, GBooks, PBooks, Follow, PermitsFollowThreads, Bounded, GHolding, PHolding,
              Slots, W, vars, dvars, gvars, pvars
<1> QED
  BY <1>1, <1>2, <1>3, <1>4, <1>5, <1>6, <1>7 DEF Next, Main, Stopped

-----------------------------------------------------------------------------
(* Two at work of which one is whole would fill more slots than -j; and    *)
(* those of the pool at work are among the holders of its permits.         *)
LEMMA LimitsFollow == ASSUME IInv PROVE WithinLimits
<1>1. \A e \in Working : gpc[e] = "holding" /\ e \in Edge
  BY DEF IInv, Follow, PermitsFollowThreads, Working
<1>2. ASSUME NEW e \in Working, NEW f \in Working, G!IsHeavy(e), f # e PROVE FALSE
  <2>1. /\ GHolding \in SUBSET Edge /\ e \in GHolding
        /\ GHolding \ {e} \in SUBSET Edge /\ f \in GHolding \ {e}
    BY <1>1, <1>2 DEF GHolding
  <2>2. W[e] = Jobs
    BY <1>1, <1>2, Weights, JobsAssumption DEF G!IsHeavy, G!AtLeastOne
  <2>3. Cardinality(Slots(GHolding \ {e})) >= 1 /\ Cardinality(Slots(GHolding \ {e})) \in Nat
    BY <2>1, SlotsHold, SlotsFinite
  <2>4. gcount = Cardinality(Slots(GHolding \ {e})) + Jobs
    BY <2>1, <2>2, SlotsHold DEF IInv, GBooks
  <2> QED
    BY <2>3, <2>4, JobsAssumption DEF IInv, GBooks
<1>3. ASSUME Depth > 0 PROVE Cardinality(Working \cap Pooled) <= Depth
  <2>1. Working \cap Pooled \subseteq PHolding
    BY <1>3, <1>1 DEF IInv, Follow, PermitsFollowThreads, Working, Bounded, PHolding
  <2>2. IsFiniteSet(PHolding)
    BY EdgeAssumption, FS_Subset DEF PHolding
  <2>3. /\ Cardinality(Working \cap Pooled) <= Cardinality(PHolding)
        /\ Cardinality(Working \cap Pooled) \in Nat
    BY <2>1, <2>2, FS_Subset, FS_CardinalityType
  <2> QED
    BY <1>3, <2>3, JobsAssumption DEF IInv, PBooks
<1> QED
  BY <1>2, <1>3 DEF WithinLimits

(* Every permit is where it belongs: with an edge at work or leaving, or   *)
(* with the main thread on its way to the pool (Runner::start,             *)
(* JobPermit::drop).                                                       *)
THEOREM PermitsFollow == Spec => []PermitsFollowThreads
<1>1. IInv => PermitsFollowThreads
  BY DEF IInv, Follow
<1> QED
  BY <1>1, InitIInv, NextKeeps, PTL DEF Spec

(* Whatever the memory and load readings do, the edges at work stay inside *)
(* -j and the pool's depth, and one that asks for everything works alone   *)
(* (acquire_weighted, job_units, pool_permits_from_depths).                *)
THEOREM LimitsHold == Spec => []WithinLimits
<1>1. IInv => WithinLimits
  BY LimitsFollow
<1> QED
  BY <1>1, InitIInv, NextKeeps, PTL DEF Spec

-----------------------------------------------------------------------------
(* The drain clocks, in the form that is inductive: the one waiter has     *)
(* either seen every release, and has waited no longer than nothing came   *)
(* back, or will see the count fallen; and the latch is up only for it.    *)

GClock ==
    /\ gprev \in [Edge -> Nat] /\ gquiet \in [Edge -> Nat] /\ gdry \in Nat
    /\ \A e \in Edge : gpc[e] = "parked" =>
          /\ main = "global" /\ e = current
          /\ gcount <= gprev[e]
          /\ gcount < gprev[e] \/ gquiet[e] <= gdry
    /\ gheavy = IF main = "global" /\ G!IsHeavy(current) THEN 1 ELSE 0

PClock ==
    /\ pprev \in [Edge -> Nat] /\ pquiet \in [Edge -> Nat] /\ pdry \in Nat
    /\ \A e \in Edge : ppc[e] = "parked" =>
          /\ main = "pool" /\ e = current
          /\ pcount <= pprev[e]
          /\ pcount < pprev[e] \/ pquiet[e] <= pdry
    /\ pheavy = IF main = "pool" /\ P!IsHeavy(current) THEN 1 ELSE 0

Clocks == IInv /\ GClock /\ PClock

LEMMA InitClocks == Init => Clocks
<1> SUFFICES ASSUME Init PROVE Clocks
  OBVIOUS
<1>1. GClock /\ PClock
  BY DEF Init, G!Init, P!Init, GClock, PClock
<1> QED
  BY <1>1, InitIInv DEF Clocks

(* A grant or a look by the one waiter, and a release by anybody else.     *)
LEMMA GParkClock ==
    ASSUME GBooks, GClock, NEW e \in Edge, G!Park(e), main # "global",
           main' = "global", current' = e
    PROVE  GClock'
<1>1. /\ gpc[e] = "idle" /\ gpc' = [gpc EXCEPT ![e] = "parked"]
      /\ gprev' = [gprev EXCEPT ![e] = gcount] /\ gquiet' = [gquiet EXCEPT ![e] = 0]
      /\ gheavy' = IF G!IsHeavy(e) THEN gheavy + 1 ELSE gheavy
      /\ UNCHANGED <<gcount, gdry>>
  BY DEF G!Park
<1>2. G!IsHeavy(current)' <=> G!IsHeavy(e)
  BY DEF G!IsHeavy, G!Weight, G!Least, G!AtLeastOne, Asked
<1> QED
  BY <1>1, <1>2 DEF GBooks, GClock, PC

LEMMA GLeaveClock ==
    ASSUME GBooks, GClock, current \in Edge, main = "global", main' # "global",
           G!Admit(current) \/ G!GiveUp(current)
    PROVE  GClock'
<1>1. /\ gpc' \in {[gpc EXCEPT ![current] = "holding"], [gpc EXCEPT ![current] = "stalled"]}
      /\ gprev' = [gprev EXCEPT ![current] = 0]
      /\ gquiet' = [gquiet EXCEPT ![current] = 0]
      /\ gheavy' = IF G!IsHeavy(current) THEN gheavy - 1 ELSE gheavy
      /\ UNCHANGED gdry
  BY DEF G!Admit, G!GiveUp, G!Return, G!Lowered
<1> QED
  BY <1>1 DEF GBooks, GClock, PC

LEMMA GWaitClock ==
    ASSUME GBooks, GClock, current \in Edge, UNCHANGED <<main, current>>,
           G!LookAgain(current) \/ G!Tick
    PROVE  GClock'
<1>1. gheavy' = gheavy /\ gpc' = gpc /\ gcount' = gcount
  BY DEF G!LookAgain, G!Tick
<1>2. CASE G!LookAgain(current)
  BY <1>1, <1>2 DEF GBooks, GClock, G!LookAgain, G!QuietSeen, G!IsHeavy
<1>3. CASE G!Tick
  BY <1>1, <1>3, PermitsAssumption
     DEF GBooks, GClock, G!Tick, G!Least, G!Parked, G!IsHeavy
<1> QED
  BY <1>2, <1>3

LEMMA GReleaseClock ==
    ASSUME GBooks, GClock, NEW e \in Edge, UNCHANGED <<main, current>>, G!Release(e)
    PROVE  GClock'
<1>1. /\ gpc[e] = "holding" /\ gpc' = [gpc EXCEPT ![e] = "idle"]
      /\ gcount' = IF gcount < gheld[e] THEN 0 ELSE gcount - gheld[e]
      /\ gdry' = 0 /\ UNCHANGED <<gheavy, gprev, gquiet>>
  BY DEF G!Release
<1>2. gcount >= 1 /\ gheld[e] >= 1 /\ gheld[e] \in Nat
  <2>1. GHolding \in SUBSET Edge /\ e \in GHolding
    BY <1>1 DEF GHolding
  <2>2. Cardinality(Slots(GHolding)) >= 1
    BY <2>1, SlotsHold
  <2>3. W[e] \in 1..Jobs
    BY Weights
  <2> QED
    BY <1>1, <2>2, <2>3, JobsAssumption DEF GBooks
<1> QED
  BY <1>1, <1>2 DEF GBooks, GClock, G!IsHeavy

LEMMA PParkClock ==
    ASSUME PBooks, PClock, NEW e \in Edge, P!Park(e), main # "pool",
           main' = "pool", current' = e
    PROVE  PClock'
<1>1. /\ ppc[e] = "idle" /\ ppc' = [ppc EXCEPT ![e] = "parked"]
      /\ pprev' = [pprev EXCEPT ![e] = pcount] /\ pquiet' = [pquiet EXCEPT ![e] = 0]
      /\ pheavy' = IF P!IsHeavy(e) THEN pheavy + 1 ELSE pheavy
      /\ UNCHANGED <<pcount, pdry>>
  BY DEF P!Park
<1>2. P!IsHeavy(current)' <=> P!IsHeavy(e)
  BY DEF P!IsHeavy, P!Weight, P!Least, P!AtLeastOne, Asked
<1> QED
  BY <1>1, <1>2 DEF PBooks, PClock, PC

LEMMA PLeaveClock ==
    ASSUME PBooks, PClock, current \in Edge, main = "pool", main' # "pool",
           P!Admit(current) \/ P!GiveUp(current)
    PROVE  PClock'
<1>1. /\ ppc' \in {[ppc EXCEPT ![current] = "holding"], [ppc EXCEPT ![current] = "stalled"]}
      /\ pprev' = [pprev EXCEPT ![current] = 0]
      /\ pquiet' = [pquiet EXCEPT ![current] = 0]
      /\ pheavy' = IF P!IsHeavy(current) THEN pheavy - 1 ELSE pheavy
      /\ UNCHANGED pdry
  BY DEF P!Admit, P!GiveUp, P!Return, P!Lowered
<1> QED
  BY <1>1 DEF PBooks, PClock, PC

LEMMA PWaitClock ==
    ASSUME PBooks, PClock, current \in Edge, UNCHANGED <<main, current>>,
           P!LookAgain(current) \/ P!Tick
    PROVE  PClock'
<1>1. pheavy' = pheavy /\ ppc' = ppc /\ pcount' = pcount
  BY DEF P!LookAgain, P!Tick
<1>2. CASE P!LookAgain(current)
  BY <1>1, <1>2 DEF PBooks, PClock, P!LookAgain, P!QuietSeen, P!IsHeavy
<1>3. CASE P!Tick
  BY <1>1, <1>3, PermitsAssumption
     DEF PBooks, PClock, P!Tick, P!Least, P!Parked, P!IsHeavy
<1> QED
  BY <1>2, <1>3

LEMMA PReleaseClock ==
    ASSUME PBooks, PClock, NEW e \in Edge, UNCHANGED <<main, current>>, P!Release(e)
    PROVE  PClock'
<1>1. /\ ppc[e] = "holding" /\ ppc' = [ppc EXCEPT ![e] = "idle"]
      /\ pcount' = IF pcount < pheld[e] THEN 0 ELSE pcount - pheld[e]
      /\ pdry' = 0 /\ UNCHANGED <<pheavy, pprev, pquiet>>
  BY DEF P!Release
<1>2. pcount >= 1 /\ pheld[e] >= 1 /\ pheld[e] \in Nat
  <2>1. IsFiniteSet(PHolding) /\ e \in PHolding
    BY <1>1, EdgeAssumption, FS_Subset DEF PBooks, PHolding
  <2>2. pcount # 0
    BY <2>1, FS_EmptySet DEF PBooks
  <2> QED
    BY <1>1, <2>2 DEF PBooks
<1> QED
  BY <1>1, <1>2 DEF PBooks, PClock, P!IsHeavy


(* What happens elsewhere leaves a clock as it is. *)
LEMMA GElsewhere ==
    ASSUME GClock, UNCHANGED gvars,
           \/ UNCHANGED <<main, current>>
           \/ main # "global" /\ main' # "global"
    PROVE  GClock'
  BY DEF GClock, gvars, G!IsHeavy, G!Weight, G!Least, G!AtLeastOne

LEMMA PElsewhere ==
    ASSUME PClock, UNCHANGED pvars,
           \/ UNCHANGED <<main, current>>
           \/ main # "pool" /\ main' # "pool"
    PROVE  PClock'
  BY DEF PClock, pvars, P!IsHeavy, P!Weight, P!Least, P!AtLeastOne

LEMMA ClocksKeep == Clocks /\ [Next]_vars => Clocks'
<1> SUFFICES ASSUME Clocks, [Next]_vars PROVE GClock' /\ PClock'
  BY NextKeeps DEF Clocks
<1> USE DEF Clocks, IInv
<1>1. ASSUME NEW e \in Edge, Pick(e) PROVE GClock' /\ PClock'
  <2>1. /\ main = "pick" /\ main' = "global" /\ current' = e /\ G!Park(e) /\ UNCHANGED pvars
    BY <1>1 DEF Pick
  <2> QED
    BY <2>1, GParkClock, PElsewhere
<1>2. ASSUME NEW e \in Edge, Receive(e) PROVE GClock' /\ PClock'
  <2>1. main = "recv" /\ main' = "pick" /\ UNCHANGED <<gvars, pvars>>
    BY <1>2 DEF Receive
  <2> QED
    BY <2>1, GElsewhere, PElsewhere
<1>3. CASE TakeJobPermits
  <2>1. current \in Edge /\ main = "global" /\ main' # "global" /\ G!Admit(current)
    BY <1>3 DEF Follow, TakeJobPermits, Spawn
  <2>2. GClock'
    BY <2>1, GLeaveClock
  <2>3. CASE Bounded(current)
    <3>1. main' = "pool" /\ current' = current /\ P!Park(current)
      BY <1>3, <2>3 DEF TakeJobPermits
    <3> QED
      BY <2>1, <2>2, <3>1, PParkClock
  <2>4. CASE ~Bounded(current)
    <3>1. main' = "pick" /\ UNCHANGED pvars
      BY <1>3, <2>4 DEF TakeJobPermits, Spawn
    <3> QED
      BY <2>1, <2>2, <3>1, PElsewhere
  <2> QED
    BY <2>3, <2>4
<1>4. CASE TakePoolPermit
  <2>1. /\ current \in Edge /\ main = "pool" /\ main' = "pick" /\ P!Admit(current)
        /\ UNCHANGED gvars
    BY <1>4 DEF Follow, TakePoolPermit, Spawn
  <2> QED
    BY <2>1, PLeaveClock, GElsewhere
<1>5. CASE WaitForPermits \/ TimePasses
  <2>1. /\ current \in Edge /\ UNCHANGED <<main, current>>
        /\ \/ (G!LookAgain(current) \/ G!Tick) /\ UNCHANGED pvars
           \/ (P!LookAgain(current) \/ P!Tick) /\ UNCHANGED gvars
    BY <1>5 DEF Follow, WaitForPermits, TimePasses, dvars
  <2> QED
    BY <2>1, GWaitClock, PWaitClock, GElsewhere, PElsewhere
<1>6. CASE StallOnPermits
  <2>1. /\ current \in Edge /\ main' = "abort"
        /\ \/ main = "global" /\ G!GiveUp(current) /\ UNCHANGED pvars
           \/ main = "pool" /\ P!GiveUp(current) /\ UNCHANGED gvars
    BY <1>6 DEF Follow, StallOnPermits
  <2> QED
    BY <2>1, GLeaveClock, PLeaveClock, GElsewhere, PElsewhere
<1>7. CASE StartWaiting \/ HearNothing
  <2>1. /\ main \in {"pick", "recv"} /\ main' \notin {"global", "pool"}
        /\ UNCHANGED <<gvars, pvars>>
    BY <1>7 DEF StartWaiting, HearNothing
  <2> QED
    BY <2>1, GElsewhere, PElsewhere
<1>8. ASSUME NEW e \in Edge, Thread(e) PROVE GClock' /\ PClock'
  <2>1. /\ UNCHANGED <<main, current>>
        /\ UNCHANGED gvars \/ G!Release(e)
        /\ UNCHANGED pvars \/ P!Release(e)
    BY <1>8 DEF Thread, SendResult, Panic, DropPoolPermit, DropJobPermits, ReturnPoolPermit
  <2> QED
    BY <2>1, GReleaseClock, PReleaseClock, GElsewhere, PElsewhere
<1>9. CASE UNCHANGED vars
  BY <1>9, GElsewhere, PElsewhere DEF vars, dvars
<1> QED
  BY <1>1, <1>2, <1>3, <1>4, <1>5, <1>6, <1>7, <1>8, <1>9 DEF Next, Main, Stopped

-----------------------------------------------------------------------------
(* Who finds no room finds somebody holding, and has found nobody          *)
(* releasing for as long as it bailed out after.                           *)

LEMMA GGivesUp ==
    ASSUME GBooks, GClock, current \in Edge, G!GiveUp(current)
    PROVE  gdry >= Bail /\ G!Holding # {}
<1>1. gpc[current] = "parked" /\ main = "global" /\ G!QuietSeen(current) >= Bail
  BY DEF GClock, G!GiveUp
<1>2. gdry >= Bail
  BY <1>1, PermitsAssumption DEF GBooks, GClock, G!QuietSeen
<1>3. gcount # 0
  <2>1. G!IsHeavy(current) \/ gheavy = 0
    BY <1>1 DEF GClock
  <2>2. PICK avail \in AvailGib, over \in BOOLEAN : ~G!Admissible(current, G!Budget(avail, over))
    BY DEF G!GiveUp
  <2> QED
    BY <2>1, <2>2 DEF G!Admissible
<1>4. G!Holding # {}
  <2>1. Cardinality(Slots(GHolding)) # 0
    BY <1>3 DEF GBooks
  <2>2. Slots(GHolding) # {}
    BY <2>1, FS_EmptySet
  <2>3. GHolding # {}
    BY <2>2 DEF Slots
  <2> QED
    BY <2>3 DEF GHolding, G!Holding
<1> QED
  BY <1>2, <1>4

LEMMA PGivesUp ==
    ASSUME PBooks, PClock, current \in Edge, P!GiveUp(current)
    PROVE  pdry >= Bail /\ P!Holding # {}
<1>1. ppc[current] = "parked" /\ main = "pool" /\ P!QuietSeen(current) >= Bail
  BY DEF PClock, P!GiveUp
<1>2. pdry >= Bail
  BY <1>1, PermitsAssumption DEF PBooks, PClock, P!QuietSeen
<1>3. pcount # 0
  <2>1. P!IsHeavy(current) \/ pheavy = 0
    BY <1>1 DEF PClock
  <2>2. PICK avail \in AvailGib, over \in BOOLEAN : ~P!Admissible(current, P!Budget(avail, over))
    BY DEF P!GiveUp
  <2> QED
    BY <2>1, <2>2 DEF P!Admissible
<1>4. P!Holding # {}
  BY <1>3, FS_EmptySet DEF PBooks, PHolding, P!Holding
<1> QED
  BY <1>2, <1>4

(* Nobody turns "stalled" but by giving up.                                *)
LEMMA StallsAreGivenUp ==
    ASSUME Clocks, [Next]_vars
    PROVE  /\ \A e \in Edge : gpc[e] = "parked" /\ gpc'[e] = "stalled"
                                => e = current /\ G!GiveUp(e)
           /\ \A e \in Edge : ppc[e] = "parked" /\ ppc'[e] = "stalled"
                                => e = current /\ P!GiveUp(e)
<1> USE DEF Clocks, IInv, GBooks, PBooks, PC
<1>1. CASE StallOnPermits
  <2>1. \A e \in Edge : (gpc[e] = "parked" \/ ppc[e] = "parked") => e = current
    BY DEF GClock, PClock
  <2> QED
    BY <1>1, <2>1 DEF StallOnPermits, G!GiveUp, P!GiveUp, gvars, pvars
<1>2. CASE \E e \in Edge : Pick(e)
  BY <1>2 DEF Pick, G!Park, pvars
<1>3. CASE TakeJobPermits \/ TakePoolPermit
  BY <1>3 DEF TakeJobPermits, TakePoolPermit, G!Admit, P!Admit, P!Park, gvars, pvars
<1>4. CASE WaitForPermits \/ TimePasses
  BY <1>4 DEF WaitForPermits, TimePasses, G!LookAgain, P!LookAgain, G!Tick, P!Tick, gvars, pvars
<1>5. CASE StartWaiting \/ HearNothing \/ \E e \in Edge : Receive(e)
  BY <1>5 DEF StartWaiting, HearNothing, Receive, gvars, pvars
<1>6. CASE \E e \in Edge : Thread(e)
  BY <1>6 DEF Thread, SendResult, Panic, DropPoolPermit, DropJobPermits, ReturnPoolPermit,
              G!Release, P!Release, gvars, pvars
<1>7. CASE UNCHANGED vars
  BY <1>7 DEF vars, gvars, pvars
<1> QED
  BY <1>1, <1>2, <1>3, <1>4, <1>5, <1>6, <1>7 DEF Next, Main, Stopped

(* A start gives up only when nothing came back for as long as the stall   *)
(* error says, and while somebody holds permits that might have: the       *)
(* promise of PERMIT_ZERO_DRAIN_BAIL in acquire_weighted.                  *)
THEOREM StallsAreDry == Spec => StartsGiveUpDry
<1>1. Clocks /\ [Next]_vars =>
        /\ \A e \in Edge : gpc[e] = "parked" /\ gpc'[e] = "stalled"
                             => gdry >= Bail /\ G!Holding # {}
        /\ \A e \in Edge : ppc[e] = "parked" /\ ppc'[e] = "stalled"
                             => pdry >= Bail /\ P!Holding # {}
  BY StallsAreGivenUp, GGivesUp, PGivesUp DEF Clocks, IInv
<1>2. Clocks /\ [Next]_vars =>
        /\ [\A t \in Edge : gpc[t] = "parked" /\ gpc'[t] = "stalled"
               => gdry >= Bail /\ G!Holding # {}]_(G!vars)
        /\ [\A t \in Edge : ppc[t] = "parked" /\ ppc'[t] = "stalled"
               => pdry >= Bail /\ P!Holding # {}]_(P!vars)
  BY <1>1
<1> QED
  BY <1>2, InitClocks, ClocksKeep, PTL DEF Spec, StartsGiveUpDry, G!GivesUpOnlyDry, P!GivesUpOnlyDry
===============================================================================
