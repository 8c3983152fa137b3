-------------------------- MODULE StoreClient_proofs --------------------------
(***************************************************************************)
(* Proofs about StoreClient, for any calls, any paths asked for in any     *)
(* order, any daemon and any number of connections: no path is given       *)
(* another's answer, by the memo or by the fan-out.                        *)
(***************************************************************************)
EXTENDS StoreClient, FiniteSetTheorems, SequenceTheorems, WellFoundedInduction, TLAPS

(* A set of naturals that is not empty has a least element. *)
LEMMA LeastExists ==
    ASSUME NEW T \in SUBSET Nat, T # {}
    PROVE  \E x \in T : \A y \in T : x <= y
<1>1. \E x \in T : \A y \in T : ~ (<<y, x>> \in OpToRel(<, Nat))
  BY NatLessThanWellFounded, WFMin
<1>2. PICK x \in T : \A y \in T : ~ (y < x)
  BY <1>1 DEF OpToRel
<1>3. \A y \in T : x <= y
  BY <1>2
<1> QED
  BY <1>3

-----------------------------------------------------------------------------
(* A realisation the client may hand out for p. *)
Right(p, a) == a = Built(p) /\ "ok" \in daemon.answers[p.drv]

Gots == UNION {[S -> {Built(p) : p \in Path}] : S \in SUBSET Nat}

RequestState == [at : {"acquire", "exchange", "verdict", "again", "done"},
                 stalls : Nat, connects : Nat, gated : BOOLEAN, got : Gots]

Types ==
    /\ call \in [Call -> {"idle", "asked", "fan", "ok", "error"}]
    /\ slots \in [Call -> UNION {[S -> {None} \cup {Built(p) : p \in Path}] : S \in SUBSET Nat}]
    /\ left \in [Call -> SUBSET Nat]
    /\ DOMAIN request \subseteq Request
    /\ request \in [DOMAIN request -> RequestState]

(* The slots of a call that has been looked up: hits, and misses. *)
SlotsSound ==
    \A c \in Call : call[c] # "idle" =>
        /\ DOMAIN slots[c] = DOMAIN Asks[c]
        /\ \A i \in DOMAIN Asks[c] :
              slots[c][i] # None => Right(Asks[c][i], slots[c][i])

OkSound ==
    \A c \in Call : call[c] = "ok" =>
        \A i \in DOMAIN Asks[c] : Right(Asks[c][i], slots[c][i])

MemoSound == \A p \in DOMAIN realised : Right(p, realised[p])

(* A request is of a call that fanned out; one that has its answers has    *)
(* them for the misses of one derivation.                                   *)
RequestSound(r) ==
    /\ call[r[1]] \in {"fan", "ok", "error"}
    /\ request[r].at # "done" => request[r].got = Nothing
    /\ call[r[1]] = "fan" =>
          /\ r[2] \in Misses(r[1])
          /\ request[r].got # Nothing =>
                /\ DOMAIN request[r].got = Group(r[1], r[2])
                /\ \A j \in Group(r[1], r[2]) : Right(Asks[r[1]][j], request[r].got[j])

(* No group is forgotten but after a failure. *)
FanOut(c) ==
    /\ left[c] \subseteq Firsts(c)
    /\ \/ /\ left[c] = {}
          /\ \E r \in DOMAIN request :
                r[1] = c /\ request[r].at = "done" /\ request[r].got = Nothing
       \/ \A i \in Firsts(c) : i \in left[c] \/ <<c, i>> \in DOMAIN request

CInv ==
    /\ Types
    /\ SlotsSound
    /\ OkSound
    /\ MemoSound
    /\ \A r \in DOMAIN request : RequestSound(r)
    /\ \A c \in Call : call[c] = "fan" => FanOut(c)

-----------------------------------------------------------------------------
(* A realisation is none of a missing one. *)
LEMMA BuiltIsNotNone == \A p : Built(p) # None
  BY DEF Built, None

LEMMA AsksTyped ==
    ASSUME NEW c \in Call
    PROVE  /\ DOMAIN Asks[c] \subseteq Nat
           /\ \A i \in DOMAIN Asks[c] : Asks[c][i] \in Path
<1>1. Asks[c] \in Seq(Path)
  BY ClientAssumption
<1> QED
  BY <1>1

(* Every miss is in the group of some first slot: the first of its         *)
(* derivation.                                                              *)
LEMMA FirstExists ==
    ASSUME NEW c \in Call, NEW j \in Misses(c)
    PROVE  \E i \in Firsts(c) : j \in Group(c, i)
<1>1. Group(c, j) \in SUBSET Nat /\ j \in Group(c, j)
  BY AsksTyped DEF Group, Misses
<1>2. PICK i \in Group(c, j) : \A k \in Group(c, j) : i <= k
  BY <1>1, LeastExists
<1>3. \A k \in Misses(c) : k < i => Asks[c][k].drv # Asks[c][i].drv
  <2> SUFFICES ASSUME NEW k \in Misses(c), k < i, Asks[c][k].drv = Asks[c][i].drv
               PROVE  FALSE
    OBVIOUS
  <2>1. k \in Group(c, j)
    BY <1>2 DEF Group
  <2>2. k \in Nat /\ i \in Nat /\ i <= k
    BY <1>1, <1>2, <2>1
  <2> QED
    BY <2>2
<1> QED
  BY <1>2, <1>3 DEF Firsts, Group

-----------------------------------------------------------------------------
(* What a request does with the rest as it is keeps the invariant: it is   *)
(* at work without an answer, or done with the right ones, or done without *)
(* and no further group is taken.                                           *)
LEMMA RequestMoves ==
    ASSUME CInv, NEW r \in DOMAIN request, NEW q \in RequestState,
           request[r].at # "done",
           UNCHANGED <<daemon, call, slots, realised>>,
           request' = [request EXCEPT ![r] = q],
           IF q.at = "done" /\ q.got = Nothing THEN left' = [left EXCEPT ![r[1]] = {}]
                                               ELSE left' = left,
           q.at # "done" => q.got = Nothing,
           q.got # Nothing =>
              /\ DOMAIN q.got = Group(r[1], r[2])
              /\ \A j \in Group(r[1], r[2]) : Right(Asks[r[1]][j], q.got[j])
    PROVE  CInv'
<1>1. /\ DOMAIN request' = DOMAIN request
      /\ request'[r] = q
      /\ \A x \in DOMAIN request \ {r} : request'[x] = request[x]
  BY DEF CInv, Types
<1>2. \A c : Misses(c)' = Misses(c) /\ Firsts(c)' = Firsts(c)
  BY DEF Misses, Firsts
<1>3. \A c, i : Group(c, i)' = Group(c, i)
  BY <1>2 DEF Group
<1>4. \A p, a : Right(p, a)' <=> Right(p, a)
  BY DEF Right
<1>5. Types'
  <2>1. r[1] \in Call
    BY DEF CInv, Types, Request
  <2>2. left' \in [Call -> SUBSET Nat]
    BY <2>1 DEF CInv, Types
  <2> QED
    BY <1>1, <2>2 DEF CInv, Types
<1>6. SlotsSound' /\ OkSound' /\ MemoSound'
  BY <1>4 DEF CInv, SlotsSound, OkSound, MemoSound
<1>7. ASSUME NEW x \in DOMAIN request PROVE RequestSound(x)'
  <2>1. RequestSound(x)
    BY DEF CInv
  <2>2. CASE x = r
    BY <1>1, <1>2, <1>3, <1>4, <2>1, <2>2 DEF RequestSound
  <2>3. CASE x # r
    BY <1>1, <1>2, <1>3, <1>4, <2>1, <2>3 DEF RequestSound
  <2> QED
    BY <2>2, <2>3
<1>8. ASSUME NEW c \in Call, call[c] = "fan" PROVE FanOut(c)'
  <2>1. FanOut(c)
    BY <1>8 DEF CInv
  <2>2. r[1] \in Call /\ left \in [Call -> SUBSET Nat]
    BY DEF CInv, Types, Request
  <2>3. CASE q.at = "done" /\ q.got = Nothing /\ r[1] = c
    BY <1>1, <1>2, <2>1, <2>2, <2>3 DEF FanOut
  <2>4. CASE ~(q.at = "done" /\ q.got = Nothing /\ r[1] = c)
    <3>1. left'[c] = left[c]
      BY <2>2, <2>4
    <3>2. \A x \in DOMAIN request : request[x].at = "done" =>
              request'[x].at = "done" /\ request'[x].got = request[x].got
      BY <1>1
    <3> QED
      BY <1>1, <1>2, <2>1, <3>1, <3>2 DEF FanOut
  <2> QED
    BY <2>3, <2>4
<1> QED
  BY <1>1, <1>5, <1>6, <1>7, <1>8 DEF CInv

(* A stall ends an attempt, or the request with no answer. *)
LEMMA Stalls ==
    ASSUME CInv, NEW r \in DOMAIN request, NEW limit \in Nat,
           request[r].at \in {"acquire", "exchange"},
           Stall(r, limit), UNCHANGED <<daemon, call, slots, realised>>
    PROVE  CInv'
<1> DEFINE q  == [request[r] EXCEPT !.stalls = @ + 1, !.gated = FALSE]
           qd == [q EXCEPT !.at = "done"]
           qa == [q EXCEPT !.at = "again"]
<1>1. request[r] \in RequestState /\ request[r].got = Nothing
  BY DEF CInv, Types, RequestSound
<1>2. /\ qd \in RequestState /\ qd.at = "done" /\ qd.got = Nothing
      /\ qa \in RequestState /\ qa.at = "again" /\ qa.got = Nothing
  <2>1. request[r].stalls \in Nat /\ request[r].stalls + 1 \in Nat
    BY <1>1 DEF RequestState
  <2>2. q \in RequestState /\ q.got = Nothing
    BY <1>1, <2>1 DEF RequestState
  <2> HIDE DEF q
  <2> QED
    BY <2>2 DEF RequestState
<1>3. CASE q.stalls > limit
  <2>1. request' = [request EXCEPT ![r] = qd] /\ left' = [left EXCEPT ![r[1]] = {}]
    BY <1>2, <1>3 DEF Stall, EndGroup
  <2> HIDE DEF qd, qa
  <2> QED
    BY <1>2, <2>1, RequestMoves
<1>4. CASE ~(q.stalls > limit)
  <2>1. request' = [request EXCEPT ![r] = qa] /\ left' = left
    BY <1>4 DEF Stall
  <2> HIDE DEF qd, qa
  <2> QED
    BY <1>2, <2>1, RequestMoves
<1> QED
  BY <1>3, <1>4

-----------------------------------------------------------------------------
(* The steps of a request.                                                  *)

(* An attempt that goes on, or back to the gate. *)
LEMMA AttemptMoves ==
    ASSUME CInv, NEW r \in DOMAIN request, Acquire(r) \/ Gate(r)
    PROVE  CInv'
<1> DEFINE qx == [request[r] EXCEPT !.at = "exchange"]
           qg == [request[r] EXCEPT !.at = "acquire", !.gated = TRUE]
<1>1. request[r] \in RequestState /\ request[r].at # "done" /\ request[r].got = Nothing
  BY DEF CInv, Types, RequestSound, Acquire, Gate
<1>2. CASE Acquire(r)
  <2>1. qx \in RequestState /\ qx.at = "exchange" /\ qx.got = Nothing
    BY <1>1 DEF RequestState
  <2>2. /\ request' = [request EXCEPT ![r] = qx] /\ left' = left
        /\ UNCHANGED <<daemon, call, slots, realised>>
    BY <1>2 DEF Acquire
  <2> HIDE DEF qx
  <2> QED
    BY <1>1, <2>1, <2>2, RequestMoves
<1>3. CASE Gate(r)
  <2>1. qg \in RequestState /\ qg.at = "acquire" /\ qg.got = Nothing
    BY <1>1 DEF RequestState
  <2>2. /\ request' = [request EXCEPT ![r] = qg] /\ left' = left
        /\ UNCHANGED <<daemon, call, slots, realised>>
    BY <1>3 DEF Gate
  <2> HIDE DEF qg
  <2> QED
    BY <1>1, <2>1, <2>2, RequestMoves
<1> QED
  BY <1>2, <1>3

LEMMA ConnectFailsKeeps ==
    ASSUME CInv, NEW r \in DOMAIN request, ConnectFails(r)
    PROVE  CInv'
<1> DEFINE q  == [request[r] EXCEPT !.connects = @ + 1, !.gated = FALSE]
           qd == [q EXCEPT !.at = "done"]
           qa == [q EXCEPT !.at = "again"]
<1>1. request[r] \in RequestState /\ request[r].at # "done" /\ request[r].got = Nothing
  BY DEF CInv, Types, RequestSound, ConnectFails
<1>2. /\ qd \in RequestState /\ qd.at = "done" /\ qd.got = Nothing
      /\ qa \in RequestState /\ qa.at = "again" /\ qa.got = Nothing
  <2>1. request[r].connects \in Nat /\ request[r].connects + 1 \in Nat
    BY <1>1 DEF RequestState
  <2>2. q \in RequestState /\ q.got = Nothing
    BY <1>1, <2>1 DEF RequestState
  <2> HIDE DEF q
  <2> QED
    BY <2>2 DEF RequestState
<1>3. UNCHANGED <<daemon, call, slots, realised>>
  BY DEF ConnectFails
<1>4. CASE q.connects > ConnectRetries
  <2>1. request' = [request EXCEPT ![r] = qd] /\ left' = [left EXCEPT ![r[1]] = {}]
    BY <1>2, <1>4 DEF ConnectFails, EndGroup
  <2> HIDE DEF qd, qa
  <2> QED
    BY <1>1, <1>2, <1>3, <2>1, RequestMoves
<1>5. CASE ~(q.connects > ConnectRetries)
  <2>1. request' = [request EXCEPT ![r] = qa] /\ left' = left
    BY <1>5 DEF ConnectFails
  <2> HIDE DEF qd, qa
  <2> QED
    BY <1>1, <1>2, <1>3, <2>1, RequestMoves
<1> QED
  BY <1>4, <1>5

LEMMA StallKeeps ==
    ASSUME CInv, NEW r \in DOMAIN request,
           PoolWait(r) \/ Timeout(r) \/ ConnectionError(r)
    PROVE  CInv'
<1>1. MaxStalls \in Nat /\ Limit(r) \in Nat
  BY ClientAssumption DEF Limit
<1>2. /\ request[r].at \in {"acquire", "exchange"}
      /\ UNCHANGED <<daemon, call, slots, realised>>
      /\ Stall(r, Limit(r)) \/ Stall(r, MaxStalls)
  BY DEF PoolWait, Timeout, ConnectionError
<1> QED
  BY <1>1, <1>2, Stalls

(* The answers of a group are its own: its slots ask one derivation, so    *)
(* two of them that ask for one name ask for one output.                    *)
LEMMA SucceedKeeps ==
    ASSUME CInv, NEW r \in DOMAIN request, Succeed(r)
    PROVE  CInv'
<1> DEFINE c == r[1]
           slotsOf == Group(r[1], r[2])
           asked == {Asks[r[1]][j] : j \in slotsOf}
           got == [j \in slotsOf |-> Pool(asked, Asks[r[1]][j].out)]
           q == [request[r] EXCEPT !.at = "done", !.gated = FALSE, !.got = got]
<1>1. /\ request[r] \in RequestState /\ request[r].at = "exchange"
      /\ request[r].got = Nothing /\ c \in Call
  BY DEF CInv, Types, RequestSound, Succeed, Request
<1>2. slotsOf \subseteq DOMAIN Asks[c] /\ slotsOf \subseteq Nat
  BY <1>1, AsksTyped DEF Group, Misses
<1>3. ASSUME NEW j \in slotsOf
      PROVE  got[j] = Built(Asks[c][j]) /\ Asks[c][j] \in Path
  <2> DEFINE named == {p \in asked : p.out = Asks[c][j].out}
  <2>1. Asks[c][j] \in named
    OBVIOUS
  <2>2. \A p \in named : p.drv = Asks[c][j].drv /\ p.out = Asks[c][j].out
    BY DEF Group
  <2>3. (CHOOSE p \in named : TRUE) \in named
    BY <2>1
  <2>4. \A p \in named : Built(p) = Built(Asks[c][j])
    BY <2>2 DEF Built
  <2>5. got[j] = Built(CHOOSE p \in named : TRUE)
    BY DEF Pool
  <2>6. Asks[c][j] \in Path
    BY <1>1, <1>2, AsksTyped
  <2> QED
    BY <2>3, <2>4, <2>5, <2>6
<1>4. got \in Gots
  <2>1. got \in [slotsOf -> {Built(p) : p \in Path}]
    BY <1>3
  <2> QED
    BY <1>2, <2>1 DEF Gots
<1>5. \A j \in slotsOf : "ok" \in daemon.answers[Asks[c][j].drv]
  BY DEF Succeed
<1>6. DOMAIN got = slotsOf
  OBVIOUS
<1>7. /\ request' = [request EXCEPT ![r] = q]
      /\ IF q.got = Nothing THEN left' = [left EXCEPT ![c] = {}] ELSE left' = left
      /\ UNCHANGED <<daemon, call, slots, realised>>
  BY DEF Succeed, EndGroup
<1> HIDE DEF got, slotsOf
<1>8. q \in RequestState /\ q.at = "done" /\ q.got = got
  BY <1>1, <1>4 DEF RequestState
<1>9. \A j \in slotsOf : Right(Asks[c][j], got[j])
  BY <1>3, <1>5 DEF Right
<1> HIDE DEF q
<1> QED
  BY <1>1, <1>6, <1>7, <1>8, <1>9, RequestMoves DEF slotsOf

(* A refusal ends the request, a verdict is noted first. *)
LEMMA FailureKeeps ==
    ASSUME CInv, NEW r \in DOMAIN request, BuildFails(r) \/ NoteFailure(r)
    PROVE  CInv'
<1> DEFINE qv == [request[r] EXCEPT !.at = "verdict", !.gated = FALSE]
           qd == [request[r] EXCEPT !.at = "done", !.gated = FALSE]
           qn == [request[r] EXCEPT !.at = "done"]
<1>1. request[r] \in RequestState /\ request[r].at # "done" /\ request[r].got = Nothing
  BY DEF CInv, Types, RequestSound, BuildFails, NoteFailure
<1>2. /\ qv \in RequestState /\ qv.at = "verdict" /\ qv.got = Nothing
      /\ qd \in RequestState /\ qd.at = "done" /\ qd.got = Nothing
      /\ qn \in RequestState /\ qn.at = "done" /\ qn.got = Nothing
  BY <1>1 DEF RequestState
<1>3. UNCHANGED <<daemon, call, slots, realised>>
  BY DEF BuildFails, NoteFailure
<1>4. \/ request' = [request EXCEPT ![r] = qv] /\ left' = left
      \/ request' = [request EXCEPT ![r] = qd] /\ left' = [left EXCEPT ![r[1]] = {}]
      \/ request' = [request EXCEPT ![r] = qn] /\ left' = [left EXCEPT ![r[1]] = {}]
  BY <1>2 DEF BuildFails, NoteFailure, EndGroup
<1> HIDE DEF qv, qd, qn
<1> QED
  BY <1>1, <1>2, <1>3, <1>4, RequestMoves

-----------------------------------------------------------------------------
(* The steps of a call.                                                     *)

LEMMA LookupKeeps ==
    ASSUME CInv, NEW c \in Call, Lookup(c)
    PROVE  CInv'
<1> DEFINE found == [i \in DOMAIN Asks[c] |->
               IF Asks[c][i] \in DOMAIN realised THEN realised[Asks[c][i]] ELSE None]
<1>1. /\ call[c] = "idle" /\ call' = [call EXCEPT ![c] = "asked"]
      /\ slots' = [slots EXCEPT ![c] = found]
      /\ UNCHANGED <<daemon, left, request, realised>>
  BY DEF Lookup
<1>2. ASSUME NEW i \in DOMAIN Asks[c]
      PROVE  /\ found[i] # None => Right(Asks[c][i], found[i])
             /\ found[i] \in {None} \cup {Built(p) : p \in Path}
  <2>1. Asks[c][i] \in Path
    BY AsksTyped
  <2>2. Asks[c][i] \in DOMAIN realised => Right(Asks[c][i], realised[Asks[c][i]])
    BY DEF CInv, MemoSound
  <2> QED
    BY <2>1, <2>2 DEF Right
<1>3. DOMAIN found = DOMAIN Asks[c] /\ DOMAIN found \in SUBSET Nat
  BY AsksTyped
<1>4. found \in [DOMAIN found -> {None} \cup {Built(p) : p \in Path}]
  BY <1>2
<1> HIDE DEF found
<1>5. /\ call'[c] = "asked" /\ slots'[c] = found
      /\ \A d \in Call \ {c} : call'[d] = call[d] /\ slots'[d] = slots[d]
  BY <1>1 DEF CInv, Types
<1>6. Types'
  BY <1>1, <1>3, <1>4 DEF CInv, Types
<1>7. \A p, a : Right(p, a)' <=> Right(p, a)
  BY <1>1 DEF Right
<1>8. SlotsSound' /\ OkSound' /\ MemoSound'
  BY <1>1, <1>2, <1>3, <1>5, <1>7 DEF CInv, SlotsSound, OkSound, MemoSound
<1>9. \A d \in Call \ {c} : Misses(d)' = Misses(d)
  BY <1>5 DEF Misses
<1>10. ASSUME NEW r \in DOMAIN request PROVE RequestSound(r)'
  <2>1. RequestSound(r) /\ r[1] \in Call
    BY DEF CInv, Types, Request
  <2>2. r[1] # c
    BY <1>1, <2>1 DEF RequestSound
  <2>3. Group(r[1], r[2])' = Group(r[1], r[2])
    BY <1>9, <2>1, <2>2 DEF Group
  <2> QED
    BY <1>1, <1>5, <1>7, <1>9, <2>1, <2>2, <2>3 DEF RequestSound
<1>11. ASSUME NEW d \in Call, call'[d] = "fan" PROVE FanOut(d)'
  <2>1. d # c /\ FanOut(d)
    BY <1>5, <1>11 DEF CInv
  <2>2. Firsts(d)' = Firsts(d)
    BY <1>9, <2>1 DEF Firsts
  <2> QED
    BY <1>1, <2>1, <2>2 DEF FanOut
<1> QED
  BY <1>1, <1>6, <1>8, <1>10, <1>11 DEF CInv

LEMMA DecideKeeps ==
    ASSUME CInv, NEW c \in Call, Decide(c)
    PROVE  CInv'
<1>1. /\ call[c] = "asked"
      /\ left' = [left EXCEPT ![c] = Firsts(c)]
      /\ UNCHANGED <<daemon, slots, request, realised>>
  BY DEF Decide
<1>2. PICK v \in {"ok", "error", "fan"} :
          call' = [call EXCEPT ![c] = v] /\ (v = "ok" => Misses(c) = {})
  BY DEF Decide
<1>3. /\ call'[c] = v /\ left'[c] = Firsts(c)
      /\ \A d \in Call \ {c} : call'[d] = call[d] /\ left'[d] = left[d]
  BY <1>1, <1>2 DEF CInv, Types
<1>4. Types'
  <2>1. Firsts(c) \subseteq Nat
    BY AsksTyped DEF Firsts, Misses
  <2> QED
    BY <1>1, <1>2, <2>1 DEF CInv, Types
<1>5. \A p, a : Right(p, a)' <=> Right(p, a)
  BY <1>1 DEF Right
<1>6. SlotsSound' /\ OkSound' /\ MemoSound'
  BY <1>1, <1>2, <1>3, <1>5 DEF CInv, SlotsSound, OkSound, MemoSound, Misses
<1>7. \A d : Misses(d)' = Misses(d)
  BY <1>1 DEF Misses
<1>8. ASSUME NEW r \in DOMAIN request PROVE RequestSound(r)'
  <2>1. RequestSound(r) /\ r[1] \in Call
    BY DEF CInv, Types, Request
  <2>2. r[1] # c
    BY <1>1, <2>1 DEF RequestSound
  <2> QED
    BY <1>1, <1>3, <1>5, <1>7, <2>1, <2>2 DEF RequestSound, Group
<1>9. ASSUME NEW d \in Call, call'[d] = "fan" PROVE FanOut(d)'
  <2>1. Firsts(d)' = Firsts(d)
    BY <1>7 DEF Firsts
  <2>2. CASE d = c
    BY <1>3, <2>1, <2>2 DEF FanOut
  <2>3. CASE d # c
    BY <1>1, <1>3, <1>9, <2>1, <2>3 DEF FanOut, CInv
  <2> QED
    BY <2>2, <2>3
<1> QED
  BY <1>1, <1>4, <1>6, <1>8, <1>9 DEF CInv

(* A group that is taken is no longer left, and has its request. *)
LEMMA TakeGroupKeeps ==
    ASSUME CInv, NEW c \in Call, NEW i \in left[c], TakeGroup(c, i)
    PROVE  CInv'
<1> DEFINE r == <<c, i>>
<1>1. /\ call[c] = "fan" /\ FanOut(c) /\ i \in Firsts(c)
  BY DEF CInv, TakeGroup, FanOut
<1>2. /\ left' = [left EXCEPT ![c] = @ \ {i}]
      /\ UNCHANGED <<daemon, call, slots, realised>>
  BY DEF TakeGroup
<1>3. /\ DOMAIN request' = DOMAIN request \cup {r}
      /\ request'[r] = NewRequest
      /\ \A x \in DOMAIN request \ {r} : request'[x] = request[x]
      /\ request' = [x \in DOMAIN request' |-> request'[x]]
  BY DEF TakeGroup, Over
<1>4. i \in Misses(c) /\ r \in Request /\ r[1] = c /\ r[2] = i
  BY <1>1 DEF Firsts, Misses, Request
<1>5. NewRequest \in RequestState /\ NewRequest.at = "acquire" /\ NewRequest.got = Nothing
  <2>1. Nothing \in [{} -> {Built(p) : p \in Path}] /\ {} \in SUBSET Nat
    BY DEF Nothing
  <2>2. Nothing \in Gots
    BY <2>1 DEF Gots
  <2> QED
    BY <2>2 DEF NewRequest, RequestState
<1>6. \A p, a : Right(p, a)' <=> Right(p, a)
  BY <1>2 DEF Right
<1>7. \A d : Misses(d)' = Misses(d) /\ Firsts(d)' = Firsts(d)
  BY <1>2 DEF Misses, Firsts
<1>8. Types'
  <2>1. left' \in [Call -> SUBSET Nat]
    BY <1>2 DEF CInv, Types
  <2>2. DOMAIN request' \subseteq Request
    BY <1>3, <1>4 DEF CInv, Types
  <2>3. \A x \in DOMAIN request' : request'[x] \in RequestState
    BY <1>3, <1>5 DEF CInv, Types
  <2> QED
    BY <1>2, <1>3, <2>1, <2>2, <2>3 DEF CInv, Types
<1>9. SlotsSound' /\ OkSound' /\ MemoSound'
  BY <1>2, <1>6 DEF CInv, SlotsSound, OkSound, MemoSound
<1>10. ASSUME NEW x \in DOMAIN request' PROVE RequestSound(x)'
  <2>1. CASE x = r
    BY <1>1, <1>2, <1>3, <1>4, <1>5, <1>7, <2>1 DEF RequestSound
  <2>2. CASE x # r
    <3>1. RequestSound(x) /\ request'[x] = request[x]
      BY <1>3, <2>2 DEF CInv
    <3> QED
      BY <1>2, <1>6, <1>7, <3>1 DEF RequestSound, Group
  <2> QED
    BY <2>1, <2>2
<1>11. ASSUME NEW d \in Call, call'[d] = "fan" PROVE FanOut(d)'
  <2>1. FanOut(d)
    BY <1>2, <1>11 DEF CInv
  <2>2. CASE d = c
    <3>1. \A k \in Firsts(c) : k \in left[c] \/ <<c, k>> \in DOMAIN request
      BY <1>1 DEF FanOut
    <3>2. left'[c] = left[c] \ {i}
      BY <1>2 DEF CInv, Types
    <3> QED
      BY <1>3, <1>7, <2>1, <2>2, <3>1, <3>2 DEF FanOut
  <2>3. CASE d # c
    <3>1. left'[d] = left[d]
      BY <1>2, <2>3 DEF CInv, Types
    <3>2. \A x \in DOMAIN request : x[1] = d => x # r /\ request'[x] = request[x]
      BY <1>3, <2>3
    <3> QED
      BY <1>3, <1>7, <2>1, <3>1, <3>2 DEF FanOut
  <2> QED
    BY <2>2, <2>3
<1> QED
  BY <1>8, <1>9, <1>10, <1>11 DEF CInv

(* A call that returns without a failure has an answer for every miss:     *)
(* its groups are all done, and each miss is in one of them.               *)
LEMMA AnsweredRight ==
    ASSUME CInv, NEW c \in Call, call[c] = "fan", left[c] = {}, Busy(c) = {},
           ~Failing(c), NEW j \in DOMAIN Asks[c]
    PROVE  Right(Asks[c][j], Answered(c)[j])
<1>1. CASE slots[c][j] # None
  BY <1>1 DEF CInv, SlotsSound, Answered
<1>2. CASE slots[c][j] = None
  <2>1. j \in Misses(c)
    BY <1>2 DEF Misses
  <2> DEFINE i == FirstOf(c, j)
  <2>2. i \in Firsts(c) /\ j \in Group(c, i)
    BY <2>1, FirstExists DEF FirstOf
  <2> HIDE DEF i
  <2>3. FanOut(c)
    BY DEF CInv
  <2>4. ASSUME NEW r \in DOMAIN request, r[1] = c, request[r].got = Nothing
        PROVE  FALSE
    <3>1. r \in Request
      BY DEF CInv, Types
    <3>2. r = <<c, r[2]>> /\ r[2] \in DOMAIN Asks[c]
      BY <3>1, <2>4 DEF Request
    <3> QED
      BY <3>2, <2>4 DEF Failing
  <2>5. <<c, i>> \in DOMAIN request
    BY <2>2, <2>3, <2>4 DEF FanOut
  <2>6. RequestSound(<<c, i>>) /\ request[<<c, i>>].got # Nothing
    BY <2>4, <2>5 DEF CInv
  <2>7. Right(Asks[c][j], request[<<c, i>>].got[j])
    BY <2>2, <2>6 DEF RequestSound
  <2> QED
    BY <1>2, <2>7 DEF Answered, i
<1> QED
  BY <1>1, <1>2

LEMMA ReturnKeeps ==
    ASSUME CInv, NEW c \in Call, Return(c)
    PROVE  CInv'
<1>1. /\ call[c] = "fan" /\ left[c] = {} /\ Busy(c) = {}
      /\ UNCHANGED <<daemon, left, request>>
  BY DEF Return
<1>2. PICK v \in {"ok", "error"} : call' = [call EXCEPT ![c] = v]
  BY DEF Return
<1>3. call'[c] = v /\ \A d \in Call \ {c} : call'[d] = call[d]
  BY <1>2 DEF CInv, Types
<1>4. \A p, a : Right(p, a)' <=> Right(p, a)
  BY <1>1 DEF Right
<1>5. /\ slots' \in [Call -> UNION {[S -> {None} \cup {Built(p) : p \in Path}] : S \in SUBSET Nat}]
      /\ SlotsSound' /\ OkSound' /\ MemoSound'
      /\ \A d \in Call \ {c} : slots'[d] = slots[d]
  <2>1. CASE UNCHANGED <<slots, realised>> /\ call' = [call EXCEPT ![c] = "error"]
    BY <1>1, <1>4, <2>1 DEF CInv, Types, SlotsSound, OkSound, MemoSound
  <2>2. CASE ~Failing(c)
    <3> DEFINE out == Answered(c)
               known == [p \in ToSet(Asks[c]) |->
                            out[CHOOSE i \in DOMAIN Asks[c] : Asks[c][i] = p]]
    <3>1. /\ slots' = [slots EXCEPT ![c] = out] /\ realised' = Over(known, realised)
          /\ call'[c] = "ok"
      BY <2>2, <1>3 DEF Return, CInv, Types
    <3>2. DOMAIN out = DOMAIN Asks[c] /\ DOMAIN out \in SUBSET Nat
      BY AsksTyped DEF Answered
    <3>3. \A j \in DOMAIN Asks[c] : Right(Asks[c][j], out[j]) /\ Asks[c][j] \in Path
      BY <1>1, <2>2, AnsweredRight, AsksTyped
    <3>4. out \in [DOMAIN out -> {None} \cup {Built(p) : p \in Path}]
      <4>1. \A j \in DOMAIN out : out[j] \in {None} \cup {Built(p) : p \in Path}
        BY <3>2, <3>3 DEF Right
      <4>2. out = [j \in DOMAIN out |-> out[j]]
        BY DEF Answered
      <4> HIDE DEF out
      <4> QED
        BY <4>1, <4>2
    <3>5. \A p \in ToSet(Asks[c]) : Right(p, known[p])
      <4> SUFFICES ASSUME NEW p \in ToSet(Asks[c]) PROVE Right(p, known[p])
        OBVIOUS
      <4>1. \E i \in DOMAIN Asks[c] : Asks[c][i] = p
        BY DEF ToSet
      <4> HIDE DEF out
      <4> QED
        BY <4>1, <3>3
    <3>6. DOMAIN known = ToSet(Asks[c])
      OBVIOUS
    <3> HIDE DEF out, known
    <3>7. slots'[c] = out /\ \A d \in Call \ {c} : slots'[d] = slots[d]
      BY <3>1 DEF CInv, Types
    <3>8. slots' \in [Call -> UNION {[S -> {None} \cup {Built(p) : p \in Path}] : S \in SUBSET Nat}]
      BY <3>1, <3>2, <3>4 DEF CInv, Types
    <3>9. SlotsSound' /\ OkSound'
      BY <1>3, <1>4, <3>2, <3>3, <3>7 DEF CInv, SlotsSound, OkSound
    <3>10. MemoSound'
      BY <1>4, <3>1, <3>5, <3>6 DEF CInv, MemoSound, Over
    <3> QED
      BY <3>7, <3>8, <3>9, <3>10
  <2> QED
    BY <2>1, <2>2 DEF Return
<1>6. Types'
  BY <1>1, <1>2, <1>5 DEF CInv, Types
<1>7. \A d \in Call \ {c} : Misses(d)' = Misses(d)
  BY <1>5 DEF Misses
<1>8. ASSUME NEW r \in DOMAIN request PROVE RequestSound(r)'
  <2>1. RequestSound(r) /\ r[1] \in Call
    BY DEF CInv, Types, Request
  <2>2. CASE r[1] = c
    BY <1>1, <1>3, <2>1, <2>2 DEF RequestSound
  <2>3. CASE r[1] # c
    <3>1. Group(r[1], r[2])' = Group(r[1], r[2])
      BY <1>7, <2>1, <2>3 DEF Group
    <3> QED
      BY <1>1, <1>3, <1>4, <1>7, <2>1, <2>3, <3>1 DEF RequestSound
  <2> QED
    BY <2>2, <2>3
<1>9. ASSUME NEW d \in Call, call'[d] = "fan" PROVE FanOut(d)'
  <2>1. d # c /\ FanOut(d)
    BY <1>3, <1>9 DEF CInv
  <2>2. Firsts(d)' = Firsts(d)
    BY <1>7, <2>1 DEF Firsts
  <2> QED
    BY <1>1, <2>1, <2>2 DEF FanOut
<1> QED
  BY <1>1, <1>5, <1>6, <1>8, <1>9 DEF CInv

-----------------------------------------------------------------------------
LEMMA UntouchedKeeps ==
    ASSUME CInv, UNCHANGED <<daemon, call, slots, left, request, realised>>
    PROVE  CInv'
<1>1. \A p, a : Right(p, a)' <=> Right(p, a)
  BY DEF Right
<1>2. \A c : Misses(c)' = Misses(c) /\ Firsts(c)' = Firsts(c)
  BY DEF Misses, Firsts
<1>3. Types' /\ SlotsSound' /\ OkSound' /\ MemoSound'
  BY <1>1 DEF CInv, Types, SlotsSound, OkSound, MemoSound
<1>4. \A r \in DOMAIN request : RequestSound(r)'
  BY <1>1, <1>2 DEF CInv, RequestSound, Group
<1>5. \A c \in Call : call'[c] = "fan" => FanOut(c)'
  BY <1>2 DEF CInv, FanOut
<1> QED
  BY <1>3, <1>4, <1>5 DEF CInv

LEMMA InitSound == Init => CInv
<1> SUFFICES ASSUME Init PROVE CInv
  OBVIOUS
<1>1. \A c \in Call : call[c] = "idle"
  BY DEF Init
<1>2. DOMAIN request = {} /\ DOMAIN realised = {}
  BY DEF Init, Nothing
<1>3. Types
  <2>1. slots \in [Call -> UNION {[S -> {None} \cup {Built(p) : p \in Path}] : S \in SUBSET Nat}]
    <3>1. <<>> \in [{} -> {None} \cup {Built(p) : p \in Path}] /\ {} \in SUBSET Nat
      OBVIOUS
    <3> QED
      BY <3>1 DEF Init
  <2>2. request \in [DOMAIN request -> RequestState]
    BY <1>2 DEF Init, Nothing
  <2> QED
    BY <1>2, <2>1, <2>2 DEF Types, Init
<1> QED
  BY <1>1, <1>2, <1>3 DEF CInv, SlotsSound, OkSound, MemoSound

LEMMA StepSound == CInv /\ [Next]_vars => CInv'
<1> SUFFICES ASSUME CInv, [Next]_vars PROVE CInv'
  OBVIOUS
<1>1. ASSUME NEW c \in Call, CallStep(c) PROVE CInv'
  BY <1>1, LookupKeeps, DecideKeeps, ReturnKeeps, TakeGroupKeeps DEF CallStep
<1>2. ASSUME NEW r \in DOMAIN request, Attempt(r) \/ Gate(r) \/ NoteFailure(r)
      PROVE  CInv'
  BY <1>2, AttemptMoves, ConnectFailsKeeps, StallKeeps, SucceedKeeps, FailureKeeps
     DEF Attempt
<1>3. ASSUME NEW u \in Uploading, UploadStep(u) PROVE CInv'
  BY <1>3, UntouchedKeeps
     DEF UploadStep, UploadAcquires, UploadConnectFails, UploadStalls, UploadEnds
<1>4. CASE Reap
  BY <1>4, UntouchedKeeps DEF Reap
<1>5. CASE UNCHANGED vars
  BY <1>5, UntouchedKeeps DEF vars
<1> QED
  BY <1>1, <1>2, <1>3, <1>4, <1>5 DEF Next, Rest

(* For every set of calls, of paths in any order and any number of times,  *)
(* any daemon, pool and patience: build_paths gives each path the          *)
(* realisation of that output of that derivation, from the memo or from a  *)
(* request of its own group, and the memo holds no other.                  *)
THEOREM EachPathItsOwn == Spec => []AnswersMatch
<1>1. CInv => AnswersMatch
  BY DEF CInv, OkSound, MemoSound, Right, AnswersMatch
<1> QED
  BY <1>1, InitSound, StepSound, PTL DEF Spec

=============================================================================
