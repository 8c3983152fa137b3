----------------------------- MODULE StoreClient -----------------------------
(***************************************************************************)
(* The client of the nix daemon (nix-builder-rpc-client): build_paths with *)
(* its memo, its split by derivation and its retries, the bounded pool of  *)
(* connections all callers share, the gate that retries pass through, and  *)
(* the uploads that use the same pool.                                     *)
(*                                                                         *)
(* A path asked for is an output of a derivation.  Time is not counted: an *)
(* allowance is spent by a step that may be taken while its wait lasts.    *)
(***************************************************************************)
EXTENDS Integers, Sequences, FiniteSets, SequencesExt

CONSTANTS Call,            \* the calls of build_paths, each made once
          Asks,            \* Asks[c]: its paths, [drv, out] records
          BestEffort,      \* the calls of Patience::Single
          Uploading,       \* the exchanges that are no builds
          PoolMax,         \* connections of the pool
          GateWidth,       \* RETRY_GATE
          MaxStalls,       \* patience_limit(Escalating)
          ConnectRetries,
          Reaped,          \* a host-route pool: reaped, its uploads retry
          Daemons          \* what the daemon may do: its answers for each
                           \* derivation, and what may go wrong on the way

Path == UNION {ToSet(Asks[c]) : c \in Call}
Drv  == {p.drv : p \in Path}
Answers == {"ok", "failed", "may pass", "refused"}
Faults  == {"no connection", "silence", "broken connection"}

ASSUME ClientAssumption ==
    /\ \A c \in Call : Asks[c] # <<>> /\ Asks[c] \in Seq(Path)
    /\ BestEffort \subseteq Call
    /\ {PoolMax, GateWidth} \subseteq Nat \ {0}
    /\ {MaxStalls, ConnectRetries} \subseteq Nat
    /\ Reaped \in BOOLEAN
    /\ Daemons \subseteq [answers : [Drv -> SUBSET Answers], faults : SUBSET Faults]

VARIABLES
    daemon,    \* what it may do
    call,      \* where each call is: "idle", "asked", "fan", "ok", "error"
    slots,     \* out of each call: realised paths, None where it misses
    left,      \* the groups no thread has taken yet, by their first slots
    request,   \* the requests under way or done, by call and first slot
    upload,    \* the other exchanges
    realised,  \* BuilderRpcClient::realised
    failed,    \* BuilderRpcClient::failed
    parked     \* idle connections of the pool

vars == <<daemon, call, slots, left, request, upload, realised, failed, parked>>

Nothing    == [x \in {} |-> {}]
Over(f, g) == [x \in DOMAIN f \cup DOMAIN g |->
                  IF x \in DOMAIN f THEN f[x] ELSE g[x]]
None       == [built |-> FALSE]
Built(p)   == [drv |-> p.drv, out |-> p.out, built |-> TRUE]
Request    == UNION {{<<c, i>> : i \in DOMAIN Asks[c]} : c \in Call}

InPool == Cardinality({r \in DOMAIN request : request[r].at = "exchange"})
          + Cardinality({u \in Uploading : upload[u].at = "exchange"})
Gated  == {r \in DOMAIN request : request[r].gated}

Init ==
    /\ daemon \in Daemons
    /\ call = [c \in Call |-> "idle"]
    /\ slots = [c \in Call |-> <<>>]
    /\ left = [c \in Call |-> {}]
    /\ request = Nothing
    /\ upload = [u \in Uploading |-> [at |-> "acquire", connects |-> 0]]
    /\ realised = Nothing
    /\ failed = {}
    /\ parked = 0

-----------------------------------------------------------------------------
(* build_paths.  The memo is read under its lock; every entry was put in   *)
(* as confirmed, so a hit is taken as it is.                               *)
Lookup(c) ==
    /\ call[c] = "idle"
    /\ call' = [call EXCEPT ![c] = "asked"]
    /\ slots' = [slots EXCEPT ![c] =
          [i \in DOMAIN Asks[c] |->
              IF Asks[c][i] \in DOMAIN realised THEN realised[Asks[c][i]] ELSE None]]
    /\ UNCHANGED <<daemon, left, request, upload, realised, failed, parked>>

Misses(c) == {i \in DOMAIN Asks[c] : slots[c][i] = None}

(* Mutant: every request names all that is missed.                          *)
GroupNot(c, i) == Misses(c)

(* split_by_derivation: the misses with the derivation of slot i.  A group *)
(* goes by its first slot.                                                  *)
Group(c, i) == {j \in Misses(c) : Asks[c][j].drv = Asks[c][i].drv}
Firsts(c) == {i \in Misses(c) : \A j \in Misses(c) :
                  j < i => Asks[c][j].drv # Asks[c][i].drv}

(* No miss ends the call; a derivation that failed before fails it.        *)
Decide(c) ==
    /\ call[c] = "asked"
    /\ LET bad == {i \in Misses(c) : Asks[c][i].drv \in failed}
       IN call' = [call EXCEPT ![c] = IF Misses(c) = {} THEN "ok"
                                      ELSE IF bad # {} THEN "error" ELSE "fan"]
    /\ left' = [left EXCEPT ![c] = Firsts(c)]
    /\ UNCHANGED <<daemon, slots, request, upload, realised, failed, parked>>

Busy(c) == {r \in DOMAIN request : r[1] = c /\ request[r].at # "done"}

(* for_each_bounded: as many threads as the pool has connections, which    *)
(* take the groups in order.                                                *)
NewRequest == [at |-> "acquire", stalls |-> 0, connects |-> 0, gated |-> FALSE,
               got |-> Nothing]
TakeGroup(c, i) ==
    /\ call[c] = "fan" /\ i \in left[c] /\ \A j \in left[c] : i <= j
    /\ Cardinality(Busy(c)) < PoolMax
    /\ left' = [left EXCEPT ![c] = @ \ {i}]
    /\ request' = Over([r \in {<<c, i>>} |-> NewRequest], request)
    /\ UNCHANGED <<daemon, call, slots, upload, realised, failed, parked>>

(* A group that failed is the last one taken.                               *)
EndGroup(r, q) ==
    /\ request' = [request EXCEPT ![r] = q]
    /\ left' = IF q.got = Nothing THEN [left EXCEPT ![r[1]] = {}] ELSE left

(* The calls that end: all answers in place and in the memo, or an error.  *)
Failing(c) == \E i \in DOMAIN Asks[c] :
                  <<c, i>> \in DOMAIN request /\ request[<<c, i>>].got = Nothing
FirstOf(c, j) == CHOOSE i \in Firsts(c) : j \in Group(c, i)
Answered(c) ==
    [j \in DOMAIN Asks[c] |->
        IF slots[c][j] # None THEN slots[c][j]
        ELSE request[<<c, FirstOf(c, j)>>].got[j]]
Return(c) ==
    /\ call[c] = "fan" /\ left[c] = {} /\ Busy(c) = {}
    /\ IF Failing(c)
       THEN /\ call' = [call EXCEPT ![c] = "error"]
            /\ UNCHANGED <<slots, realised>>
       ELSE /\ call' = [call EXCEPT ![c] = "ok"]
            /\ slots' = [slots EXCEPT ![c] = Answered(c)]
            /\ realised' = Over([p \in ToSet(Asks[c]) |->
                  Answered(c)[CHOOSE i \in DOMAIN Asks[c] : Asks[c][i] = p]], realised)
    /\ UNCHANGED <<daemon, left, request, upload, failed, parked>>

-----------------------------------------------------------------------------
(* build_paths_uncached: one request until it is answered or its patience  *)
(* is spent.  A retry first passes the gate, which it holds until the      *)
(* attempt is over.                                                        *)
Limit(r) == IF r[1] \in BestEffort THEN 0 ELSE MaxStalls

Gate(r) ==
    /\ request[r].at = "again" /\ Cardinality(Gated) < GateWidth
    /\ request' = [request EXCEPT ![r].at = "acquire", ![r].gated = TRUE]
    /\ UNCHANGED <<daemon, call, slots, left, upload, realised, failed, parked>>

(* A connection of the pool: a parked one, or a fresh one.                 *)
Connection == /\ InPool < PoolMax
              /\ parked' = IF parked > 0 THEN parked - 1 ELSE 0
NoConnect  == /\ InPool < PoolMax /\ parked = 0
              /\ "no connection" \in daemon.faults

(* Every connection is out, or the connect itself does not finish.         *)
Denied == \/ InPool = PoolMax
          \/ parked = 0 /\ "silence" \in daemon.faults

Acquire(r) ==
    /\ request[r].at = "acquire" /\ Connection
    /\ request' = [request EXCEPT ![r].at = "exchange"]
    /\ UNCHANGED <<daemon, call, slots, left, upload, realised, failed>>

(* The backoff is slept outside the gate.                                   *)
ConnectFails(r) ==
    /\ request[r].at = "acquire" /\ NoConnect
    /\ LET q == [request[r] EXCEPT !.connects = @ + 1, !.gated = FALSE]
       IN IF q.connects > ConnectRetries
          THEN EndGroup(r, [q EXCEPT !.at = "done"])
          ELSE /\ request' = [request EXCEPT ![r] = [q EXCEPT !.at = "again"]]
               /\ UNCHANGED left
    /\ UNCHANGED <<daemon, call, slots, upload, realised, failed, parked>>

(* Mutant: the stall is not counted.                                        *)
StallUncounted(r, limit) ==
    /\ request' = [request EXCEPT ![r].at = "again", ![r].gated = FALSE]
    /\ UNCHANGED left

(* A stall: the attempt is over, and so may the request be.                 *)
Stall(r, limit) ==
    LET q == [request[r] EXCEPT !.stalls = @ + 1, !.gated = FALSE]
    IN IF q.stalls > limit
       THEN EndGroup(r, [q EXCEPT !.at = "done"])
       ELSE /\ request' = [request EXCEPT ![r] = [q EXCEPT !.at = "again"]]
            /\ UNCHANGED left

(* No connection came free for an allowance.                                *)
PoolWait(r) ==
    /\ request[r].at = "acquire" /\ Denied
    /\ Stall(r, Limit(r))
    /\ UNCHANGED <<daemon, call, slots, upload, realised, failed, parked>>

(* The daemon is silent for an allowance: the connection is dropped.        *)
Timeout(r) ==
    /\ request[r].at = "exchange" /\ "silence" \in daemon.faults
    /\ Stall(r, Limit(r))
    /\ UNCHANGED <<daemon, call, slots, upload, realised, failed, parked>>

(* The connection breaks under the exchange, as when a sibling dropped a   *)
(* wedged one; patience does not gate it.                                  *)
ConnectionError(r) ==
    /\ request[r].at = "exchange" /\ "broken connection" \in daemon.faults
    /\ Stall(r, MaxStalls)
    /\ UNCHANGED <<daemon, call, slots, upload, realised, failed, parked>>

(* A lease is over: its connection is parked, or closed for its quota.     *)
Released == parked' \in IF Reaped THEN {parked, parked + 1} ELSE {parked + 1}

(* The realisations of a reply are pooled by the name of the output: of    *)
(* two that were asked under one name, one answers for both.                *)
Pool(asked, n) ==
    LET named == {p \in asked : p.out = n}
    IN Built(CHOOSE p \in named : TRUE)

Succeed(r) ==
    /\ request[r].at = "exchange"
    /\ LET slotsOf == Group(r[1], r[2])
           asked == {Asks[r[1]][j] : j \in slotsOf}
       IN /\ \A p \in asked : "ok" \in daemon.answers[p.drv]
          /\ EndGroup(r, [request[r] EXCEPT !.at = "done", !.gated = FALSE,
                            !.got = [j \in slotsOf |-> Pool(asked, Asks[r[1]][j].out)]])
    /\ Released
    /\ UNCHANGED <<daemon, call, slots, upload, realised, failed>>

(* The daemon says no.  A failure that may pass and a refusal end the      *)
(* request and nothing more; a verdict is noted next.                      *)
DrvOf(r) == Asks[r[1]][r[2]].drv
BuildFails(r) ==
    /\ request[r].at = "exchange"
    /\ \E answer \in daemon.answers[DrvOf(r)] \ {"ok"} :
          IF answer = "failed"
          THEN /\ request' = [request EXCEPT ![r].at = "verdict", ![r].gated = FALSE]
               /\ UNCHANGED left
          ELSE EndGroup(r, [request[r] EXCEPT !.at = "done", !.gated = FALSE])
    /\ Released
    /\ UNCHANGED <<daemon, call, slots, upload, realised, failed>>

NoteFailure(r) ==
    /\ request[r].at = "verdict"
    /\ failed' = failed \cup {DrvOf(r)}
    /\ EndGroup(r, [request[r] EXCEPT !.at = "done"])
    /\ UNCHANGED <<daemon, call, slots, upload, realised, parked>>

-----------------------------------------------------------------------------
(* The other exchanges: one allowance, no gate, and on a reaped pool the   *)
(* connect ladder.                                                         *)
UploadAcquires(u) ==
    /\ upload[u].at = "acquire" /\ Connection
    /\ upload' = [upload EXCEPT ![u].at = "exchange"]
    /\ UNCHANGED <<daemon, call, slots, left, request, realised, failed>>

UploadConnectFails(u) ==
    /\ upload[u].at = "acquire" /\ NoConnect
    /\ upload' = [upload EXCEPT ![u].connects = @ + 1,
                     ![u].at = IF Reaped /\ upload[u].connects < ConnectRetries
                               THEN "acquire" ELSE "error"]
    /\ UNCHANGED <<daemon, call, slots, left, request, realised, failed, parked>>

UploadStalls(u) ==
    /\ \/ upload[u].at = "acquire" /\ Denied
       \/ upload[u].at = "exchange" /\ daemon.faults \cap {"silence", "broken connection"} # {}
    /\ upload' = [upload EXCEPT ![u].at = "error"]
    /\ UNCHANGED <<daemon, call, slots, left, request, realised, failed, parked>>

UploadEnds(u) ==
    /\ upload[u].at = "exchange"
    /\ upload' = [upload EXCEPT ![u].at = "ok"]
    /\ Released
    /\ UNCHANGED <<daemon, call, slots, left, request, realised, failed>>

(* close_idle, in a quiet spell.                                            *)
Reap ==
    /\ Reaped /\ parked > 0 /\ InPool < PoolMax
    /\ parked' = parked - 1
    /\ UNCHANGED <<daemon, call, slots, left, request, upload, realised, failed>>

Attempt(r) == \/ Acquire(r) \/ ConnectFails(r) \/ PoolWait(r)
              \/ Timeout(r) \/ ConnectionError(r) \/ Succeed(r) \/ BuildFails(r)
CallStep(c)   == \/ Lookup(c) \/ Decide(c) \/ Return(c)
                 \/ \E i \in left[c] : TakeGroup(c, i)
UploadStep(u) == UploadAcquires(u) \/ UploadConnectFails(u) \/ UploadStalls(u)
                 \/ UploadEnds(u)

Ended == /\ \A c \in Call : call[c] \in {"ok", "error"}
         /\ \A u \in Uploading : upload[u].at \in {"ok", "error"}
Rest  == Ended /\ UNCHANGED vars

Next ==
    \/ \E c \in Call : CallStep(c)
    \/ \E r \in DOMAIN request : Attempt(r) \/ Gate(r) \/ NoteFailure(r)
    \/ \E u \in Uploading : UploadStep(u)
    \/ Reap
    \/ Rest

(* Threads move, every wait has its timer, and the gate is a fair queue.    *)
Fairness ==
    /\ \A c \in Call : WF_vars(CallStep(c))
    /\ \A r \in Request :
          /\ WF_vars(r \in DOMAIN request /\ Attempt(r))
          /\ SF_vars(r \in DOMAIN request /\ Gate(r))
          /\ WF_vars(r \in DOMAIN request /\ NoteFailure(r))
    /\ \A u \in Uploading : WF_vars(UploadStep(u))

Spec == Init /\ [][Next]_vars /\ Fairness

-----------------------------------------------------------------------------
(* A call that returns has for each path, in the order asked, the output   *)
(* of that name of that derivation, whichever came from the memo and       *)
(* however its requests were split, retried and finished; and so has the   *)
(* memo.  A derivation that can only fail is in neither.                   *)
AnswersMatch ==
    /\ \A c \in Call : call[c] = "ok" =>
          \A i \in DOMAIN Asks[c] :
              slots[c][i] = Built(Asks[c][i]) /\ "ok" \in daemon.answers[Asks[c][i].drv]
    /\ \A p \in DOMAIN realised : realised[p] = Built(p)

(* Every call returns and every upload ends, whatever the daemon does and   *)
(* whoever has the connections: no wait is without its end, and no retry    *)
(* without its count.                                                       *)
CallsEnd == <>Ended

=============================================================================
