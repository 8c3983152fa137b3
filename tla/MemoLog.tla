------------------------------ MODULE MemoLog --------------------------------
(***************************************************************************)
(* The files of the resolve memo and of the discovery cache: a header that *)
(* names the driver build, and one line for each entry, appended by every  *)
(* run (init, record, lookup and flush in crates/nix-ninja/src/            *)
(* resolve_cache.rs and discovery_cache.rs).                               *)
(*                                                                         *)
(* writeln! on a file is two writes, the text and the newline.  A driver   *)
(* may be killed between any two writes, and another one may have the file *)
(* open, or remove it, at the same time.                                   *)
(***************************************************************************)
EXTENDS Integers, Sequences, FiniteSets, SequencesExt

CONSTANTS Proc,         \* driver processes that may run at once
          Driver,       \* driver builds, as the header tells them apart
          Key,          \* what entries are looked up by
          Caches,       \* "resolve", "discovery" or both: whose file it is
          MaxStarts,    \* bound on the invocations
          MaxText       \* nothing is recorded when the file is this long

ASSUME ProcAssumption  == IsFiniteSet(Proc) /\ IsFiniteSet(Key)
ASSUME CacheAssumption == Caches \subseteq {"resolve", "discovery"}
ASSUME BoundAssumption == {MaxStarts, MaxText} \subseteq Nat

VARIABLES
    cache,      \* the cache it is
    exists,     \* the file is there
    text,       \* what was written to it: headers, entries and newlines
    at,         \* at[p]: where process p is
    build,      \* build[p]: which driver build p runs
    loaded,     \* loaded[p]: unvalidated, entries by key
    pending,    \* pending[p]: lines recorded and not flushed
    lines,      \* lines[p]: lines the flush still has to write
    onFile,     \* onFile[p]: p's open file is the one at the path
    heads,      \* heads[p]: the flush found no file, or an empty one
    starts,     \* invocations so far
    torn,       \* a driver has been killed inside a flush
    shared,     \* two drivers have been up at once
    mixed,      \* drivers of two builds have
    banked      \* entries of finished flushes that nobody discarded

procVars == <<build, loaded, pending, lines, onFile, heads>>
pastVars == <<starts, torn, shared, mixed>>
vars     == <<cache, exists, text, at, procVars, pastVars, banked>>

Discovery == cache = "discovery"

Newline   == [kind |-> "newline"]
Header(d) == [kind |-> "header", driver |-> d]
Line(d, k) == [kind |-> "entry", driver |-> d, key |-> k]

Nothing == [k \in {} |-> {}]

-----------------------------------------------------------------------------
(* parse_persisted.                                                        *)

Newlines(t) == {i \in 1..Len(t) : t[i] = Newline}

(* The line that starts at i: up to the next newline, or to the end. *)
LineAt(t, i) ==
    LET ends == {j \in Newlines(t) : j >= i}
    IN  SubSeq(t, i, IF ends = {} THEN Len(t)
                     ELSE (CHOOSE j \in ends : \A e \in ends : j <= e) - 1)

(* Where a later line with an entry starts.  Text that runs on after an    *)
(* entry ends up in the entry's last field; an entry that runs on after    *)
(* other text is under that text's key.                                    *)
EntryStarts(t) == {i + 1 : i \in Newlines(t) \ {Len(t)}} \cap
                  {i \in 1..Len(t) : t[i].kind = "entry"}

(* Mutant: any header of the format will do. *)
HeaderOfFormat(t, d) ==
    t # <<>> /\ Len(LineAt(t, 1)) = 1 /\ t[1].kind = "header"

(* The first line is this driver's header, to the last character. *)
HeaderFits(t, d) == t # <<>> /\ LineAt(t, 1) = <<Header(d)>>

(* The last line of a key counts. *)
Parse(t) ==
    [k \in {t[i].key : i \in EntryStarts(t)} |->
        LET last == CHOOSE i \in EntryStarts(t) :
                       /\ t[i].key = k
                       /\ \A j \in EntryStarts(t) : t[j].key = k => j <= i
        IN  [driver |-> t[last].driver, whole |-> Len(LineAt(t, last)) = 1]]

-----------------------------------------------------------------------------
Init ==
    /\ cache \in Caches
    /\ exists = FALSE
    /\ text = <<>>
    /\ at = [p \in Proc |-> "off"]
    /\ build \in [Proc -> Driver]
    /\ loaded = [p \in Proc |-> Nothing]
    /\ pending = [p \in Proc |-> <<>>]
    /\ lines = [p \in Proc |-> <<>>]
    /\ onFile = [p \in Proc |-> FALSE]
    /\ heads = [p \in Proc |-> FALSE]
    /\ starts = 0
    /\ torn = FALSE
    /\ shared = FALSE
    /\ mixed = FALSE
    /\ banked = {}

(* init: the file is read; under another header it has to go. *)
Start(p, d) ==
    /\ at[p] = "off"
    /\ starts < MaxStarts
    /\ starts' = starts + 1
    /\ LET up == {q \in Proc : at[q] # "off"} IN
        /\ shared' = (shared \/ up # {})
        /\ mixed' = (mixed \/ \E q \in up : build[q] # d)
    /\ build' = [build EXCEPT ![p] = d]
    /\ at' = [at EXCEPT ![p] = IF exists /\ ~HeaderFits(text, d) THEN "stale" ELSE "up"]
    /\ loaded' = [loaded EXCEPT ![p] = IF exists /\ HeaderFits(text, d)
                                       THEN Parse(text) ELSE Nothing]
    /\ UNCHANGED <<cache, exists, text, pending, lines, onFile, heads, torn, banked>>

(* Mutant: the stale file is ignored and stays. *)
LeaveStale == UNCHANGED <<exists, text, onFile>>

(* Who has the file open goes on writing where nobody reads. *)
RemoveStale ==
    /\ exists' = FALSE
    /\ text' = <<>>
    /\ onFile' = [q \in Proc |-> FALSE]

Discard(p) ==
    /\ at[p] = "stale"
    /\ RemoveStale
    /\ at' = [at EXCEPT ![p] = "up"]
    /\ banked' = {}
    /\ UNCHANGED <<cache, build, loaded, pending, lines, heads, pastVars>>

(* record: the line waits for the next flush.  The discovery cache also    *)
(* enters it among the loaded ones, and its flush holds the list's lock.   *)
Record(p, k) ==
    /\ at[p] \notin {"off", "stale"}
    /\ Discovery => at[p] = "up"
    /\ Len(text) < MaxText
    /\ LET l == Line(build[p], k) IN
        /\ l \notin ToSet(pending[p]) \cup ToSet(lines[p])
        /\ pending' = [pending EXCEPT ![p] = Append(@, l)]
    /\ loaded' = IF Discovery
                 THEN [loaded EXCEPT ![p] =
                          [x \in DOMAIN @ \cup {k} |->
                              IF x = k THEN [driver |-> build[p], whole |-> TRUE]
                              ELSE @[x]]]
                 ELSE loaded
    /\ UNCHANGED <<cache, exists, text, at, build, lines, onFile, heads, pastVars, banked>>

(* lookup takes the entry out. *)
Lookup(p, k) ==
    /\ at[p] \notin {"off", "stale"}
    /\ k \in DOMAIN loaded[p]
    /\ loaded' = [loaded EXCEPT ![p] = [x \in DOMAIN @ \ {k} |-> @[x]]]
    /\ UNCHANGED <<cache, exists, text, at, build, pending, lines, onFile, heads, pastVars,
                   banked>>

-----------------------------------------------------------------------------
(* flush.                                                                  *)

TakePending(p) == [pending EXCEPT ![p] = <<>>]

(* The resolve memo asks whether the file exists before it opens it. *)
Flush(p) ==
    /\ at[p] = "up"
    /\ pending[p] # <<>>
    /\ lines' = [lines EXCEPT ![p] = pending[p]]
    /\ pending' = TakePending(p)
    /\ heads' = [heads EXCEPT ![p] = ~exists]
    /\ at' = [at EXCEPT ![p] = "open"]
    /\ UNCHANGED <<cache, exists, text, build, loaded, onFile, pastVars, banked>>

(* The discovery cache looks at the length of the file it has opened. *)
Open(p) ==
    /\ at[p] = "open"
    /\ exists' = TRUE
    /\ onFile' = [onFile EXCEPT ![p] = TRUE]
    /\ LET head == IF Discovery THEN text = <<>> ELSE heads[p] IN
        at' = [at EXCEPT ![p] = IF head THEN "header" ELSE "line"]
    /\ UNCHANGED <<cache, text, build, loaded, pending, lines, heads, pastVars, banked>>

Put(p, piece) == text' = IF onFile[p] THEN Append(text, piece) ELSE text

PutHeader(p) ==
    /\ at[p] = "header"
    /\ Put(p, Header(build[p]))
    /\ at' = [at EXCEPT ![p] = "header end"]
    /\ UNCHANGED <<cache, exists, procVars, pastVars, banked>>

PutLine(p) ==
    /\ at[p] = "line"
    /\ Put(p, Head(lines[p]))
    /\ at' = [at EXCEPT ![p] = "line end"]
    /\ UNCHANGED <<cache, exists, procVars, pastVars, banked>>

PutNewline(p) ==
    /\ at[p] = "header end"
    /\ Put(p, Newline)
    /\ at' = [at EXCEPT ![p] = "line"]
    /\ UNCHANGED <<cache, exists, procVars, pastVars, banked>>

EndLine(p) ==
    /\ at[p] = "line end"
    /\ Put(p, Newline)
    /\ lines' = [lines EXCEPT ![p] = Tail(@)]
    /\ at' = [at EXCEPT ![p] = IF Len(lines[p]) = 1 THEN "up" ELSE "line"]
    /\ banked' = IF onFile[p]
                 THEN banked \cup {[key |-> Head(lines[p]).key, driver |-> build[p]]}
                 ELSE banked
    /\ UNCHANGED <<cache, exists, build, loaded, pending, onFile, heads, pastVars>>

(* The driver ends, or is killed, at any point. *)
Gone(p) ==
    /\ at[p] # "off"
    /\ torn' = (torn \/ at[p] \notin {"up", "stale"})
    /\ at' = [at EXCEPT ![p] = "off"]
    /\ loaded' = [loaded EXCEPT ![p] = Nothing]
    /\ pending' = [pending EXCEPT ![p] = <<>>]
    /\ lines' = [lines EXCEPT ![p] = <<>>]
    /\ onFile' = [onFile EXCEPT ![p] = FALSE]
    /\ heads' = [heads EXCEPT ![p] = FALSE]
    /\ UNCHANGED <<cache, exists, text, build, starts, shared, mixed, banked>>

Flushing(p) == \/ Flush(p)
               \/ Open(p)
               \/ PutHeader(p)
               \/ PutNewline(p)
               \/ PutLine(p)
               \/ EndLine(p)

Next == \E p \in Proc : \/ \E d \in Driver : Start(p, d)
                        \/ Discard(p)
                        \/ \E k \in Key : Record(p, k) \/ Lookup(p, k)
                        \/ Flushing(p)
                        \/ Gone(p)

Spec == Init /\ [][Next]_vars

-----------------------------------------------------------------------------
(* What a driver loads was recorded by the same build. *)
OthersNeverReplay ==
    \A p \in Proc : \A k \in DOMAIN loaded[p] : loaded[p][k].driver = build[p]

(* "Entries computed by another scanner never replay" (discovery_cache.rs, *)
(* module comment): so it is wherever earlier runs were killed and however *)
(* many drivers of one build have the file at once, up to the first time   *)
(* that drivers of two builds are up together.  Then a driver may flush    *)
(* under the header that one of another build wrote.                       *)
OwnDriverOnly == ~mixed => OthersNeverReplay

(* "Appending under a stale header strands every entry this run banks":    *)
(* what a finished flush wrote is there for the next run of its build,     *)
(* until another build discards the file, and no more than what it wrote,  *)
(* in so far as drivers ran one after the other and none was killed in the *)
(* middle of a flush.                                                      *)
BankedLoads ==
    ~torn /\ ~shared => \A b \in banked :
        /\ HeaderFits(text, b.driver)
        /\ b.key \in DOMAIN Parse(text)
        /\ Parse(text)[b.key] = [driver |-> b.driver, whole |-> TRUE]

==============================================================================
