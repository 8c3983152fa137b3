------------------------------- MODULE Passes -------------------------------
(***************************************************************************)
(* The passes of one build over one build directory (cli.rs run, main.rs,  *)
(* configure_state.rs begin_pass to pass_report, with the Rewind of        *)
(* BuildDir).  A later pass takes, for an edge an earlier pass derived,    *)
(* the derivation that pass wrote, and at its exit counts the ones whose   *)
(* inputs are not what they were.  Between passes hooks edit the           *)
(* directory.  A pass may fail, and may die anywhere; after that the whole *)
(* build may be tried again in a fresh directory, where the record kept    *)
(* outside it answers (NIX_NINJA_DISCOVERY_CACHE_DIR).                     *)
(*                                                                         *)
(* A derivation is its edge and what it was given: the maker's derivation  *)
(* for a declared input an edge makes, else bytes.                         *)
(***************************************************************************)
EXTENDS BuildDir

CONSTANTS Edge,
          Outs,        \* Outs[e]: the files e makes
          Declared,    \* Declared[e]: its inputs in the manifest
          Probes,      \* Probes[e]: files its discovery looks for on disk
          Targets,     \* what a pass may be asked for: sets of files
          Patched,     \* files a retry may find with other bytes
          Same(_, _),  \* Same(p, drv): drv writes at p what configure left
          MaxPasses, MaxEdits, MaxKills, MaxRetries, MaxFails

ASSUME EdgeAssumption ==
    /\ IsFiniteSet(Edge)
    /\ Outs \in [Edge -> SUBSET Path]
    /\ Declared \in [Edge -> SUBSET Path] /\ Probes \in [Edge -> SUBSET Path]
    /\ \A e, f \in Edge : e # f => Outs[e] \cap Outs[f] = {}
    /\ Targets \subseteq SUBSET UNION {Outs[e] : e \in Edge}
ASSUME BytesAssumption ==
    \A p \in DOMAIN Configured : Configured[p][1] \notin {"none", "hook", "-"}
ASSUME BoundAssumption ==
    {MaxPasses, MaxEdits, MaxKills, MaxRetries, MaxFails} \subseteq Nat

VARIABLES
    emitted,    \* emitted.v1: each edge's derivation
    inputs,     \* inputs.v1: what each edge read, with its hash
    files,      \* files.v1: every path and hash recorded
    attempt,    \* the record outside the build directory, if one is kept
    earlier,    \* Pass.earlier, edge_inputs and files as the pass loaded them
    want,       \* the edges of this pass not started
    target,     \* what this pass was asked for
    used,       \* the derivation this pass has for each edge
    reused,     \* Pass.reused_edges
    derived,    \* EMITTED and EMITTED_INPUTS
    replaced,   \* Pass.replaced
    replacedOutputs,
    fallback,   \* Pass.fallback: recorded derivations the store had lost
    now,        \* NOW: hashes already taken
    merged,     \* pass_report's lines, and how far they are written
    lost,       \* derivations collected from the store
    stale,      \* what the report of the pass counts
    passes, edits, kills, retries, fails,
    outside,    \* the directory had nothing been placed in it
    latest,     \* the last bytes written at each path
    loose,      \* placed and not journaled, or else not to be told from a
                \* hook's edit
    touched,    \* files a hook or a patch changed
    torn        \* edges a pass died over with what they read written and
                \* their derivation not

recordVars == <<emitted, inputs, files, attempt>>
passVars   == <<earlier, want, target, used, reused, derived, replaced,
                replacedOutputs, fallback, now, merged, stale>>
counters   == <<passes, edits, kills, retries, fails>>
ghosts     == <<outside, latest, loose, touched, torn>>
vars == <<diskVars, stateVars, rewindVars, clock, recordVars, passVars, lost,
          counters, ghosts>>

Unknown   == <<"-">>
NoRecord  == [kept |-> FALSE, drv |-> Nothing]
NoEarlier == [kept |-> FALSE, later |-> FALSE, drv |-> Nothing,
              inputs |-> Nothing, files |-> {}]
(* dir is the build directory, by its number, whose files.v1 the indices   *)
(* of the attempt's inputs.v1 are into.                                     *)
EmptyAttempt == [kept |-> TRUE, drv |-> Nothing, inputs |-> Nothing,
                 files |-> {}, log |-> Nothing, dir |-> 0]
NoAttempt    == [EmptyAttempt EXCEPT !.kept = FALSE]
NotMerged    == [done |-> "nothing", drv |-> Nothing, inputs |-> Nothing,
                 files |-> {}]

Made     == UNION {Outs[e] : e \in Edge}
Maker(p) == CHOOSE e \in Edge : p \in Outs[e]
Makers(e) == {Maker(p) : p \in Declared[e] \cap Made}

(* The edges a pass asked for t has to have: t's makers, and of each edge  *)
(* the makers of what it reads.                                            *)
Needed(t) ==
    {e \in Edge : \A S \in SUBSET Edge :
        ({f \in Edge : Outs[f] \cap t # {}} \subseteq S
         /\ (\A f \in S : Makers(f) \subseteq S)) => e \in S}

Product(p, drv) == IF p \in DOMAIN Configured /\ Same(p, drv)
                   THEN Configured[p] ELSE <<"built", p, drv>>

Dated(bytes) == [p \in DOMAIN bytes |-> File(bytes[p], 0)]

Idle == /\ todo = {} /\ back = Nothing /\ removed = {} /\ rewound = FALSE
        /\ left = Nothing
        /\ earlier = NoEarlier /\ want = {} /\ target = {} /\ used = Nothing
        /\ reused = {} /\ derived = Nothing /\ replaced = {}
        /\ replacedOutputs = {} /\ fallback = {} /\ now = Nothing
        /\ merged = NotMerged /\ stale = {}

Bare == /\ fresh = {} /\ record = None /\ originals = Nothing
        /\ journal = NoJournal /\ aside = Nothing /\ gone = {}
        /\ emitted = NoRecord /\ inputs = Nothing /\ files = {}
        /\ loose = {} /\ at = "off"

Init ==
    /\ outside = Configured /\ latest = Configured
    /\ tree = Dated(Configured) /\ dirs = ConfiguredDirs
    /\ Bare /\ Idle
    /\ attempt \in {NoAttempt, EmptyAttempt}
    /\ clock = 0 /\ lost = {} /\ touched = {} /\ torn = {}
    /\ passes = 0 /\ edits = 0 /\ kills = 0 /\ retries = 0 /\ fails = 0

-----------------------------------------------------------------------------
(* begin_pass: a later pass without a record of the earlier ones' tasks    *)
(* stops; a first one takes the record of the attempt before.              *)
Later == record # None

Journaled == DOMAIN journal.F \cup DOMAIN journal.O

FromState == [kept |-> TRUE, later |-> TRUE, drv |-> emitted.drv,
              inputs |-> inputs, files |-> files]

PairsOf(ins) ==
    UNION {{<<p, ins[e][p]>> : p \in DOMAIN ins[e]} : e \in DOMAIN ins}

(* What a clean exit wrote, with the journal of edges over it.              *)
FromAttempt ==
    LET ins == Over([e \in DOMAIN attempt.log |-> attempt.log[e].inputs],
                    attempt.inputs)
    IN [kept |-> TRUE, later |-> FALSE,
        drv |-> Over([e \in DOMAIN attempt.log |-> attempt.log[e].drv],
                     attempt.drv),
        inputs |-> ins,
        files |-> attempt.files \cup PairsOf(ins)]

Loaded == IF Later THEN FromState
          ELSE IF FromAttempt.drv = Nothing THEN NoEarlier ELSE FromAttempt

Begin(t) ==
    /\ at = "off" /\ passes < MaxPasses
    /\ passes' = passes + 1
    /\ ~(Later /\ ~emitted.kept)
    /\ clock' = clock + 1
    /\ earlier' = Loaded
    /\ target' = t
    /\ want' = Needed(t)
    /\ removed' = gone
    /\ at' = "recover"
    /\ UNCHANGED <<diskVars, stateVars, todo, back, rewound, left, recordVars,
                   used, reused, derived, replaced, replacedOutputs, fallback,
                   now, merged, stale, lost, edits, kills, retries, fails, ghosts>>

Refuse ==
    /\ at = "off" /\ passes < MaxPasses
    /\ passes' = passes + 1
    /\ Later /\ ~emitted.kept
    /\ UNCHANGED <<diskVars, stateVars, rewindVars, clock, recordVars, passVars,
                   lost, edits, kills, retries, fails, ghosts>>

(* What edges of earlier passes read at p (recorded_at).                    *)
ReadThere == [p \in Path |->
    {f[2] : f \in {g \in earlier.files : g[1] = p /\ g[2] # Unknown}}]

(* The bytes configure and hooks left at p.                                 *)
Outside(p) == IF p \in DOMAIN outside THEN outside[p] ELSE None

(* A journaled file whose inode a pass that died has moved passes for an   *)
(* edit when its bytes are none that an edge is recorded to have read.     *)
Mistaken ==
    {p \in (DOMAIN journal.F \cup DOMAIN journal.O) \cap DOMAIN tree :
        KeptStamp(p, ReadThere) /\ Bytes(p) # Outside(p)}

Rewinds ==
    /\ RewindStep(ReadThere)
    /\ loose' = IF at = "note" THEN loose \cup Mistaken ELSE loose
    /\ UNCHANGED <<recordVars, passVars, lost, counters, outside, latest, touched, torn>>

WalkStep ==
    /\ Walk
    /\ UNCHANGED <<recordVars, passVars, lost, counters, ghosts>>

-----------------------------------------------------------------------------
(* The edges of the pass, a maker before what reads its files.             *)
Ready(e) == at = "run" /\ e \in want /\ Makers(e) \cap want = {}

Managed == (UNION {Outs[e] : e \in DOMAIN earlier.drv}) \cup
           (IF earlier.later THEN Journaled ELSE {})

InputsOf(e) == IF e \in DOMAIN earlier.inputs THEN earlier.inputs[e] ELSE Nothing

InputsChanged(e) ==
    \E p \in DOMAIN InputsOf(e) \ Managed :
        /\ InputsOf(e)[p] # Unknown
        /\ Bytes(p) \notin {None, InputsOf(e)[p]}

(* Mutant: a reader of a replaced file is reused all the same.              *)
ConsumesReplacedNever(e) == FALSE

ConsumesReplaced(e) == DOMAIN InputsOf(e) \cap replacedOutputs # {}

Refused(e) == InputsChanged(e) \/ ConsumesReplaced(e)

Resolves(e) == Declared[e] \ Made \subseteq DOMAIN tree

Reuse(e) ==
    /\ Ready(e)
    /\ e \in DOMAIN earlier.drv /\ earlier.drv[e] \notin lost
    /\ ~Refused(e) /\ Resolves(e)
    /\ used' = With(used, e, earlier.drv[e])
    /\ reused' = reused \cup {e}
    /\ want' = want \ {e}
    /\ UNCHANGED <<diskVars, stateVars, rewindVars, clock, recordVars, earlier,
                   target, derived, replaced, replacedOutputs, fallback, now,
                   merged, stale, lost, counters, ghosts>>

(* The inputs discovery finds, and the derivation written from them.        *)
Given(e) == {p \in Declared[e] \cup Probes[e] :
                p \in Declared[e] \cap Made \/ p \in DOMAIN tree}
Derivation(e) ==
    <<e, [p \in Given(e) |-> IF p \in Declared[e] \cap Made THEN used[Maker(p)]
                                                            ELSE Bytes(p)]>>
(* now_hash: the memo answers before the disk.                              *)
Hash(p) == IF p \in DOMAIN now THEN now[p]
           ELSE IF p \in DOMAIN tree THEN Bytes(p) ELSE Unknown

JournalEdge(e, drv, read) ==
    /\ attempt' = [attempt EXCEPT !.log = With(@, e, [drv |-> drv, inputs |-> read])]
    /\ now' = Over(now, read)

(* note_task, and journal_edge where an attempt is kept.                    *)
Derive(e) ==
    /\ Ready(e) /\ Resolves(e)
    /\ e \in DOMAIN earlier.drv => earlier.drv[e] \in lost \/ Refused(e)
    /\ LET drv  == Derivation(e)
           read == [p \in Given(e) |-> Hash(p)]
       IN /\ used' = With(used, e, drv)
          /\ derived' = With(derived, e, [drv |-> drv, inputs |-> Given(e)])
          /\ lost' = lost \ {drv}
          /\ IF attempt.kept THEN JournalEdge(e, drv, read)
                             ELSE UNCHANGED <<attempt, now>>
    /\ IF e \in DOMAIN earlier.drv
       THEN /\ replaced' = replaced \cup {e}
            /\ IF earlier.drv[e] \in lost
               THEN fallback' = fallback \cup {e} /\ UNCHANGED replacedOutputs
               ELSE /\ replacedOutputs' = replacedOutputs \cup Outs[e]
                    /\ UNCHANGED fallback
       ELSE UNCHANGED <<replaced, replacedOutputs, fallback>>
    /\ want' = want \ {e}
    /\ UNCHANGED <<diskVars, stateVars, rewindVars, clock, emitted, inputs,
                   files, earlier, target, reused, merged, stale, counters,
                   ghosts>>

-----------------------------------------------------------------------------
(* Placement, when every edge is built.                                     *)
Built ==
    /\ at = "run" /\ want = {}
    /\ at' = "keep" /\ todo' = target
    /\ UNCHANGED <<diskVars, stateVars, back, removed, rewound, left, clock,
                   recordVars, passVars, lost, counters, ghosts>>

KeepStep ==
    /\ \E p \in todo : Keep(p)
    /\ UNCHANGED <<recordVars, passVars, lost, counters, ghosts>>

AllKept ==
    /\ at = "keep" /\ todo = {} /\ Unkept(target) = {}
    /\ at' = "place" /\ todo' = target
    /\ UNCHANGED <<diskVars, stateVars, back, removed, rewound, left, clock,
                   recordVars, passVars, lost, counters, ghosts>>

PlaceStep ==
    \E p \in todo :
       LET bytes == Product(p, used[Maker(p)]) IN
       /\ Place(p, bytes)
       /\ latest' = With(latest, p, bytes)
       /\ loose' = loose \cup {p}
       /\ UNCHANGED <<recordVars, passVars, lost, counters, outside, touched, torn>>

Listed == UNION {Outs[e] : e \in DOMAIN used}

JournalStep ==
    /\ Journal(Listed)
    /\ LET there == Listed \cap DOMAIN tree
           own == there \ (LeftFiles \cup DOMAIN originals)
       IN outside' = [p \in (DOMAIN outside \ own) \cup (there \cap DOMAIN originals) |->
                         IF p \in there \cap DOMAIN originals THEN originals[p]
                                                            ELSE outside[p]]
    /\ loose' = loose \ (Listed \cap DOMAIN tree)
    /\ UNCHANGED <<recordVars, passVars, lost, counters, latest, touched, torn>>

(* An edge fails, an output cannot be placed (under keep-going the others  *)
(* are, and nothing is journaled), or configure's version could not be     *)
(* kept: what was set aside comes back as the Rewind is dropped.           *)
Fail ==
    /\ \/ /\ at \in {"run", "place"} /\ fails < MaxFails
          /\ fails' = fails + 1
       \/ /\ \E e \in want : Ready(e) /\ ~Resolves(e)
          /\ UNCHANGED fails
       \/ /\ at = "keep" /\ todo = {} /\ Unkept(target) # {}
          /\ UNCHANGED fails
    /\ todo' = {}
    /\ at' = IF rewound THEN "finish" ELSE "report"
    /\ UNCHANGED <<diskVars, stateVars, back, removed, rewound, left, clock,
                   recordVars, passVars, lost, passes, edits, kills, retries,
                   ghosts>>

-----------------------------------------------------------------------------
(* pass_report, whether the pass succeeded or not.  First the record: a    *)
(* replaced edge's entry is written over, any other is kept, and inputs    *)
(* unknown so far take what placement holds there now.                     *)
NewRead(e) == [p \in derived[e].inputs |-> Hash(p)]

Recorded ==
    LET writes == {e \in DOMAIN derived :
                      e \in replaced \/ e \notin DOMAIN inputs}
    IN Over([e \in writes |-> NewRead(e)], inputs)

PlacementHolds(p) ==
    /\ p \in DOMAIN journal.F \cap DOMAIN tree
    /\ tree[p].stamp = journal.F[p]

Filled(ins) ==
    [e \in DOMAIN ins |-> [p \in DOMAIN ins[e] |->
        IF ins[e][p] = Unknown /\ PlacementHolds(p) THEN Hash(p) ELSE ins[e][p]]]

NewDrv ==
    LET writes == {e \in DOMAIN derived :
                      e \in replaced \/ e \notin DOMAIN emitted.drv}
    IN Over([e \in writes |-> derived[e].drv], emitted.drv)

(* Mutant: an input no exit has held yet is compared too.                   *)
InputMovedUnknown(e) == \E p \in DOMAIN InputsOf(e) : InputsOf(e)[p] # Hash(p)

(* Then the count: a reused edge one of whose known inputs is not what it  *)
(* was, and every reader of a hook's edit that this pass wrote over.       *)
InputMoved(e) ==
    \E p \in DOMAIN InputsOf(e) : InputsOf(e)[p] \notin {Unknown, Hash(p)}

Overwritten == {p \in DOMAIN left \cap DOMAIN tree : left[p] # Bytes(p)}

Stale == {e \in reused : InputMoved(e)} \cup
         {e \in DOMAIN earlier.inputs : DOMAIN InputsOf(e) \cap Overwritten # {}}

(* The lines are taken first and written file by file, each under a name   *)
(* of its own and renamed.                                                 *)
Merge ==
    /\ merged = NotMerged
    /\ LET filled == Filled(Recorded)
           all    == files \cup PairsOf(Recorded) \cup PairsOf(filled)
       IN /\ merged' = [done |-> "files", drv |-> NewDrv, inputs |-> filled,
                        files |-> all]
          /\ files' = all
    /\ UNCHANGED <<emitted, inputs, attempt>>

After(done, next) == /\ merged.done = done
                     /\ merged' = [merged EXCEPT !.done = next]

WriteInputs ==
    /\ After("files", "inputs")
    /\ inputs' = merged.inputs
    /\ UNCHANGED <<emitted, files, attempt>>

WriteEmitted ==
    /\ After("inputs", IF attempt.kept THEN "emitted" ELSE "all")
    /\ emitted' = [kept |-> TRUE, drv |-> merged.drv]
    /\ UNCHANGED <<inputs, files, attempt>>

(* write_back_attempt writes the same lines over the attempt's record in   *)
(* another order, and then removes the journal they supersede.             *)
BackEmitted ==
    /\ After("emitted", "attempt emitted")
    /\ attempt' = [attempt EXCEPT !.drv = merged.drv]
    /\ UNCHANGED <<emitted, inputs, files>>

(* Indices into another directory's files name any file of this one's, or  *)
(* none, and then neither file can be read.                                *)
Readings ==
    LET asWritten == [inputs |-> attempt.inputs, files |-> merged.files]
        misread   == {[inputs |-> [e \in DOMAIN attempt.inputs |-> [p \in {f[1]} |-> f[2]]],
                       files  |-> merged.files] : f \in merged.files}
        unread    == [inputs |-> Nothing, files |-> {}]
    IN IF attempt.dir = retries THEN {asWritten} ELSE {unread} \cup misread

BackFiles ==
    /\ After("attempt emitted", "attempt files")
    /\ \E r \in Readings :
          attempt' = [attempt EXCEPT !.inputs = r.inputs, !.files = r.files]
    /\ UNCHANGED <<emitted, inputs, files>>

BackInputs ==
    /\ After("attempt files", "attempt inputs")
    /\ attempt' = [attempt EXCEPT !.inputs = merged.inputs, !.files = merged.files,
                                  !.dir = retries]
    /\ UNCHANGED <<emitted, inputs, files>>

DropJournal ==
    /\ After("attempt inputs", "all")
    /\ attempt' = [attempt EXCEPT !.log = Nothing]
    /\ UNCHANGED <<emitted, inputs, files>>

RecordStep ==
    /\ at = "report"
    /\ \/ Merge \/ WriteInputs \/ WriteEmitted
       \/ BackEmitted \/ BackFiles \/ BackInputs \/ DropJournal
    /\ UNCHANGED <<diskVars, stateVars, rewindVars, clock, earlier, want, target,
                   used, reused, derived, replaced, replacedOutputs, fallback,
                   now, stale, lost, counters, ghosts>>

Report ==
    /\ at = "report" /\ merged.done = "all"
    /\ stale' = IF earlier.kept THEN Stale ELSE {}
    /\ at' = "ended"
    /\ UNCHANGED <<diskVars, stateVars, todo, back, removed, rewound, left, clock,
                   recordVars, earlier, want, target, used, reused, derived,
                   replaced, replacedOutputs, fallback, now, merged, lost,
                   counters, ghosts>>

Forget ==
    /\ todo' = {} /\ back' = Nothing /\ removed' = {} /\ rewound' = FALSE
    /\ left' = Nothing
    /\ earlier' = NoEarlier /\ want' = {} /\ target' = {} /\ used' = Nothing
    /\ reused' = {} /\ derived' = Nothing /\ replaced' = {}
    /\ replacedOutputs' = {} /\ fallback' = {} /\ now' = Nothing
    /\ merged' = NotMerged /\ stale' = {}
    /\ at' = "off"

Exit ==
    /\ at = "ended"
    /\ Forget
    /\ UNCHANGED <<diskVars, stateVars, clock, recordVars, lost, counters, ghosts>>

(* The edges whose inputs are written over and their derivation is not yet. *)
Halves == IF merged.done # "inputs" THEN {}
          ELSE {e \in DOMAIN merged.drv :
                   e \notin DOMAIN emitted.drv \/ emitted.drv[e] # merged.drv[e]}

Kill ==
    /\ at \notin {"off", "ended"} /\ kills < MaxKills
    /\ kills' = kills + 1
    /\ torn' = torn \cup Halves
    /\ Forget
    /\ UNCHANGED <<diskVars, stateVars, clock, recordVars, lost, passes, edits,
                   retries, fails, outside, latest, loose, touched>>

-----------------------------------------------------------------------------
(* Between passes: a hook writes, rewrites with the old stamp (touch -r),  *)
(* or deletes a file; the store collects a derivation; the build is tried  *)
(* again from the start.                                                   *)
Hook(p) ==
    /\ at = "off" /\ Later /\ edits < MaxEdits
    /\ edits' = edits + 1
    /\ touched' = touched \cup {p}
    /\ clock' = clock + 1
    /\ UNCHANGED torn

Told(p) == {f[2] : f \in {g \in files : g[1] = p /\ g[2] # Unknown}}

(* Does the file at p have the stamp placement gave it?                     *)
Placed(p) == \/ p \in DOMAIN journal.F /\ tree[p].stamp = journal.F[p]
             \/ p \in DOMAIN journal.O /\ tree[p].stamp = journal.O[p]

Write(p) ==
    /\ Hook(p) /\ In[p] \in dirs \cup {Root}
    /\ \E keeps \in {k \in BOOLEAN : k => p \in DOMAIN tree} :
          LET bytes == <<"hook", clock>>
              stamp == IF keeps THEN tree[p].stamp ELSE clock'
          IN /\ tree' = With(tree, p, File(bytes, stamp))
             /\ outside' = IF keeps /\ Placed(p) /\ Told(p) = {} THEN outside
                           ELSE With(outside, p, bytes)
             /\ latest' = With(latest, p, bytes)
    /\ fresh' = fresh \cup {p}
    /\ UNCHANGED <<dirs, stateVars, rewindVars, recordVars, passVars, lost,
                   passes, kills, retries, fails, loose>>

Delete(p) ==
    /\ Hook(p) /\ p \in DOMAIN tree
    /\ tree' = Less(tree, {p})
    /\ outside' = IF p \in DOMAIN journal.O THEN With(outside, p, originals[p])
                                            ELSE Less(outside, {p})
    /\ latest' = Less(latest, {p})
    /\ loose' = loose \cup ({p} \cap DOMAIN aside)
    /\ UNCHANGED <<dirs, fresh, stateVars, rewindVars, recordVars, passVars,
                   lost, passes, kills, retries, fails>>

Collect ==
    /\ at = "off" /\ Later /\ edits < MaxEdits
    /\ edits' = edits + 1
    /\ \E e \in DOMAIN emitted.drv : lost' = lost \cup {emitted.drv[e]}
    /\ UNCHANGED <<diskVars, stateVars, rewindVars, clock, recordVars, passVars,
                   passes, kills, retries, fails, ghosts>>

Retry ==
    /\ at = "off" /\ Later /\ attempt.kept /\ retries < MaxRetries
    /\ retries' = retries + 1
    /\ \E S \in SUBSET Patched :
          /\ outside' = [p \in DOMAIN Configured |->
                IF p \in S THEN <<"patched", p>> ELSE Configured[p]]
          /\ touched' = touched \cup S
    /\ latest' = outside'
    /\ tree' = Dated(outside') /\ dirs' = ConfiguredDirs
    /\ fresh' = {} /\ record' = None /\ originals' = Nothing
    /\ journal' = NoJournal /\ aside' = Nothing /\ gone' = {}
    /\ emitted' = NoRecord /\ inputs' = Nothing /\ files' = {}
    /\ loose' = {}
    /\ UNCHANGED <<rewindVars, clock, attempt, passVars,
                   lost, passes, edits, kills, fails, torn>>

Stopped == at = "off" /\ passes = MaxPasses /\ UNCHANGED vars

PassStep ==
    \/ Rewinds \/ WalkStep \/ Built \/ KeepStep \/ AllKept \/ PlaceStep
    \/ JournalStep \/ Fail \/ RecordStep \/ Report \/ Exit
    \/ \E e \in Edge : Reuse(e) \/ Derive(e)

Next ==
    \/ \E t \in Targets : Begin(t)
    \/ Refuse
    \/ PassStep
    \/ Kill
    \/ \E p \in Path : Write(p) \/ Delete(p)
    \/ Collect
    \/ Retry
    \/ Stopped

Spec == Init /\ [][Next]_vars

-----------------------------------------------------------------------------
(* A pass that reads the directory finds the files configure and hooks     *)
(* left, with nothing of what earlier passes placed, and no directory made *)
(* for it; only what a pass placed and ended before its journal may show.  *)
SeesConfigure ==
    at = "run" =>
        /\ \A p \in Path \ loose : Bytes(p) = Outside(p)
        /\ \A d \in dirs \ ConfiguredDirs :
              \E p \in DOMAIN tree \cup loose : d \in Above[p]

(* An output placed over an earlier one is what configure left there.      *)
AsConfigured(p) == /\ p \in DOMAIN journal.O \cap DOMAIN originals
                   /\ latest[p] = originals[p]

(* What was last written at a path, by a hook or by placement, is there or *)
(* set aside at every moment, and there when a pass has ended; but for an  *)
(* output that is again as configure left it, which gives way as           *)
(* configure's to the output before it.                                    *)
NothingLost ==
    /\ \A p \in DOMAIN latest :
          \/ Bytes(p) = latest[p]
          \/ p \in DOMAIN aside /\ aside[p].bytes = latest[p]
          \/ AsConfigured(p)
    /\ at = "ended" => aside = Nothing /\ gone = {}

(* The derivation recorded for e names another derivation of one of its    *)
(* makers than the record has: a pass replaced the maker and ended without *)
(* coming to e.                                                            *)
Split(e) == \E p \in Declared[e] \cap Made :
                \/ Maker(p) \notin DOMAIN earlier.drv
                \/ earlier.drv[e][2][p] # earlier.drv[Maker(p)]

(* What it is used with is what a new derivation would be given. *)
AsDerivedNow(e) ==
    \A p \in Declared[e] :
        used[e][2][p] = IF p \in Made THEN used[Maker(p)] ELSE Bytes(p)

(* A reused derivation was given what a new one would be, or is counted    *)
(* (reuse, pass_report); but for an edge over which a pass died between    *)
(* the two halves of its record: that one compares equal, and keeps the    *)
(* derivation it had.                                                      *)
ReuseSound ==
    at = "ended" /\ fallback = {} =>
        \A e \in reused \ (stale \cup torn) : Split(e) \/ AsDerivedNow(e)

(* The same where the record disagrees with itself: an input no exit has   *)
(* held yet is said to be counted by the exit.                             *)
ReuseCounted ==
    at = "ended" /\ fallback = {} => \A e \in reused \ stale : AsDerivedNow(e)

(* Nothing is counted stale unless a hook or a patch changed a file it, or *)
(* what it is made from, reads or writes.  Two cases are left out: a build *)
(* with a record outside the directory, whose retries compare with another *)
(* directory's files, and an edge that was recorded to have read           *)
(* configure's version of an output (the placeholder of a pass that did    *)
(* not place it), which the first exit with the real one counts.  So of    *)
(* edges that probe for no output configure has no version of: the README  *)
(* says why.                                                               *)
Around(e) == UNION {Declared[f] \cup Probes[f] \cup Outs[f] : f \in Needed(Outs[e])}

StaleNeedsAnEdit ==
    ~attempt.kept => \A e \in stale :
        \/ Around(e) \cap touched # {}
        \/ \E p \in DOMAIN InputsOf(e) \cap DOMAIN originals :
              InputsOf(e)[p] = originals[p]

=============================================================================
