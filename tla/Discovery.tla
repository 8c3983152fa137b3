------------------------------ MODULE Discovery ------------------------------
(* Which headers a compile reads, worked out while its derivation is       *)
(* built: what an earlier depfile says, else a scan of the include         *)
(* directives, with the preprocessor's answer where the scan is not        *)
(* enough; and which of them another edge has still to write.              *)
(*                                                                         *)
(* A directive [name, at, base, live] lists the places the compiler's      *)
(* search asks, in order, and the directory each is asked from.  A view is *)
(* what a walk takes the task to hold: the places it declares, and those   *)
(* whose file lies in the store already.                                   *)
EXTENDS TaskInputs

CONSTANT MacroArmScanCap

VARIABLE path_cache   \* what was found of each place asked, kept for the run

IsOnDisk(c)   == IF c \in DOMAIN path_cache THEN path_cache[c] ELSE OnDisk(c)
Resolves(v, c) == IF c \in v.declared THEN ~IsTree(c) ELSE IsOnDisk(c)
Reads(v, p)   == IF p \in v.stored \/ OnDisk(p) THEN world.directives[p] ELSE <<>>
Places(d, Ok(_)) == {i \in DOMAIN d.at : Ok(d.at[i])}

-----------------------------------------------------------------------------
(* The scan: each file once, in the order they are found *)

Answers(v, d) == Places(d, LAMBDA c : Resolves(v, c))
Hit(v, d)     == d.at[Min(Answers(v, d))]
Adding(acc, x) == IF x \in Elems(acc) THEN acc ELSE Append(acc, x)

HitsOf(v, found, p) ==
    FoldLeft(LAMBDA acc, d : IF Answers(v, d) = {} THEN acc ELSE Adding(acc, Hit(v, d)),
             found, Reads(v, p))
Scan(v, files) ==
    LET from[i \in Nat, found \in Seq(DOMAIN world.directives)] ==
            IF i > Len(found) THEN found ELSE from[i + 1, HitsOf(v, found, found[i])]
    IN from[1, files]

(* A computed include the scan cannot resolve asks the preprocessor, which *)
(* reads the disk, unless the source is still to be written.               *)
Preprocessed(e, files, scanned) ==
    LET computed == \E p \in Elems(scanned) : p \in world.computed /\ OnDisk(p)
        absent   == \E p \in Elems(world.explicit[e]) : Producer(p) # NoEdge /\ ~OnDisk(p)
    IN IF computed /\ ~absent THEN AddAll(scanned, world.preprocessed[e]) ELSE scanned

(* The depfile of an earlier pass answers when nothing it lists is newer.  *)
Older(p) == OnDisk(p) /\ Revision(p) = 0
ReadsBack(e, v, files) ==
    /\ world.earlier[e] # <<>>
    /\ \A p \in Elems(files) : Older(p)
    /\ \A h \in Elems(world.earlier[e]) :
          IF OnDisk(h) THEN Older(h) ELSE Is(h, "store") \/ h \in v.declared

(* Headers a macro names in one of its arms: two values, or one in angles. *)
Arms(declaring) ==
    LET all == UNION {world.arms[p] : p \in declaring}
        of(a) == {b \in all : b.macro = a.macro}
    IN {a.at : a \in {b \in all : Cardinality(of(b)) > 1 \/ b.angled}} \cap world.disk
WithArms(found) ==
    LET declaring == {p \in Elems(found) : OnDisk(p) /\ ~IsTree(p)}
    IN IF Cardinality(declaring) > MacroArmScanCap THEN found
       ELSE AddAll(found, SetToSeq(Arms(declaring)))

Includes(e, v, files) ==
    WithArms(IF ReadsBack(e, v, files) THEN AddAll(files, world.earlier[e])
             ELSE Preprocessed(e, files, Scan(v, files)))

-----------------------------------------------------------------------------
(* Deferral: a directive whose first answer is a file to be produced *)

Inside(c, T)     == \E t \in T : c \in world.inside[t]
Indexed(c)       == Producer(c) # NoEdge
Makings(t)       == {n \in {t} \cup world.inside[t] : Indexed(n)}
MadeTrees        == {t \in DOMAIN world.inside : Makings(t) # {}}
Within(c)        == {t \in MadeTrees : c \in world.inside[t]}
Maker(c)         == IF Indexed(c) THEN c
                    ELSE CHOOSE n \in UNION {Makings(t) : t \in Within(c)} : TRUE
Held(v, trees, c) == Inside(c, trees) \/ c \in v.declared

(* A tree answers for what lies in it when it is asked from outside: a     *)
(* module's tree is an include directory too, and every name it does not   *)
(* have would be one it makes.                                             *)
InTree(b)  == b \in MadeTrees \cup UNION {world.inside[t] : t \in MadeTrees}
Made(d, i) == Indexed(d.at[i]) \/ (Within(d.at[i]) # {} /\ ~InTree(d.base[i]))

(* The first place that answers, and whether it is one to be produced. *)
Answering(v, trees, d) ==
    {i \in DOMAIN d.at : Held(v, trees, d.at[i]) \/ Made(d, i) \/ IsOnDisk(d.at[i])}
MissedOffDisk(v, trees, d) ==
    /\ Places(d, LAMBDA c : Held(v, trees, c) \/ IsOnDisk(c)) = {}
    /\ \E i \in DOMAIN d.at : Made(d, i)
Missed(v, trees, d) ==
    LET answers == Answering(v, trees, d)
    IN answers # {} /\ ~Held(v, trees, d.at[Min(answers)]) /\ Made(d, Min(answers))
MissedAt(v, trees, d) == d.at[Min(Answering(v, trees, d))]

(* Every file walked, every spelling once. *)
Spelling(acc, d)   == IF \E i \in DOMAIN acc : acc[i].name = d.name THEN acc ELSE Append(acc, d)
Spellings(v, walk) == FoldLeft(LAMBDA acc, p : FoldLeft(Spelling, acc, Reads(v, p)), <<>>, walk)
Candidates(v, trees, walk) ==
    Among(Spellings(v, walk), LAMBDA d : Missed(v, trees, d))

(* What a compile reads of the places it has: what its live directives     *)
(* find, and the names of those they do not.                               *)
Live(p) == {d \in Elems(world.directives[p]) : d.live}
Compiled(have, tu) ==
    LET hits  == [p \in DOMAIN world.directives |-> {d \in Live(p) : Places(d, LAMBDA c : c \in have) # {}}]
        reads == Reached(tu \cap have,
                         [p \in DOMAIN hits |-> {d.at[Min(Places(d, LAMBDA c : c \in have))] : d \in hits[p]}])
    IN [at   |-> tu \cup reads,
        lost |-> {d.name : d \in UNION {Live(p) \ hits[p] : p \in reads}}]
CompileReads(e, have) == Compiled(have, Elems(world.explicit[e]))

(* The view the preprocessor runs on: the inputs in the build directory,   *)
(* and the sources outside it as they are.  It goes on without a header it *)
(* does not find, and fails where a condition needs what the header says;  *)
(* a run that fails tells nothing of what is live, and every candidate     *)
(* stays.                                                                  *)
Fails(e, reads) == reads.lost \cap world.needed[e] # {}
Confirmed(e, v, trees, inputs, cands) ==
    LET have  == DOMAIN inputs \cup (world.disk \cap world.sources)
        reads == CompileReads(e, have)
    IN Among(cands, LAMBDA d : \/ Fails(e, reads)
                               \/ d.name \in reads.lost
                               \/ MissedAt(v, trees, d) \in reads.at)

Unbuilt(inputs) == \E p \in DOMAIN inputs : inputs[p].by \in world.broken

Defers(e, v, trees, inputs, files, found) ==
    LET walk  == AddAll(files, Among(found, LAMBDA p : ~Is(p, "store")))
        cands == Candidates(v, trees, walk)
        live  == Confirmed(e, v, trees, inputs, cands)
    IN IF Unbuilt(inputs) THEN {} ELSE {Maker(MissedAt(v, trees, live[i])) : i \in DOMAIN live}

-----------------------------------------------------------------------------
(* The answer.  Declared seeds are held already, a declared header that is *)
(* still to be written has nothing to upload, and a file of the host is    *)
(* not the build's to carry.                                               *)

(* What the command forces into the unit, where the preprocessor finds it. *)
Forced(e) ==
    LET names == Values(e, "-include")
    IN AddAll(<<>>, FlattenSeq([i \in DOMAIN names |->
                      SetToSeq(FirstUnder(<<world.top>> \o Values(e, "-I"), names[i]))]))

Carries(v, files, forced, p) ==
    /\ p \notin Elems(files) \ Elems(forced)
    /\ ~Is(p, "store") /\ p \notin world.host
    /\ ~(p \in v.declared /\ ~OnDisk(p))

UploadsOf(P) == {File(p, Upload(p)) : p \in P}
Found(e, v, trees, inputs, files, forced, index) ==
    LET found   == Includes(e, v, files)
        uploads == Among(found, LAMBDA p : Carries(v, files, forced, p))
    IN [deps   |-> UploadsOf(Elems(uploads)),
        store  |-> {p \in Elems(found) : Is(p, "store")} \ Elems(files),
        defer  |-> IF index THEN Defers(e, v, trees, inputs, files, found) ELSE {},
        absent |-> Elems(uploads) \ world.disk]

(* An answer that an earlier attempt at this build banked is given again,  *)
(* before anything is read and with no deferral, while its seeds are as    *)
(* they were then; of what it lists nothing is asked.                      *)
Unmoved(b)  == \A p \in b.seeds : OnDisk(p) = (p \in b.present) /\ Revision(p) = 0
Banked(e, v, trees, files) ==
    {b \in world.banked[e] : /\ b.view = v /\ b.trees = trees
                             /\ b.seeds = Elems(files) /\ Unmoved(b)}
Replayed(b) == [deps |-> UploadsOf(b.deps), store |-> b.store, defer |-> {}, absent |-> {}]

Discovered(e, v, trees, inputs, seeds, index) ==
    LET forced == Forced(e)
        files  == AddAll(seeds, forced)
        hits   == Banked(e, v, trees, files)
    IN IF hits # {} THEN Replayed(CHOOSE b \in hits : TRUE)
       ELSE Found(e, v, trees, inputs, files, forced, index)

(* The places a scan asked of the disk, with what it found. *)
Asked(v, found) ==
    LET ds    == UNION {Elems(Reads(v, p)) : p \in Elems(found)}
        until(d) == IF Answers(v, d) = {} THEN DOMAIN d.at ELSE 1..Min(Answers(v, d))
    IN UNION {{d.at[i] : i \in until(d)} : d \in ds} \ v.declared
==============================================================================
