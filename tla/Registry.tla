------------------------------ MODULE Registry -------------------------------
(* What the Runner knows of the files of a build while edges start and     *)
(* finish: which object stands for a file, what a phony name stands for,   *)
(* which outputs travel together, and what a stamp recorded.               *)
(*                                                                         *)
(* `world` is the build: the graph, what each command says, and the files  *)
(* configure left on disk.  A path is named by its place in the tree, so   *)
(* two spellings of a place are one path here; `spelt` holds the names     *)
(* under which the graph knows a place outside the build directory.        *)
EXTENDS Naturals, SequencesExt

CONSTANTS Path,    \* the places of the tree, by which its files are named
          Edge,    \* BuildId
          Disk,    \* stands for an upload of the file on disk
          NoEdge,  \* File.input of a file that no edge writes
          Worlds   \* the builds to run

ASSUME RegistryAssumption == Disk \notin Edge /\ NoEdge \notin Edge
ASSUME PathAssumption     == IsFiniteSet(Path) /\ \A p \in Path : <<p>> \notin Path

VARIABLES world,
          rev,            \* how often each file was rewritten on disk
          nodes,          \* GraphFiles: the names the graph knows
          derived_files,  \* FileId -> DerivedFile
          phony_aliases,  \* FileId -> the ordering inputs of its phony edge
          stamp_inputs,   \* FileId -> the dirtying inputs of its stamp edge
          stamp_records,  \* FileId -> StampRecord
          co_outputs,     \* FileId -> the files its edge writes with it
          soname_links, gir_includes, runtime_lib_deps,
          path_defines,   \* FileId -> the directories its defines name
          py_closures     \* CLOSURE_MEMO: directory -> its closure, as first found

registry == <<nodes, derived_files, phony_aliases, stamp_inputs, stamp_records,
              co_outputs, soname_links, gir_includes, runtime_lib_deps,
              path_defines, py_closures>>

At(f, n)      == IF n \in DOMAIN f THEN f[n] ELSE <<>>
AllAt(f, s)   == FlattenSeq([i \in DOMAIN s |-> At(f, s[i])])
Elems(s)      == {s[i] : i \in DOMAIN s}
Given(K, v)   == [k \in K |-> v]
Among(s, Ok(_)) == SelectSeq(s, Ok)
AddAll(s, t)  == FoldLeft(LAMBDA acc, x : IF x \in Elems(acc) THEN acc ELSE Append(acc, x), s, t)

(* Everything that references lead to from the seeds.  A file that is not  *)
(* on disk refers to nothing, and a file that is met again is passed over. *)
Reached(seeds, refs) ==
    LET with[found \in SUBSET (seeds \cup UNION Range(refs))] ==
            LET more == UNION {refs[p] : p \in found \cap DOMAIN refs}
            IN IF more \subseteq found THEN found ELSE with[found \cup more]
    IN with[seeds]

(* A worklist: the last item that is put on it is the next to be visited,  *)
(* and one whose tag was met before is passed over.  The items visited, in *)
(* that order; no more than there are tags.                                *)
Visits(Tags, start, met, Tag(_), Next(_)) ==
    LET Visit(w) ==
            LET left == Among(w.stack, LAMBDA x : Tag(x) \notin w.met)
                x    == Last(left)
            IN IF left = <<>> THEN w
               ELSE [stack |-> Front(left) \o Next(x), met |-> w.met \cup {Tag(x)},
                     order |-> Append(w.order, x)]
    IN FoldSet(LAMBDA t, w : Visit(w), [stack |-> start, met |-> met, order |-> <<>>], Tags).order

Key == Path \cup {<<p>> : p \in Path}
KeysFrom(start, Next(_)) == Key \cap Reached(Elems(start), [k \in Key |-> Elems(Next(k))])

-----------------------------------------------------------------------------
(* The graph *)

Outs(e)     == Elems(world.outs[e])
Says(e, t)  == t \in world.tags[e]
Is(p, t)    == p \in DOMAIN world.shape /\ t \in world.shape[p]
IsTree(p)   == Is(p, "tree")
OnDisk(p)   == p \in world.disk
Producer(n) == IF \E e \in Edge : n \in Outs(e) /\ ~Says(e, "phony")
               THEN CHOOSE e \in Edge : n \in Outs(e) /\ ~Says(e, "phony")
               ELSE NoEdge

(* The words of a command, option by option, and places: the directory of  *)
(* a path, the directories there are, what the project's tree holds.       *)
Values(e, opt) == LET ws == SelectSeq(world.argv[e], LAMBDA w : w.opt = opt)
                  IN [i \in DOMAIN ws |-> ws[i].at]
Named(e, opt)  == Elems(Values(e, opt))
Dir(p)         == IF p \in DOMAIN world.dir THEN world.dir[p] ELSE world.top
Dirs(P)        == P \cap DOMAIN world.under
InProject(P)   == {p \in P : ~Is(p, "store") /\ ~Is(p, "foreign")}

(* The object an upload makes of a file on disk now, and the object that   *)
(* stands for what an edge writes.                                         *)
Content(p)   == IF p \in DOMAIN world.content THEN world.content[p] ELSE p
Revision(p)  == IF p \in DOMAIN rev THEN rev[p] ELSE 0
Upload(p)    == [by |-> Disk, what |-> Content(p), rev |-> Revision(p), raw |-> FALSE]
Output(e, p) == [by |-> e, what |-> p, rev |-> 0, raw |-> FALSE]
IsBuilt(o)   == o.by # Disk
File(p, o)   == [path |-> p, obj |-> o]

-----------------------------------------------------------------------------
(* Registration *)

(* The node a registered path belongs to.  A directory is keyed apart from *)
(* the graph's node of the same name; a place the graph knows under        *)
(* another spelling is that node.                                          *)
KeyOf(known, p) ==
    CASE IsTree(p)                                          -> <<p>>
      [] ~IsTree(p) /\ p \notin known /\ p \in DOMAIN world.spelt -> world.spelt[p]
      [] OTHER                                              -> p

(* The first registration of a node stays. *)
Rewritten(reg, k, f) == [n \in DOMAIN reg \cup {k} |-> IF n = k THEN f ELSE reg[n]]
Registered(reg, known, f) ==
    LET k == KeyOf(known, f.path) IN IF k \in DOMAIN reg THEN reg ELSE Rewritten(reg, k, f)
AllRegistered(reg, known, F) ==
    [k \in DOMAIN reg \cup {KeyOf(known, f.path) : f \in F} |->
        IF k \in DOMAIN reg THEN reg[k] ELSE CHOOSE f \in F : KeyOf(known, f.path) = k]

(* The edge that produces a node owns it, as does a later step that edits  *)
(* a tree in place.                                                        *)
SupersedesTreesOnly(edited, k, e) == edited
Supersedes(edited, k, e) == edited \/ Producer(k) = e
Recorded(reg, known, r, f) ==
    LET k == KeyOf(known, f.path) IN
    IF Supersedes(f.path \in r.dirs, k, r.edge)
    THEN Rewritten(reg, k, f)
    ELSE Registered(reg, known, f)

Rides(r, p) == IsTree(p) \/ p \in r.dirs \/ p \in r.side

(* What a result registers, and the co-outputs it adds: a file the graph   *)
(* has no node for reaches consumers by riding a declared output.          *)
RecordAll(reg, known, r) ==
    FoldLeft(LAMBDA acc, f : Recorded(acc, known, r, f), reg, r.files)
Riding(co, known, r) ==
    LET key(f) == KeyOf(known, f.path)
        riding == SelectSeq(r.files, LAMBDA f : Rides(r, f.path))
        riders == [i \in DOMAIN riding |-> key(riding[i])]
        real   == {key(f) : f \in Elems(r.files) \ Elems(riding)}
    IN IF riders = <<>> THEN co
       ELSE [n \in real |-> AddAll(IF n \in DOMAIN co THEN co[n] ELSE <<n>>, riders)] @@ co

-----------------------------------------------------------------------------
(* Registry records that start makes before it resolves the edge *)

(* A phony name stands for its inputs, unless it has none and names a file *)
(* that configure left on disk.                                            *)
PhonyNames(e) == {n \in Outs(e) : world.ordering[e] # <<>> \/ ~OnDisk(n)}

Siblings(co, e) ==
    IF Len(world.outs[e]) < 2 THEN co
    ELSE [n \in Outs(e) |-> AddAll(At(co, n), world.outs[e])] @@ co

Libraries(e) == Among(world.dirtying[e], LAMBDA n : Is(n, "lib"))
PathDefined(e) == Dirs(InProject(Named(e, "-D")))
Defines(e)   == Elems(AllAt(path_defines, world.dirtying[e])) \cup PathDefined(e)
GirIncluded(e) == Among(Values(e, "--include-uninstalled"), LAMBDA n : n \in nodes)

StampStep(e) == Says(e, "stamp") \/ Says(e, "step")

(* The maps as the edge's own task reads them, its own records made. *)
StampInputs(e)   == IF StampStep(e) THEN Given(Outs(e), world.dirtying[e]) @@ stamp_inputs
                    ELSE stamp_inputs
SonameLinks(e)   == IF Says(e, "soname")
                    THEN (Head(world.explicit[e]) :> world.outs[e]) @@ soname_links
                    ELSE soname_links
GirIncludes(e)   == IF GirIncluded(e) = <<>> THEN gir_includes
                    ELSE Given({n \in Outs(e) : Is(n, "gir")}, GirIncluded(e)) @@ gir_includes
RuntimeLibs(e)   == IF Libraries(e) = <<>> THEN runtime_lib_deps
                    ELSE Given(Outs(e), Libraries(e)) @@ runtime_lib_deps
PathDefines(e)   == IF Defines(e) = {} THEN path_defines
                    ELSE Given(Outs(e), SetToSeq(Defines(e))) @@ path_defines

Records(e) ==
    /\ stamp_inputs'     = StampInputs(e)
    /\ soname_links'     = SonameLinks(e)
    /\ gir_includes'     = GirIncludes(e)
    /\ runtime_lib_deps' = RuntimeLibs(e)
    /\ path_defines'     = PathDefines(e)

-----------------------------------------------------------------------------
(* The concrete files a target stands for.  A node with a file stands for  *)
(* that file and what its edge writes with it; a phony name for its inputs.*)

FilesOf(names) ==
    LET known == Among(names, LAMBDA n : n \in DOMAIN derived_files)
    IN [i \in DOMAIN known |-> derived_files[known[i]]]
Behind(n) == IF n \in DOMAIN derived_files THEN At(co_outputs, n) ELSE At(phony_aliases, n)

ResolvedAlone(stack) == FilesOf(stack)
Resolve(stack) == FilesOf(Visits(KeysFrom(stack, Behind), stack, {}, LAMBDA n : n, Behind))

ResolveTarget(n) == Resolve(<<n>>)
==============================================================================
