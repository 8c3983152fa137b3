----------------------------- MODULE TaskInputs ------------------------------
(* new_task: how the inputs of an edge are worked out when it starts.  One *)
(* pass over the edge, stage by stage and in the order of the code; each   *)
(* stage maps the record `s` of the work so far to the next one.           *)
(*                                                                         *)
(* Where the answer of a reader goes, what may already be there, and what  *)
(* is dropped or bound again after it.                                     *)
EXTENDS Writers

CONSTANT ImplicitLimit   \* NIX_NINJA_IMPLICIT_INPUTS_LIMIT

Idle(e) ==
        [reg |-> derived_files, known |-> nodes, co |-> Siblings(co_outputs, e),
         inputs |-> <<>>, covered |-> {}, merged |-> <<>>,
         links |-> {}, store |-> {}, args |-> <<>>, members |-> <<>>, rsp |-> FALSE,
         moc |-> <<>>, defer |-> {}, err |-> FALSE, py |-> py_closures,
         walk |-> [d \in DOMAIN world.under |-> PyClosure(d)]]

-----------------------------------------------------------------------------
(* Uploads.  A file taken for an input is registered, unless its node has  *)
(* a registration, and replaces what the input set holds for its path.     *)

TookAs(s, F) ==
    [s EXCEPT !.reg    = AllRegistered(@, s.known, {File(p, F[p]) : p \in DOMAIN F}),
              !.known  = @ \cup {KeyOf(s.known, p) : p \in DOMAIN F},
              !.inputs = F @@ @]
Took(s, P)    == TookAs(s, [p \in P |-> Upload(p)])
Filled(s, P)  == Took(s, P \ DOMAIN s.inputs)
Put(s, f)     == [s EXCEPT !.inputs = (f.path :> f.obj) @@ @]
PutAll(s, F)  ==
    [s EXCEPT !.inputs = [p \in {f.path : f \in F} |-> (CHOOSE f \in F : f.path = p).obj] @@ @]
Failed(s)     == [s EXCEPT !.err = TRUE]

(* The closure of a directory of scripts is worked out once in a run, and  *)
(* its files are from then on what they were at that time.                 *)
ClosureOf(s, d) == IF d \in DOMAIN s.py THEN s.py[d] ELSE s.walk[d]
ClosureFiles(s, D) ==
    LET with(p) == {d \in D : p \in DOMAIN ClosureOf(s, d).files}
    IN [p \in UNION {DOMAIN ClosureOf(s, d).files : d \in D} |->
          ClosureOf(s, CHOOSE d \in with(p) : TRUE).files[p]]
Walked(s, D)  == [s EXCEPT !.py = [d \in DOMAIN @ \cup D |-> ClosureOf(s, d)]]
PyRefused(s, D) == {d \in D : ClosureOf(s, d).refused}

TookFiles(s, P) ==
    IF ~P \subseteq world.disk \/ PyRefused(s, ScriptDirs(P)) # {} THEN Failed(s)
    ELSE TookAs(Walked(Took(s, P), ScriptDirs(P)), ClosureFiles(s, ScriptDirs(P)))
TookFile(s, p) == TookFiles(s, {p})
TookDirs(s, D) ==
    IF \E d \in D : TreeRefused(d) THEN Failed(s) ELSE Took(s, UNION {TreeFiles(d) : d \in D})
FilledDirs(s, D) ==
    IF \E d \in D : TreeRefused(d) THEN Failed(s) ELSE Filled(s, UNION {TreeFiles(d) : d \in D})
Dropped(s, P)  == [s EXCEPT !.inputs = [p \in DOMAIN @ \ P |-> @[p]]]

(* The files an edge's own outputs name, and the depfile it writes. *)
SelfOutputs(e) == Outs(e) \cup world.depfile[e]

-----------------------------------------------------------------------------
(* The worklist of declared inputs and of what they stand for *)

Items(q, v)  == [i \in DOMAIN q |-> [n |-> q[i], via |-> v]]
NameOf(item) == item.n

(* Configure's library aliases are roots of a task that handles shared     *)
(* libraries: the alias's target is made by an edge.                       *)
AliasRoots(e) ==
    LET shared == \E n \in Elems(world.ordering[e]) \cup Outs(e) : Is(n, "shared")
    IN IF Says(e, "cc") \/ ~shared THEN <<>>
       ELSE Among(world.aliases, LAMBDA n : n \in nodes)

(* A stamp's record fills what the set lacks.  A compile takes headers of  *)
(* it only.                                                                *)
Merged(e, n, s) ==
    IF n \notin DOMAIN stamp_records \/ n \in s.covered THEN s
    ELSE LET rec  == stamp_records[n]
             more == [p \in {q \in DOMAIN rec.files : Says(e, "cc") => Is(q, "header")}
                        |-> rec.files[p]]
         IN [s EXCEPT !.covered = @ \cup rec.covers,
                      !.merged  = Append(@, n),
                      !.inputs  = @ @@ more]

Beside(e, n, s) ==
    LET libs == At(RuntimeLibs(e), n) IN
    At(StampInputs(e), n)
      \o Among(At(s.co, n), LAMBDA m : m # n)
      \o IF Says(e, "cc") THEN <<>>
         ELSE At(GirIncludes(e), n) \o libs \o AllAt(SonameLinks(e), libs)

(* A compile drops the artifacts a phony name brings that are not headers  *)
(* and that its source does not include.                                   *)
Included(p) == UNION {Elems(d.at) : d \in Elems(world.directives[p])}
Unread(e, item) ==
    /\ item.via /\ Says(e, "cc")
    /\ item.n \notin Elems(world.ordering[e])
    /\ ~Is(item.n, "header") /\ ~IsTree(item.n)
    /\ item.n \notin UNION {Included(p) : p \in Elems(world.explicit[e])}
    /\ Is(item.n, "artifact")

(* A declared source that is a symbolic link is carried as the link and    *)
(* the file it leads to.                                                   *)
IsSourceLink(e, n) ==
    /\ Producer(n) = NoEdge /\ n \in DOMAIN world.link
    /\ n \in Elems(world.ordering[e]) /\ ~Says(e, "cc")

Input(e, item, s) ==
    LET n == item.n IN
    CASE IsSourceLink(e, n)  -> [TookFile(s, world.link[n]) EXCEPT !.links = @ \cup {n}]
      [] ~IsSourceLink(e, n) /\ n \in DOMAIN s.reg -> Put(s, s.reg[n])
      [] OTHER -> IF item.via /\ ~OnDisk(n) THEN s
                  ELSE IF Is(n, "store") THEN [s EXCEPT !.store = @ \cup {n}]
                  ELSE TookFile(s, n)

(* A phony name stands for its inputs; another input brings what belongs   *)
(* to it.                                                                  *)
Brings(e, s, n) ==
    IF n \in DOMAIN phony_aliases THEN phony_aliases[n] ELSE Beside(e, n, s)
Visited(e, item, s) ==
    LET more == Merged(e, item.n, s)
    IN CASE item.n \in DOMAIN phony_aliases -> s
         [] OTHER -> IF Unread(e, item) THEN more ELSE Input(e, item, more)

Queued(e)   == Items(world.ordering[e], FALSE) \o Items(AliasRoots(e), TRUE)
Order(e, s) ==
    LET start == Queued(e)
        Next(n) == Brings(e, s, n)
    IN Visits(KeysFrom([i \in DOMAIN start |-> start[i].n], Next), start, {}, NameOf,
              LAMBDA item : Items(Next(item.n), TRUE))
Drained(e, s) == FoldLeft(LAMBDA acc, item : Visited(e, item, acc), s, Order(e, s))

-----------------------------------------------------------------------------
(* What the command line names *)

(* A response file on disk: the files and directories it lists.  syncqt's  *)
(* headers travel with its outputs from then on; moc's headers are walked  *)
(* later when the build writes one of them.                                *)
WithRsp(e, s, listed) ==
    LET rides == SetToSeq({KeyOf(s.known, f) : f \in Files(listed)})
        heads == SetToSeq({f \in listed : Is(f, "header")})
    IN [s EXCEPT
          !.rsp = TRUE,
          !.co  = IF Says(e, "syncqt") /\ rides # <<>>
                  THEN [n \in Outs(e) |->
                          AddAll(IF n \in DOMAIN @ THEN @[n] ELSE <<n>>, rides)] @@ @
                  ELSE @,
          !.moc = IF Says(e, "moc") /\ \E h \in Elems(heads) : Producer(h) # NoEdge
                  THEN heads ELSE @]
RspFile(e, s, p) ==
    IF Says(e, "rspfile") \/ s.rsp \/ ~OnDisk(p) THEN s
    ELSE WithRsp(e, TookDirs(TookFiles(s, Files(world.rsp[p])), Dirs(world.rsp[p])), world.rsp[p])

(* A word that the graph knows. *)
NodeArg(s, p) ==
    LET named == [s EXCEPT !.args = Append(@, p)] IN
    CASE p \in DOMAIN s.reg     -> Put(named, s.reg[p])
      [] p \notin DOMAIN s.reg /\ p \in world.configured -> Put(named, File(p, Upload(p)))
      [] OTHER -> IF Producer(p) = NoEdge /\ OnDisk(p) THEN TookFile(named, p) ELSE named

(* A word that it does not know: a file, a directory outside the build, an *)
(* interface file whose directory is read, or a name under the first       *)
(* output's directory.                                                     *)
OtherWord(e, s, w) ==
    CASE w.as = "rsp"    -> RspFile(e, s, w.path)
      [] w.as = "file"   -> IF OnDisk(w.path) THEN TookFile(s, w.path) ELSE s
      [] w.as = "dir"    -> IF w.path \in DOMAIN world.under THEN TookDirs(s, {w.path}) ELSE s
      [] OTHER           -> IF w.path \in s.known THEN [s EXCEPT !.args = Append(@, w.path)]
                            ELSE IF OnDisk(w.path) THEN TookFile(s, w.path) ELSE s

Word(e, s, w) ==
    IF w.path \in s.known /\ w.as # "beside" THEN NodeArg(s, w.path) ELSE OtherWord(e, s, w)
Words(e, s)   ==
    FoldLeft(LAMBDA acc, w : Word(e, acc, w),
             TookDirs([s EXCEPT !.args = Among(Values(e, "--deps"), LAMBDA p : p \in s.known)], SchemaDirs(e)),
             world.words[e])

(* The readers: the trees they walk, the headers of an introspection scan  *)
(* that other edges write, and last of all the files.                      *)
TreeReaders(e, s) == [TookDirs(s, TreesRead(e)) EXCEPT !.store = @ \cup StoresBelow(MeinprocTree(e))]
Written(s)        == {f \in {s.reg[k] : k \in DOMAIN s.reg} : IsBuilt(f.obj)}
ScanHeaders(e, s) == GirHeaders(e, {f.path : f \in Written(s)})
HeaderReaders(e, s) ==
    PutAll(s, {f \in Written(s) : f.path \in ScanHeaders(e, s)})
FileReaders(e, s) ==
    TookFiles(s, Referenced(e) \cup ReferencedFile(ScanHeaders(e, s) \ {f.path : f \in Written(s)}))

(* A test run at build time opens what its compiles were told of. *)
TestDirs(e, s) ==
    IF ~Says(e, "gtest") THEN s
    ELSE TookDirs(s, Elems(AllAt(PathDefines(e), world.outs[e])) \cap DOMAIN world.under)

(* What a named output's edge writes with it. *)
PutNode(s, n)    == IF n \in DOMAIN s.reg THEN Put(s, s.reg[n]) ELSE s
NamedOrder(s)    ==
    LET Next(n) == At(s.co, n)
    IN Visits(KeysFrom(s.args, Next), s.args, {}, LAMBDA n : n, Next)
WordsExpanded(s) == FoldLeft(PutNode, s, NamedOrder(s))

(* Everything configure left, when that is little. *)
Blanket(e, s) ==
    IF Says(e, "cc") \/ Cardinality(world.configured) > ImplicitLimit THEN s
    ELSE PutAll(s, {File(p, [Upload(p) EXCEPT !.rev = 0]) : p \in world.configured})

-----------------------------------------------------------------------------
(* What the edge itself writes is no input of it *)

OwnDropped(e, s)     == Dropped(s, SelfOutputs(e))
AutogenDropped(e, s) == Dropped(s, AutogenOwn(e, SelfOutputs(e), DOMAIN s.inputs))
SyncqtDropped(e, s)  == Dropped(s, SyncqtEarlier(SelfOutputs(e), DOMAIN s.inputs))

-----------------------------------------------------------------------------
(* Files the inputs lead to, each taken unless the set has its path *)

FillOne(s, f) == IF f.path \in DOMAIN s.inputs THEN s ELSE Put(s, f)

(* Scripts beside a script.  They are registered by the first task that    *)
(* meets the directory only, which the registration makes no matter of.    *)
PythonSiblings(e, s) ==
    LET dirs == ScriptDirs(Files(DOMAIN s.inputs)) \cup ModuleDirs(e)
        kept == dirs \ PyRefused(s, dirs)
        more == ClosureFiles(s, kept)
    IN IF \E d \in dirs \ kept : ~Large(d) THEN Failed(s)
       ELSE TookAs(Walked(s, kept), [p \in DOMAIN more \ DOMAIN s.inputs |-> more[p]])

RootSrcJoins(e, s) ==
    Filled(s, Files(RootJoins(e, DOMAIN s.inputs)))

(* Generated protocol modules, through the graph. *)
MadeOrder(s, stack) ==
    LET made(q) == Among(q, LAMBDA n : n \in DOMAIN s.reg)
        Next(n) == made(Among(At(s.co, n), LAMBDA m : m # n))
        PathOf(n) == s.reg[n].path
    IN Visits(KeysFrom(made(stack), Next), made(stack), DOMAIN s.inputs, PathOf, Next)
Carried(s, stack) == FoldLeft(PutNode, s, MadeOrder(s, stack))

ProtoModules(e, s) ==
    Carried(s, SetToSeq({n \in s.known : Is(n, "py") /\ Producer(n) # NoEdge
                                         /\ Dir(n) \in BinaryProtoPaths(e)}))

PyDeps(e, s) == Filled(s, Files(PyDepsLists(e)))

NodePackages(s) ==
    LET bins == BinPackages(DOMAIN s.inputs) IN FilledDirs(s, NodeDeps(bins \cup Plugins(bins)))

(* Files named to the linker: a produced one is the producer's. *)
LinkerWord(s, w) ==
    LET p == w.at IN
    IF w.opt # "-Wl" THEN s
    ELSE IF Producer(p) # NoEdge /\ p \in DOMAIN s.reg THEN FillOne(s, s.reg[p])
    ELSE IF OnDisk(p) THEN Filled(s, {p}) ELSE s
LinkerWords(e, s) == FoldLeft(LinkerWord, s, world.argv[e])

Templates(s) ==
    LET dirs == {d \in DOMAIN world.under :
                   \E p \in DOMAIN s.inputs : Is(p, "template") /\ OnDisk(p) /\ p \in world.under[d]}
    IN Filled(s, {p \in UNION {world.under[d] : d \in dirs} : Is(p, "template")})

(* A resource list names files.  One that is produced and not registered   *)
(* defers the edge and ends the list; an edge's own file does not.         *)
Missing(e, s, p) ==
    /\ p \notin DOMAIN s.inputs /\ p \notin Outs(e)
    /\ p \in s.known /\ p \notin DOMAIN s.reg /\ Producer(p) # NoEdge
AllCarried(e, s, read) ==
    FoldLeft(LAMBDA acc, p : IF p \in Outs(e) THEN acc ELSE Carried(acc, <<p>>), s, read)
Members(e, s, P) ==
    LET q       == SetToSeq(P \cap Path)
        missing == {i \in DOMAIN q : Missing(e, s, q[i])}
        read    == SubSeq(q, 1, IF missing = {} THEN Len(q) ELSE Min(missing) - 1)
        t       == AllCarried(e, s, read)
    IN IF missing = {} THEN t ELSE [t EXCEPT !.defer = {q[Min(missing)]}]

Lists(s)    == {p \in DOMAIN s.inputs : Is(p, "list")}
Readable(s, p) == OnDisk(p) \/ (p \in DOMAIN s.reg /\ IsBuilt(s.reg[p].obj) /\ world.local)

ReadList(e, w, g) ==
    LET s   == w.s
        new == GrdCarries(g) \ DOMAIN s.inputs
    IN IF Readable(s, g)
       THEN [s    |-> Members(e, Filled(s, new), GrdCandidates(g)),
             todo |-> (w.todo \ {g}) \cup {p \in new : Is(p, "list")}]
       ELSE IF world.local /\ Producer(g) # NoEdge
       THEN [s |-> [s EXCEPT !.defer = {g}], todo |-> {}]
       ELSE [w EXCEPT !.todo = @ \ {g}]
NextList(e, w) == IF w.todo = {} THEN w ELSE ReadList(e, w, CHOOSE x \in w.todo : TRUE)
Listed(e, s) ==
    FoldSet(LAMBDA p, w : NextList(e, w), [s |-> s, todo |-> Lists(s)],
            {p \in Path : Is(p, "list")}).s
ResourceLists(e, s) == Listed(e, s)

ResourceIds(e, s) == Filled(s, SpecFiles(e, DOMAIN s.inputs))
QrcMembers(e, s)  == Members(e, s, QrcCandidates(e))

-----------------------------------------------------------------------------
(* The end of the pass *)

(* An upload of a path that another edge has written is that edge's file.  *)
NotRebound(s) == s
Rebound(s) ==
    [s EXCEPT !.inputs =
       [p \in DOMAIN @ |->
          LET k == KeyOf(s.known, p) IN
          IF /\ ~IsBuilt(@[p]) /\ Producer(k) # NoEdge
             /\ k \in DOMAIN s.reg /\ IsBuilt(s.reg[k].obj)
          THEN s.reg[k].obj ELSE @[p]]]

Swept(e, s) == Dropped(s, CCodeWrites(e) \cup s.links)

(* The stages in the order of the code. *)
Stages == <<"declared", "words", "trees", "headers", "tests", "files", "beside", "blanket",
            "own", "autogen", "syncqt", "scripts", "joins", "proto", "pydeps", "packages",
            "linker", "templates", "lists", "spec", "qrc", "rebind", "sweep">>
Stage(e, s, stage) ==
    CASE stage = "declared"  -> Drained(e, s)
      [] stage = "words"     -> Words(e, s)
      [] stage = "files"     -> FileReaders(e, s)
      [] stage = "trees"     -> TreeReaders(e, s)
      [] stage = "headers"   -> HeaderReaders(e, s)
      [] stage = "tests"     -> TestDirs(e, s)
      [] stage = "beside"    -> WordsExpanded(s)
      [] stage = "blanket"   -> Blanket(e, s)
      [] stage = "own"       -> OwnDropped(e, s)
      [] stage = "autogen"   -> AutogenDropped(e, s)
      [] stage = "syncqt"    -> SyncqtDropped(e, s)
      [] stage = "scripts"   -> PythonSiblings(e, s)
      [] stage = "joins"     -> RootSrcJoins(e, s)
      [] stage = "proto"     -> ProtoModules(e, s)
      [] stage = "pydeps"    -> PyDeps(e, s)
      [] stage = "packages"  -> NodePackages(s)
      [] stage = "linker"    -> LinkerWords(e, s)
      [] stage = "templates" -> Templates(s)
      [] stage = "lists"     -> ResourceLists(e, s)
      [] stage = "spec"      -> ResourceIds(e, s)
      [] stage = "qrc"       -> QrcMembers(e, s)
      [] stage = "rebind"    -> Rebound(s)
      [] stage = "sweep"     -> Swept(e, s)

NewTask(e) == FoldLeft(LAMBDA s, stage : Stage(e, s, stage), Idle(e), Stages)

(* The record a stamp leaves, and the stamps it makes needless to merge. *)
CoversAllMerged(files, merged) ==
    Elems(merged) \cup UNION {stamp_records[u].covers : u \in Elems(merged)}
Covers(files, merged) ==
    LET Add(acc, u) == IF u \notin acc /\ DOMAIN stamp_records[u].files \subseteq DOMAIN files
                       THEN acc \cup {u} \cup stamp_records[u].covers ELSE acc
    IN FoldLeft(Add, {}, merged)
StampRecord(e, s) ==
    LET files == s.inputs @@ [p \in world.manifest[e] |-> Upload(p)]
    IN [files |-> files, covers |-> Covers(files, s.merged)]
==============================================================================
