------------------------------- MODULE Readers --------------------------------
(* The readers of new_task: what a tool opens that no edge declares, found  *)
(* in the words of its command and in the files they name.  A reader is a   *)
(* function of the build and of the files on disk; what becomes of its      *)
(* answer is TaskInputs' matter.                                            *)
(*                                                                          *)
(* A command, a file's text and a script's calls are records of what the    *)
(* reader picks out of them: `world.argv`, `world.text`, `world.calls`.     *)
(* `world.join` says which place a name is under a directory, and           *)
(* `world.forms` what a name may be short for, in the order tried.  Left    *)
(* out: the bounds of some thousand files at which a closure stops.         *)
EXTENDS Registry

CONSTANTS TreeLimit,     \* DIR_UPLOAD_CAP: a directory is carried as it is
          DataLimit,     \* DATA_DIR_CAP, PYTHON_DEP_DIR_CAP: it is carried at all
          ClosureLimit   \* CLOSURE_DIR_CAP: the directories of a python closure

ASSUME ReadersAssumption == TreeLimit \in Nat /\ DataLimit \in Nat /\ ClosureLimit \in Nat

-----------------------------------------------------------------------------
(* Names and places *)

Said(p, how)    == IF p \in DOMAIN world.text
                   THEN {w.name : w \in {x \in Elems(world.text[p]) : x.how = how}} ELSE {}
SaidBy(P, how)  == UNION {Said(p, how) : p \in P}
Under(d, n)     == {world.join[x] : x \in {<<d, n>>} \cap DOMAIN world.join}
UnderAll(D, N)  == UNION {Under(x[1], x[2]) : x \in D \X N}
Files(P)        == P \cap world.disk

Above(d) ==
    LET above[x \in {d, world.top} \cup DOMAIN world.dir \cup Range(world.dir)] ==
            IF Dir(x) = x THEN <<x>> ELSE <<x>> \o above[Dir(x)]
    IN above[d]

(* The first base under which a name is a file, and the first spelling of  *)
(* a name that is one.                                                     *)
FirstUnder(bases, n) ==
    LET hits == SelectSeq(bases, LAMBDA b : Files(Under(b, n)) # {})
    IN IF hits = <<>> THEN {} ELSE Files(Under(Head(hits), n))
FormsOf(n) == IF n \in DOMAIN world.forms THEN world.forms[n] ELSE <<n>>
FirstForm(d, n) ==
    LET hits == SelectSeq(FormsOf(n), LAMBDA f : Files(Under(d, f)) # {})
    IN IF hits = <<>> THEN {} ELSE Files(Under(d, Head(hits)))

LedTo(seeds, refs) == Reached(seeds, refs) \ seeds

-----------------------------------------------------------------------------
(* Files that include one another.  Each tool has its own idea of where a  *)
(* name is looked for.                                                     *)

FromOwnDir(how) == [p \in world.disk |-> UnderAll({Dir(p)}, Said(p, how))]
Along(bases, how) == [p \in world.disk |-> UNION {FirstUnder(bases, n) : n \in Said(p, how)}]

XIncludes(e) ==
    LET refs == FromOwnDir("xi:include") IN LedTo(Named(e, ".xml"), [p \in world.disk |-> Files(refs[p])])

(* Every name is reported, one that is missing too. *)
RstIncludes(e) ==
    LET refs == FromOwnDir("include::")
    IN UNION {refs[p] : p \in Files(Reached(Named(e, ".rst"), refs))}

(* From the command's directory, then the include directories, and never   *)
(* beside the file that includes.                                          *)
TablegenIncludes(e) ==
    LET bases == <<world.cwd[e]>> \o Values(e, "-I")
    IN LedTo(UNION {FirstUnder(bases, n) : n \in Named(e, ".td")}, Along(bases, "include"))

NasmIncludes(e) ==
    LedTo(Files(Named(e, ".asm")), Along(<<world.cwd[e]>> \o Values(e, "-I"), "%include"))

(* From the roots only.  A wrapper's directories are roots too, and its    *)
(* operands are under the last one they are given in.                      *)
WrapperRoots(e) == Values(e, "--proto-in-dir") \o Values(e, "--import-dir")
ProtoRoots(e)   == Values(e, "-I") \o Values(e, "--proto_path") \o WrapperRoots(e)
ProtoFiles(e) ==
    IF Named(e, "--proto-in-dir") = {} THEN Named(e, ".proto")
    ELSE UnderAll({Last(Values(e, "--proto-in-dir"))}, Named(e, ".proto"))
ProtoImports(e) == LedTo(Files(ProtoFiles(e)), Along(ProtoRoots(e), "import"))

FlatcIncludes(e) ==
    LedTo(Files(Named(e, ".fbs")),
          [p \in world.disk |->
             UNION {FirstUnder(<<Dir(p)>> \o Values(e, "-I"), n) : n \in Said(p, "include")}])

(* One level.  A quoted name that is a file from the command's directory   *)
(* only is spelt beside the interface file all the same.                   *)
SwigIncludes(e) ==
    LET Here(p, n) == Files(UnderAll({Dir(p), world.cwd[e]}, {n})) # {}
        Quoted(p)  == UNION {IF Here(p, n) THEN Under(Dir(p), n) ELSE FirstUnder(Values(e, "-I"), n) :
                               n \in Said(p, "%include")}
        Angled(p)  == UNION {FirstUnder(Values(e, "-I"), n) : n \in Said(p, "%include<>")}
    IN UNION {Quoted(p) \cup Angled(p) : p \in Files(Named(e, ".i"))}

TsImports(e) ==
    LedTo(Named(e, ".ts") \cup SaidBy(Files(Named(e, "--sources-list")), "line"),
          [p \in world.disk |-> UNION {FirstForm(Dir(p), n) : n \in Said(p, "from")}])

(* A page's own references.  What is neither a page nor a style is not     *)
(* read in turn.                                                           *)
HtmlInlined(pages) ==
    LET refs == FromOwnDir("src")
    IN LedTo(pages, [p \in {q \in world.disk : q \in pages \/ Is(q, "page")} |-> Files(refs[p])])

-----------------------------------------------------------------------------
(* Scripts of node *)

(* The nearest node_modules that has the package. *)
NodePkg(d, n) ==
    LET in(a) == Dirs(UnderAll(Under(a, "node_modules"), {n}))
        hits  == SelectSeq(Above(d), LAMBDA a : in(a) # {})
    IN IF hits = <<>> THEN {} ELSE in(Head(hits))
NodeDeps(pkgs) ==
    Reached(pkgs, [d \in DOMAIN world.under |-> UNION {NodePkg(d, n) : n \in Said(d, "dependencies")}])

NodeScripts(e) ==
    Reached(Files(Named(e, "node")),
            [p \in world.disk |-> UNION {FirstForm(Dir(p), n) : n \in Said(p, "require ./")}])
NodeRequires(e) == NodeScripts(e) \ Named(e, "node")
NodePkgs(e) ==
    NodeDeps(UNION {world.package[p] : p \in Files(Named(e, "node"))}
               \cup UNION {UNION {NodePkg(Dir(p), n) : n \in Said(p, "require")} : p \in NodeScripts(e)})

(* A bundler takes its plugins with it. *)
Plugins(pkgs) ==
    {d \in DOMAIN world.under : Is(d, "plugin") /\ \E r \in pkgs : Is(r, "rollup") /\ Dir(d) = Dir(r)}

-----------------------------------------------------------------------------
(* Lists, indexes and configuration files *)

GResources(e) ==
    UNION {UnderAll(Named(e, "--sourcedir") \cup {Dir(d)}, Said(d, "file")) :
             d \in Files(Named(e, ".gresource.xml"))}

DocgenFiles(e) ==
    UnderAll(IF Named(e, "--content-dir") = {} THEN {world.cwd[e]} ELSE Named(e, "--content-dir"),
             SaidBy(Files(Named(e, "--config")), "extra"))

(* The Doxyfile of the command's directory or else of the build directory; *)
(* what it names is in the command's directory.                            *)
DoxygenPaths(e) ==
    LET doxyfile == UNION {FirstUnder(<<world.cwd[e], world.top>>, n) : n \in Named(e, "doxygen")}
    IN UnderAll({world.cwd[e]}, SaidBy(doxyfile, "tag"))

ItsRules(e) ==
    LET its  == UnderAll(Named(e, "--datadirs"), {"its"})
        locs == {p \in world.disk : Dir(p) \in its /\ Is(p, "loc")}
    IN locs \cup Files(UNION {UnderAll({Dir(p)}, Said(p, "target")) : p \in locs})

VapiMetadata(e) ==
    Files(UnderAll(Named(e, "--metadatadir"), {Head(FormsOf(g)) : g \in Named(e, ".gir")}))
(* A package may be named with its version or without. *)
Vapis(e) == Files(UnderAll(Named(e, "--vapidir"), UNION {Elems(FormsOf(n)) : n \in Named(e, "--pkg")}))

PdlBaselines(e) == {q \in world.disk : Is(q, "baseline") /\ \E p \in Named(e, ".pdl") : Dir(q) = Dir(p)}

OperandFiles(e, opt) == UNION {FirstUnder(<<world.cwd[e], world.top>>, n) : n \in Named(e, opt)}
EnumSources(e)   == OperandFiles(e, "mkenums")
GirPositional(e) == OperandFiles(e, "g-ir-scanner")
GirListed(e)     == Files(UnderAll({world.cwd[e]}, SaidBy(Files(Named(e, "--filelist")), "line")))

(* The headers of what is scanned, where a header that another edge has    *)
(* written counts as there.                                                *)
GirHeaders(e, made) ==
    LET Hit(d) == LET there == SelectSeq(d.at, LAMBDA p : OnDisk(p) \/ p \in made)
                  IN IF there = <<>> THEN {} ELSE {Head(there)}
    IN LedTo(Files(GirListed(e) \cup GirPositional(e)),
             [p \in world.disk |-> UNION {Hit(d) : d \in Elems(world.directives[p])}])

(* A resource collection's members, beside it and in the command's         *)
(* directory both.  One that is a file in neither is a candidate that an   *)
(* edge may write, as is a collection that is no file.                     *)
MemberPlaces(e, q, n) == InProject(UnderAll({Dir(q), world.cwd[e]}, {n}))
QrcFiles(e) ==
    UNION {{q} \cup Files(UNION {MemberPlaces(e, q, n) : n \in Said(q, "file")}) : q \in Files(Named(e, ".qrc"))}
QrcCandidates(e) ==
    (Named(e, ".qrc") \ (world.disk \cup Outs(e)))
      \cup UNION {UNION {MemberPlaces(e, q, n) : n \in {m \in Said(q, "file") : Files(MemberPlaces(e, q, m)) = {}}} :
                    q \in Files(Named(e, ".qrc"))}

(* A grit list: what it names, in a directory per scale if not beside it,  *)
(* and what the pages among those name.                                    *)
GrdReferences(g) ==
    UNION {IF Files(Under(Dir(g), n)) # {} THEN Files(Under(Dir(g), n))
           ELSE Files(UnderAll(UnderAll({Dir(g)}, {"default_100_percent"} \cup Said(g, "context")), {n})) :
             n \in Said(g, "file")}
GrdCarries(g)    == LET refs == GrdReferences(g)
                    IN refs \cup HtmlInlined({p \in refs : Is(p, "page")})
GrdCandidates(g) == InProject(UnderAll({Dir(g)}, Said(g, "file")))
SpecGrds(e)      == UNION {UnderAll(UnderAll({Dir(s)}, Said(s, "SRCDIR")), Said(s, "grd")) :
                             s \in Files(Named(e, "update_resource_ids"))}

(* An AUTOGEN plan. *)
AutogenFiles(e) == {p \in SaidBy(Files(Named(e, "cmake_autogen")), "sources") : ~Is(p, "build")}
AutogenTrees(e) == Dirs(InProject(SaidBy(Files(Named(e, "cmake_autogen")), "includes")))

-----------------------------------------------------------------------------
(* Texts that compute the places they name: a cmake script's variables, a  *)
(* python module's.  A call names `name` under the place of `var`, or a    *)
(* place of its own; one whose variable is not known comes to nothing.     *)

Calls(p, call) == IF p \in DOMAIN world.calls
                  THEN SelectSeq(world.calls[p], LAMBDA c : c.call = call) ELSE <<>>
Spells(c, vars, here) ==
    CASE c.var = ""           -> Under(here, c.name)
      [] c.var \in DOMAIN vars -> Under(vars[c.var], c.name)
      [] OTHER                -> {}
SpelledBy(cs, vars, here) == UNION {Spells(c, vars, here) : c \in Elems(cs)}
Assigned(vars, c, here) ==
    IF Spells(c, vars, here) = {} THEN vars
    ELSE (c.lhs :> CHOOSE p \in Spells(c, vars, here) : TRUE) @@ vars
AssignedAll(cs, vars, here) == FoldLeft(LAMBDA v, c : Assigned(v, c, here), vars, cs)

(* A list file and what it includes, four files deep.  Its variables are   *)
(* set twice over, so that one may use a later one; a child's stay set,    *)
(* its own directory excepted.                                             *)
ListDir(vars, d)    == ("CMAKE_CURRENT_LIST_DIR" :> d) @@ vars
ListDirBack(new, old) ==
    IF "CMAKE_CURRENT_LIST_DIR" \in DOMAIN old THEN ListDir(new, old["CMAKE_CURRENT_LIST_DIR"])
    ELSE [v \in DOMAIN new \ {"CMAKE_CURRENT_LIST_DIR"} |-> new[v]]

IncludeWalk(here, p, acc, Deeper(_, _, _)) ==
    LET sets == Calls(p, "set") \o Calls(p, "get_filename_component")
        vars == AssignedAll(sets \o sets, ListDir(acc.vars, Dir(p)), here)
        mods == acc.mods \cup SpelledBy(Calls(p, "module_path"), vars, here)
        Include(a, c) ==
            LET new == Spells(c, a.vars, here) \ a.out
                got == [a EXCEPT !.out = @ \cup new]
            IN IF Files(new) = {} THEN got ELSE Deeper(here, CHOOSE q \in Files(new) : TRUE, got)
        modules == UnderAll(mods, {c.name : c \in Elems(Calls(p, "module"))})
        done == FoldLeft(Include, [vars |-> vars, mods |-> mods, out |-> acc.out \cup modules],
                         Calls(p, "include"))
    IN [done EXCEPT !.out = @ \cup SpelledBy(Calls(p, "configure_file"), done.vars, here),
                    !.vars = ListDirBack(@, acc.vars)]
FourDeep(here, p, acc)  == IncludeWalk(here, p, acc, LAMBDA h, q, a : a)
ThreeDeep(here, p, acc) == IncludeWalk(here, p, acc, FourDeep)
TwoDeep(here, p, acc)   == IncludeWalk(here, p, acc, ThreeDeep)
OneDeep(here, p, acc)   == IncludeWalk(here, p, acc, TwoDeep)
IncludedPaths(e, p) ==
    IncludeWalk(world.cwd[e], p, [vars |-> world.cache[e], mods |-> {}, out |-> {}], OneDeep)

(* cmake -P: the script, what its variables come to, in a foreach over a   *)
(* list too, the modules beside it, and what it includes.                  *)
ScriptVars(e, p)    == AssignedAll(Calls(p, "set"), world.cache[e], world.cwd[e])
ForeachPaths(e, p)  == SpelledBy(Calls(p, "foreach set"), ScriptVars(e, p), world.cwd[e])
ScriptPaths(e, p)   == {ScriptVars(e, p)[c.lhs] : c \in {x \in Elems(Calls(p, "set")) :
                                                      x.lhs \in DOMAIN ScriptVars(e, p)}}
ScriptModules(p)    == UnderAll({Dir(p)}, {c.name : c \in Elems(Calls(p, "module"))})
ScriptRefs(e) ==
    UNION {{p} \cup ScriptPaths(e, p) \cup ForeachPaths(e, p) \cup ScriptModules(p)
             \cup IncludedPaths(e, p).out : p \in Files(Named(e, "-P"))}

(* The source tree of an external project's step, what its list file       *)
(* includes, and the directories its variables came to when it is built.   *)
EpTrees(e) ==
    IF Says(e, "ep") /\ (Says(e, "-S") \/ Says(e, "--build"))
    THEN Dirs(InProject(SaidBy(Outs(e), "source_dir"))) ELSE {}
EpLists(e)    == Files(UnderAll(EpTrees(e), {"CMakeLists.txt"}))
EpIncludes(e) == UNION {IncludedPaths(e, p).out : p \in EpLists(e)}
Composed(e) ==
    IF ~Says(e, "--build") THEN {}
    ELSE {d \in UNION {Range(IncludedPaths(e, p).vars) : p \in EpLists(e)} :
            d \in Dirs(InProject({d})) /\ ~Is(d, "build") /\ d \notin EpTrees(e)}

-----------------------------------------------------------------------------
(* Trees the words name *)

CopiedTrees(e)  == Dirs(InProject(Named(e, "cmake -E copy")))
KdwsdlTrees(e)  == Dirs(InProject(Named(e, "-import-path")))
MeinprocTree(e) == Dirs(InProject(UnderAll(Named(e, "--srcdir"), {"customization"})))
GtkdocTrees(e) ==
    IF ~Says(e, "gtkdoc") THEN {}
    ELSE {d \in Dirs(InProject(UnderAll(Named(e, "--sourcedir"), Named(e, "--subdir"))
                                  \cup Named(e, "--headerdirs") \cup Named(e, "--cflags"))) : ~Is(d, "build")}

(* Store paths that the files of a tree name. *)
StoresBelow(T) == SaidBy(UNION {world.under[d] : d \in T}, "store")

-----------------------------------------------------------------------------
(* All of them.  What is outside the project, in the store or no file is   *)
(* dropped at the end.                                                     *)
ReferencedFile(P) == Files(InProject(P))
Referenced(e) ==
    ReferencedFile(
      TablegenIncludes(e) \cup XIncludes(e) \cup RstIncludes(e) \cup GResources(e) \cup DocgenFiles(e)
        \cup DoxygenPaths(e) \cup SwigIncludes(e) \cup FlatcIncludes(e) \cup ItsRules(e)
        \cup VapiMetadata(e) \cup NasmIncludes(e) \cup PdlBaselines(e) \cup NodeRequires(e)
        \cup TsImports(e) \cup ProtoImports(e) \cup GirListed(e) \cup GirPositional(e) \cup Vapis(e)
        \cup EnumSources(e) \cup QrcFiles(e) \cup EpIncludes(e) \cup ScriptRefs(e) \cup AutogenFiles(e))
TreesRead(e) ==
    Dirs(InProject(DoxygenPaths(e))) \cup MeinprocTree(e) \cup KdwsdlTrees(e) \cup NodePkgs(e)
      \cup CopiedTrees(e) \cup EpTrees(e) \cup Composed(e) \cup GtkdocTrees(e) \cup AutogenTrees(e)

-----------------------------------------------------------------------------
(* A directory is carried whole with the packages its modules import from  *)
(* beside it.  One that is too large is carried as its packages, or as     *)
(* data when it has none.                                                  *)
Size(d)        == Cardinality(world.under[d])
Scripts(d)     == {p \in world.disk : Dir(p) = d /\ Is(p, "py")}
Subdirs(d)     == {x \in DOMAIN world.under : x # d /\ Dir(x) = d}
Packages(d)    == {x \in Subdirs(d) : Is(x, "package")}
PyImports(d)   == SaidBy(Scripts(d), "import")
BesideTree(d)  ==
    IF ~Is(d, "package") THEN {}
    ELSE {x \in Dirs(UnderAll({Dir(d)}, PyImports(d))) : x # d /\ Is(x, "package") /\ Size(x) <= TreeLimit}
TreeParts(d) ==
    CASE Size(d) <= TreeLimit                     -> {d} \cup BesideTree(d)
      [] Size(d) > TreeLimit /\ Packages(d) # {}  -> Packages(d)
      [] OTHER                                    -> {d}
TreeFiles(d) == UNION {world.under[x] : x \in TreeParts(d)}
TreeRefused(d) ==
    IF Packages(d) = {} THEN Size(d) > TreeLimit /\ Size(d) > DataLimit
    ELSE Size(d) > TreeLimit /\ \E x \in Packages(d) : Size(x) > TreeLimit

-----------------------------------------------------------------------------
(* The closure of a directory of scripts: its packages, and wherever the   *)
(* modules that it imports and does not have are found.  A directory whose *)
(* modules may be imported is searched in turn.                            *)

Module(d, n)   == Files(UnderAll({d}, {Head(FormsOf(n))}))
Package(d, n)  == {x \in Dirs(Under(d, n)) : Is(x, "package")}
Unsatisfied(d) ==
    {n \in PyImports(d) : ~Is(n, "stdlib") /\ Module(d, n) = {} /\ Dirs(Under(d, n)) = {}}
Holds(d, n)    == Module(d, n) # {} \/ (Is(d, "package") /\ d \in Under(Dir(d), n))

(* What a script's own expressions come to, in the order of its lines: the *)
(* places it names, those it puts on the module path, and those a loader   *)
(* reads.                                                                  *)
Computed(p) ==
    LET Line(a, c) ==
            LET got == Spells(c, a.vars, world.top) IN
            CASE c.call = "loader"   -> [a EXCEPT !.loaders = @ \cup got]
              [] c.call = "sys.path" -> [a EXCEPT !.syspath = @ \cup got]
              [] OTHER -> [a EXCEPT !.values = @ \cup got, !.vars = Assigned(@, c, world.top)]
    IN FoldLeft(Line, [vars |-> ("__file__" :> p), values |-> {}, syspath |-> {}, loaders |-> {}],
                IF p \in DOMAIN world.calls THEN world.calls[p] ELSE <<>>)

(* A place in a node package stands for the innermost one. *)
CarriedFor(v) ==
    LET pkgs == {x \in DOMAIN world.under : Is(x, "npm") /\ (x = v \/ v \in world.under[x])}
    IN IF pkgs = {} THEN Files({v})
       ELSE {x \in pkgs : \A y \in pkgs : world.under[x] \subseteq world.under[y]}
ComputedCarries(d) ==
    UNION {UNION {CarriedFor(v) : v \in Computed(p).values} \ {p} : p \in Scripts(d)}
      \cup (Dirs(UNION {Computed(p).loaders : p \in Scripts(d)}) \ {d})

Uncles(d) ==
    IF Dir(d) = d THEN {}
    ELSE {x \in Subdirs(Dir(d)) : x # d /\ \E n \in Unsatisfied(d) : Holds(x, n)}

(* A library vendored one or two directories below third_party, a          *)
(* versioned copy before others, one for python 3 before the rest.         *)
Vendored(T, n) ==
    LET subs   == UNION {Subdirs(t) : t \in T}
        cands  == UNION {Package(s, n) : s \in subs \cup UNION {Subdirs(s) : s \in subs}}
        Score(x) == (IF Is(x, "versioned") THEN 2 ELSE 0) + (IF Is(x, "py3") THEN 1 ELSE 0)
    IN IF cands = {} THEN {} ELSE {CHOOSE x \in cands : \A y \in cands : Score(y) <= Score(x)}

(* Above the parent directory, four levels of it: as a directory, in       *)
(* third_party, vendored.  A name that a script puts on the path itself is *)
(* not looked for, unless the place it computes has that name.             *)
AtLevel(a, n) ==
    LET third == Under(a, "third_party")
        Hit(b) == {x \in Dirs(Under(b, n)) : Module(x, n) # {} \/ Is(x, "package")}
        hits  == SelectSeq(<<a>> \o SetToSeq(third), LAMBDA b : Hit(b) # {})
    IN IF hits # <<>> THEN Hit(Head(hits)) ELSE Vendored(third, n)
FromAbove(d, n) ==
    LET up   == Tail(Above(Dir(d)))
        hits == SelectSeq(SubSeq(up, 1, Min({4, Len(up)})), LAMBDA a : AtLevel(a, n) # {})
    IN IF hits = <<>> THEN {} ELSE AtLevel(Head(hits), n)
SelfSpliced(d) ==
    {n \in Unsatisfied(d) :
       \E p \in Scripts(d) : n \in Said(p, "splice") /\ \A x \in Computed(p).syspath : x \notin Under(Dir(x), n)}
Ancestors(d) == UNION {FromAbove(d, n) : n \in Unsatisfied(d) \ SelfSpliced(d)}

(* Below, three levels deep, the nearest level first. *)
Visible(D)   == {x \in UNION {Subdirs(d) : d \in D} : ~Is(x, "hidden")}
HolderBelow(d, n) ==
    LET one    == Visible({d})
        two    == Visible(one)
        hits   == SelectSeq(<<one, two, Visible(two)>>, LAMBDA D : \E x \in D : Holds(x, n))
    IN IF hits = <<>> THEN {} ELSE {CHOOSE x \in Head(hits) : Holds(x, n)}
Holders(d)   == UNION {HolderBelow(d, n) : n \in Unsatisfied(d)}

(* Directories on the module path.  One that is too large for a tree gives *)
(* only the modules that are asked for.                                    *)
SysPath(d) ==
    (Dirs(UNION {Computed(p).syspath : p \in Scripts(d)})
       \cup Dirs(UnderAll({d}, SaidBy(Scripts(d), "sys.path")))) \ {d}
Large(d)   == Size(d) > DataLimit
AskedOf(d)   == {x \in SysPath(d) : Large(x)} \X Unsatisfied(d)
AskedModules(d)  == UNION {Module(x[1], x[2]) : x \in AskedOf(d)}
AskedPackages(d) == UNION {Package(x[1], x[2]) : x \in {y \in AskedOf(d) : Module(y[1], y[2]) = {}}}

(* A project file's joins, under the first of the bases that has them. *)
ProjectJoins(d) ==
    LET bases == <<d, Dir(d)>> \o SetToSeq(Under(Dir(d), "third_party"))
        FirstOf(n) == LET hits == SelectSeq(bases, LAMBDA b : Dirs(Under(b, n)) \ {d} # {})
                    IN IF hits = <<>> THEN {} ELSE Dirs(Under(Head(hits), n))
    IN UNION {FirstOf(n) : n \in SaidBy({p \in Scripts(d) : Is(p, "project")}, "join")}

(* The directories searched next, those carried whole, and the files.      *)
SearchedNext(d) ==
    Packages(d) \cup Uncles(d) \cup {x \in Ancestors(d) : Is(x, "package")} \cup Holders(d)
      \cup {x \in SysPath(d) : ~Large(x)} \cup AskedPackages(d) \cup ProjectJoins(d)
Whole(d) ==
    SearchedNext(d) \cup Dirs(Under(d, "node_modules")) \cup Ancestors(d) \cup Dirs(ComputedCarries(d))
Single(d)  == Scripts(d) \cup AskedModules(d) \cup Files(ComputedCarries(d))

Searched(d) ==
    LET dirs == Reached({d}, [x \in {d} \cup DOMAIN world.under |-> SearchedNext(x)])
    IN [dirs  |-> dirs,
        files |-> UNION {Single(x) : x \in dirs},
        whole |-> UNION {Whole(x) : x \in dirs}]
Carrying(c) ==
    [files   |-> [p \in c.files \cup UNION {world.under[x] : x \in c.whole} |-> Upload(p)],
     refused |-> Cardinality(c.dirs) > ClosureLimit \/ \E x \in c.whole : Large(x)]
PyClosure(d) == Carrying(Searched(d))

(* A script is carried with the closure of its directory. *)
ScriptDirs(P) == {Dir(p) : p \in {q \in P : Is(q, "py")}} \cap DOMAIN world.under
(* python -m: the directories of the module's file under the roots.        *)
ModuleDirs(e) ==
    LET roots == Named(e, "PYTHONPATH") \cup {world.cwd[e]} IN
    UNION {Dirs({d} \cap {Dir(p) : p \in Module(d, n)}) \cup Package(d, n) : d \in roots, n \in Named(e, "-m")}

-----------------------------------------------------------------------------
(* What a command's own roots lead to *)

RootSrcDir(e)   == Named(e, "--root_src_dir")
RootJoins(e, P) == UnderAll(RootSrcDir(e), SaidBy({p \in P : Is(p, "py")}, "root_src_dir"))
BinaryProtoPaths(e) ==
    IF \E p \in Named(e, "script") : Said(p, "binary_proto_generator") # {} THEN Named(e, "--path") ELSE {}
PyDepsLists(e)  ==
    IF ~Says(e, "run_with_pythonpath") THEN {}
    ELSE UNION {UnderAll({Dir(l)}, Said(l, "line")) :
                  l \in {p \in world.disk : Is(p, "pydeps") /\ Dir(p) \in Named(e, "-I")}}
BinPackages(P)  == UNION {world.package[p] : p \in P} \cap DOMAIN world.under
(* Pages a list of resource identifiers leads to, list by list, past what  *)
(* the task has.                                                           *)
SpecFiles(e, have) ==
    LET new == world.disk \ have
    IN Reached(SpecGrds(e) \cap new,
               [m \in new |-> {r \in GrdReferences(m) \cap new : Is(r, "list")}])

(* A produced collection: the files that are there, and the store paths.   *)
QrcMembersOf(e, q) ==
    LET all == UNION {UnderAll({Dir(q), world.cwd[e]}, {n}) : n \in Said(q, "file")}
    IN [files |-> Files(InProject(all)), store |-> {p \in all : Is(p, "store")}]
(* A compiler of schemas resolves references among the files beside one.   *)
SchemaDirs(e)   == {Dir(p) : p \in Files(Named(e, "schema"))} \cap DOMAIN world.under
==============================================================================
