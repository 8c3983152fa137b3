------------------------------- MODULE Writers --------------------------------
(* The files and directories a command writes that its edge does not       *)
(* declare.  They are read off the command and the files it names twice:   *)
(* when the derivation declares its outputs, and when its result is        *)
(* registered; and once more for the stale copies an edge must not be      *)
(* given of what it writes itself.                                         *)
(*                                                                         *)
(* P stands for the edge's declared outputs.                               *)
EXTENDS Readers

Sole(S)    == IF Cardinality(S) = 1 THEN S ELSE {}
LastWord(s) == IF s = <<>> THEN {} ELSE {Last(s)}

(* Places under the build directory, and those strictly below one of T.    *)
InBuild(P)   == {p \in P : Is(p, "build")}
Below(p, T)  == Elems(Above(Dir(p))) \cap T # {}

-----------------------------------------------------------------------------
(* Directories that outputs stand for.  AUTOGEN writes into the directory  *)
(* of its stamp, and a cache beside it; a module's headers are written     *)
(* into the module's directory of include.  Two such directories are none. *)

AutogenRoot(P) == Sole({Dir(p) : p \in {q \in P : Is(q, "mocs") /\ Is(Dir(q), "autogen")}})
CacheDir(P)    == UNION {Under(Dir(r), r) : r \in AutogenRoot(P)}
ModuleRoots(P) ==
    {d \in UNION {{p} \cup Elems(Above(Dir(p))) : p \in P} : Is(Dir(d), "include/")}
IncludeRoot(P) == IF AutogenRoot(P) # {} THEN AutogenRoot(P) ELSE Sole(ModuleRoots(P))
UndeclaredTrees(P) == IncludeRoot(P) \cup CacheDir(P)

(* What an earlier pass left there, of the inputs in `have`: below the     *)
(* AUTOGEN directories all but the plan, below a module's directory what   *)
(* is newer than build.ninja and no edge's output.                         *)
AutogenOwn(e, P, have) ==
    {p \in have : Below(p, AutogenRoot(P) \cup CacheDir(P))} \ Named(e, "cmake_autogen")
Later(p) == Is(p, "later") \/ Revision(p) > 0
SyncqtEarlier(P, have) ==
    IF AutogenRoot(P) # {} \/ \A p \in P : ~Is(p, "syncqt_timestamp") THEN {}
    ELSE {p \in have : Below(p, IncludeRoot(P)) /\ Producer(p) = NoEdge /\ Later(p)}

-----------------------------------------------------------------------------
(* Steps of external projects *)

(* An extract script says where it unpacks.  A step that runs in that very *)
(* place, of the project whose stamp it writes, edits it.                  *)
Destination(S) == UnderAll({world.top}, SaidBy(Files(S), "directory"))
ExtractDirs(e) ==
    LET stamped  == Among(Values(e, "-stamp"), LAMBDA s : Destination({s}) # {})
        patches  == world.cwd[e] # world.top /\ stamped # <<>>
                      /\ world.cwd[e] \in Destination({Head(stamped)})
        unpacked == Destination({s \in Named(e, "-P") : Is(s, "extract")})
    IN InBuild(unpacked \cup IF patches THEN {world.cwd[e]} ELSE {})

(* The step that installs, as the project's directory script places it.    *)
InstallDir(P) ==
    LET prefixes == {Dir(Dir(Dir(d))) : d \in {p \in P : Is(p, "install")}}
        scripts  == Files(UnderAll(prefixes, {"tmp/mkdirs"}))
    IN InBuild(UnderAll({world.top}, SaidBy(scripts, "install")))

BinaryDir(e) == IF Says(e, "-S") THEN InBuild(Named(e, "-B")) ELSE {}

-----------------------------------------------------------------------------
(* Tools that write more than they are told *)

Cl2cpp(e) ==
    LET script == Values(e, "-P")
    IN IF script # <<>> /\ Is(Head(script), "cl2cpp") THEN InBuild(Named(e, "-DOUTPUT")) ELSE {}

(* Three of a generator's or four of an indexer's operands. *)
L10n(e) ==
    LET ops == Values(e, "docbookl10nhelper")
    IN IF Len(ops) = 3 THEN InBuild(Under(ops[3], "all-l10n.xml")) ELSE {}
Kate(e) ==
    LET ops == Values(e, "katehighlightingindexer")
    IN IF Len(ops) = 4 THEN InBuild({ops[4]}) ELSE {}
Qrcalias(e) == InBuild(Named(e, "qrcAlias"))
Particle(e) ==
    InBuild(UnderAll(LastWord(Values(e, "particleshadergen -o")), {"qtparticleshaders.qsbc"}))
CssTsconfig(e) ==
    LET ops == Values(e, "generate_css_js_files")
    IN IF Len(ops) < 5 THEN {} ELSE InBuild(Under(ops[5], ops[3]))

(* Projects of typescript.  A project's outputs carry the projects it      *)
(* refers to, what its one file is compiled and bundled to beside the      *)
(* tsconfig, that file when an edge writes it, and the files of a tsconfig *)
(* that is copied.  A tsconfig that no edge declares stands for the        *)
(* outputs of the edge that writes it.                                     *)
TsCarries(e) ==
    LET beside == {Dir(p) : p \in Named(e, "generate-tsconfig")}
        file   == Named(e, "tsconfig file")
    IN Named(e, "--deps") \cup UnderAll(beside, Named(e, "tsconfig reference"))
         \cup UnderAll(beside, UNION {Elems(FormsOf(f)) : f \in file})
         \cup {f \in file : Producer(f) # NoEdge}
         \cup UnderAll(Named(e, "copy-files to"), SaidBy(Files(Named(e, "copy-files")), "files"))
TsNodes(p) ==
    IF p \in nodes THEN {p} ELSE UNION {Outs(f) : f \in {g \in Edge : p \in CssTsconfig(g)}}
ProjectReferences ==
    LET carried == [e \in Edge |-> UNION {TsNodes(p) : p \in TsCarries(e)}]
    IN [n \in UNION {Outs(e) : e \in {f \in Edge : carried[f] # {}}} |->
          AddAll(<<n>>, SetToSeq(carried[Producer(n)]))]

(* bison's headers beside its C++ parser, by the command and the grammar.  *)
BisonText(e, flag, directive) ==
    IF Named(e, flag) # {} THEN LastWord(Values(e, flag))
    ELSE SaidBy(LastWord(Values(e, ".yy")), directive)
BisonNames(g) ==
    LET modern  == "3.2" \in Said(g, "%require")
        located == Said(g, "%locations") # {}
        file    == Said(g, "api.location.file")
    IN (IF modern THEN {} ELSE {"stack.hh"})
         \cup (IF located /\ file = {} THEN {"location.hh"} ELSE {})
         \cup (IF located /\ file # {"none"} /\ ~modern THEN {"position.hh"} ELSE {})
BisonHeaders(e) ==
    LET grammar  == Files(LastWord(Values(e, ".yy")))
        skeleton == BisonText(e, "--skeleton", "%skeleton")
        cpp      == IF skeleton # {} THEN skeleton = {"lalr1.cc"}
                    ELSE "c++" \in Named(e, "--language") \cup SaidBy(grammar, "%language")
        header   == Named(e, "--defines") \cup SaidBy(grammar, "%defines") # {}
        dirs     == {Dir(p) : p \in LastWord(Values(e, "bison -o"))}
    IN IF cpp /\ header THEN InBuild(UnderAll(dirs, UNION {BisonNames(g) : g \in grammar})) ELSE {}

Vapi(e) ==
    LET dirs == LastWord(Values(e, "--directory"))
    IN InBuild(UnderAll(IF dirs = {} THEN {world.cwd[e]} ELSE dirs, LastWord(Values(e, "--library"))))

(* gdbus-codegen, whose places are the build directory's whatever the      *)
(* command's own directory: a page per interface of the files it reads, of *)
(* which none may be missing; and the pair of C files.                     *)
OutputDir(e) == IF Named(e, "--output-directory") = {} THEN {world.top}
                ELSE LastWord(Values(e, "--output-directory"))
GdbusWritten(e) ==
    LET files == Named(e, "gdbus-codegen")
    IN IF Named(e, "--generate-docbook") = {} \/ ~files \subseteq world.disk THEN {}
       ELSE UnderAll(OutputDir(e), SaidBy(files, "interface"))
InterfaceOutputs(e) == GdbusWritten(e) \ Outs(e)
CCodeWrites(e) ==
    UnderAll(OutputDir(e), UNION {Elems(FormsOf(b)) : b \in LastWord(Values(e, "--generate-c-code"))}) \ Outs(e)

(* The pages of a doxygen run that is known by its stamp. *)
DoxygenHtml(e) ==
    LET stamps   == Among(world.outs[e], LAMBDA o : Is(o, ".stamp"))
        doxyfile == LastWord(Among(Values(e, "doxygen"), LAMBDA n : Files(Under(world.cwd[e], n)) # {}))
        config   == UnderAll({world.cwd[e]}, doxyfile)
        html     == IF SaidBy(config, "HTML_OUTPUT") = {} THEN {"html"} ELSE SaidBy(config, "HTML_OUTPUT")
    IN IF stamps = <<>> \/ "NO" \in SaidBy(config, "GENERATE_HTML") THEN {}
       ELSE InProject(InBuild(UnderAll(UnderAll({Dir(Head(stamps))}, SaidBy(config, "OUTPUT_DIRECTORY")), html)))

(* gtkdoc: its two directories, its main file, the module's lists that the *)
(* source directory has, and copies of content that is not the build's.    *)
GtkdocWritten(e) ==
    LET out     == UnderAll(Named(e, "--builddir"), Named(e, "--subdir"))
        source  == UnderAll(Named(e, "--sourcedir"), Named(e, "--subdir"))
        lists   == {n \in UNION {Elems(FormsOf(m)) : m \in Named(e, "--modulename")} :
                      Files(UnderAll(source, {n})) # {}}
        content == {f \in Named(e, "--content-files") : ~Is(f, "build") \/ Is(f, "relative")}
    IN IF ~Says(e, "gtkdoc") THEN {}
       ELSE InBuild(UnderAll(out, {"html", "xml"} \cup Named(e, "--mainfile") \cup lists)
                      \cup UnderAll(out, content))

-----------------------------------------------------------------------------
(* cmake: scripts and copies behind a stamp among CMakeFiles, library      *)
(* descriptions, links.                                                    *)

CmakeStamp(p) == Is(Dir(p), "CMakeFiles")
CmakeStampWrites(e) ==
    IF \A p \in Outs(e) : ~(CmakeStamp(p) /\ Is(p, "dotted")) THEN {}
    ELSE InBuild(UNION {SpelledBy(Calls(p, "file WRITE"), ScriptVars(e, p), world.cwd[e]) :
                          p \in Files(Named(e, "-P"))})

(* Several files, or one that is copied to a directory, are copied into it.*)
CopyTargets(c) ==
    IF Cardinality(c.from) > 1 \/ c.to \in DOMAIN world.under
    THEN UnderAll({c.to}, c.from) ELSE {c.to}
CopiesMade(e) ==
    IF Outs(e) = {} \/ \E p \in Outs(e) : ~CmakeStamp(p) THEN {}
    ELSE InBuild(UNION {CopyTargets(c) : c \in world.copies[e]})
(* A copy onto an input is no new file. *)
CopyWrites(e, t) == CopiesMade(e) \ DOMAIN t.inputs

Prl(e) ==
    UnderAll({world.top}, SaidBy(Files(Named(e, "-DIN_META_FILE")), "FINAL_PRL_FILE_PATH"))
Symlinks(e) == Named(e, "create_symlink")

-----------------------------------------------------------------------------
(* All of them, as the derivation declares them; those that are files, and *)
(* the directories a step edits in place.                                  *)

ToolFiles(e) ==
    Cl2cpp(e) \cup Vapi(e) \cup BisonHeaders(e) \cup Particle(e) \cup L10n(e) \cup CssTsconfig(e)
      \cup CmakeStampWrites(e) \cup InterfaceOutputs(e) \cup GtkdocWritten(e)
StepTrees(e) == ExtractDirs(e) \cup InstallDir(Outs(e)) \cup Qrcalias(e) \cup Kate(e)

Undeclared(e) ==
    UndeclaredTrees(Outs(e)) \cup ToolFiles(e) \cup StepTrees(e) \cup DoxygenHtml(e) \cup Prl(e)
      \cup Symlinks(e) \cup IF Says(e, "step") THEN BinaryDir(e) ELSE {}
SideFiles(e, t) == ToolFiles(e) \cup CopyWrites(e, t)
EditedTrees(e)  == StepTrees(e) \cup BinaryDir(e)
==============================================================================
