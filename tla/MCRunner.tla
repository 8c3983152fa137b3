------------------------------ MODULE MCRunner -------------------------------
(* Small builds for the Runner.  Some are aimed at one way an input        *)
(* reaches a task each: through a stamp, a library's links, a header that  *)
(* is missed, a tree that later steps edit, a stale copy on disk, an       *)
(* upload that changed, an edge of the build directory, an earlier pass.   *)
(* The others run one tool each, between the edge that writes a file the   *)
(* tool comes to read and an edge that takes what the tool writes.         *)
EXTENDS Runner

CONSTANTS e1, e2, e3, e4, e5,
          main_c, test_c, one_h, two_h, own_h, gen_h, mod_h, lib_so, lib_so_0, lib_gir, src_dir,
          st1, st2, o1, o2, o3, all_files, res_qrc, data_txt, page_txt,
          top, sub_dir, lib_dir, pkg_dir, third_dir, main_py, util_py, lib_py

Paths == {main_c, test_c, one_h, two_h, own_h, gen_h, mod_h, lib_so, lib_so_0, lib_gir, src_dir,
          st1, st2, o1, o2, o3, all_files, res_qrc, data_txt, page_txt,
          sub_dir, lib_dir, pkg_dir, third_dir, main_py, util_py, lib_py}

Of(K, v) == [k \in K |-> v]
Nothing  == <<>>

(* What a name is from a directory. *)
Layout ==
    LET As(d, n, p) == (<<d, n>> :> p) IN
    As(top, "main", main_c) @@ As(top, "test", test_c) @@ As(top, "gen", gen_h)
      @@ As(top, "one", one_h) @@ As(top, "two", two_h) @@ As(top, "page", page_txt) @@ As(top, "o1", o1)
      @@ As(top, "sub", sub_dir) @@ As(sub_dir, "page", page_txt)
      @@ As(sub_dir, "data", data_txt) @@ As(sub_dir, "main", main_c)
Opt(o, p)      == [opt |-> o, at |-> p]
Texts(how, ns) == [i \in DOMAIN ns |-> [how |-> how, name |-> ns[i]]]

(* A build with no edges that run. *)
Empty ==
    [outs |-> Of(Edge, <<>>), ordering |-> Of(Edge, <<>>), dirtying |-> Of(Edge, <<>>),
     explicit |-> Of(Edge, <<>>), tags |-> Of(Edge, {}), wanted |-> {},
     disk |-> {}, made |-> Paths, content |-> Nothing, spelt |-> Nothing, shape |-> Nothing,
     copies |-> Of(Edge, {}), depfile |-> Of(Edge, {}), stored_as |-> Nothing,
     under |-> Nothing, inside |-> Nothing, aliases |-> <<>>, link |-> Nothing,
     directives |-> Of(Paths, <<>>), needed |-> Of(Edge, {}), banked |-> Of(Edge, {}), computed |-> {}, preprocessed |-> Of(Edge, <<>>),
     earlier |-> Of(Edge, <<>>), arms |-> Of(Paths, {}),
     host |-> {}, sources |-> {main_c, test_c, own_h}, rsp |-> Of(Paths, {}), configured |-> {},
     words |-> Of(Edge, <<>>), argv |-> Of(Edge, <<>>), cwd |-> Of(Edge, top), top |-> top,
     text |-> Nothing, calls |-> Nothing, cache |-> Of(Edge, Nothing), join |-> Layout,
     dir |-> Nothing, forms |-> Nothing, package |-> Of(Paths, {}),
     manifest |-> Of(Edge, {}), staged |-> Of(Edge, {}),
     outer |-> {}, placed |-> Of(Edge, {}), broken |-> {}, recorded |-> {}, reusable |-> {},
     emitted |-> Of(Edge, NoDrv), edited |-> {}, local |-> TRUE, keep_going |-> TRUE]

(* Edge e writes outs from ins, saying t. *)
Edged(w, e, ins, outs, t) ==
    [w EXCEPT !.outs[e] = outs, !.ordering[e] = ins, !.dirtying[e] = ins, !.explicit[e] = ins,
              !.tags[e] = t, !.wanted = @ \cup {e}]

(* A compile of the source tu. *)
Compiles(w, e, tu, ins, outs) ==
    [Edged(w, e, <<tu>> \o ins, outs, {"cc", "gcc", "wants"}) EXCEPT !.explicit[e] = <<tu>>]
From_(d, n, at)  == [name |-> n, at |-> at, base |-> [i \in DOMAIN at |-> d], live |-> TRUE]
Includes_(n, at) == From_(top, n, at)
Unused(n, at)    == [Includes_(n, at) EXCEPT !.live = FALSE]
Headers(H)       == [p \in H |-> {"header"}]

(* Stamps of stamps: the second covers the first, unless it drops a file  *)
(* the first recorded.                                                     *)
Stamps ==
    LET w1 == Edged(Empty, e1, <<data_txt, one_h>>, <<st1>>, {"stamp"})
        w2 == Edged(w1, e2, <<st1, own_h>>, <<st2>>, {"stamp"})
        w3 == Edged(w2, e3, <<st1, st2>>, <<o1>>, {})
        w4 == Compiles(w3, e4, main_c, <<st1, st2>>, <<o2>>)
        w5 == Edged(w4, e5, <<o1, o2>>, <<all_files>>, {"phony"})
    IN [w5 EXCEPT !.disk = {data_txt, one_h, own_h, main_c, page_txt}, !.manifest[e1] = {page_txt},
                  !.argv[e2] = <<Opt("--generate-c-code", "page")>>,
                  !.shape = Headers({one_h, own_h}) @@ [p \in {st1, st2} |-> {"artifact"}],
                  !.directives[main_c] = <<Includes_("k", <<own_h>>)>>]

(* A library, its link by soname, and an edge that runs what links to it;  *)
(* the introspection file of one edge names another's.                     *)
Libraries_ ==
    LET w1 == Edged(Empty, e1, <<main_c>>, <<lib_so_0, lib_gir>>, {})
        w2 == Edged(w1, e2, <<lib_so_0>>, <<lib_so>>, {"soname"})
        w3 == Edged(w2, e3, <<lib_so_0, lib_so>>, <<o1>>, {})
        w4 == Edged(w3, e4, <<o1>>, <<o2>>, {})
        w5 == Edged(w4, e5, <<o2>>, <<o3, one_h>>, {"gtest"})
    IN [w5 EXCEPT !.disk = {main_c, data_txt}, !.shape = [p \in {lib_so, lib_so_0} |-> {"lib", "shared"}]
                                                    @@ (lib_gir :> {"gir"}),
                  !.argv[e1] = <<Opt("--include-uninstalled", lib_gir)>>,
                  !.words[e5] = <<[path |-> o1, as |-> "file"], [path |-> data_txt, as |-> "file"]>>,
                  !.aliases = <<lib_so>>, !.argv[e4] = <<Opt("-D", src_dir)>>,
                  !.under = (src_dir :> {data_txt})]

(* Two compiles miss headers that others make: one the compiler reads, one *)
(* of a branch it does not, and one in a tree it cannot tell from its own. *)
Deferrals ==
    LET w1 == Edged(Empty, e1, <<data_txt>>, <<gen_h>>, {})
        w2 == Compiles(w1, e2, main_c, <<>>, <<o1>>)
        w3 == Compiles(w2, e3, test_c, <<>>, <<o2>>)
        w4 == Edged(w3, e4, <<data_txt>>, <<two_h>>, {})
        w5 == Edged(w4, e5, <<data_txt>>, <<page_txt>>, {})
    IN [w5 EXCEPT !.wanted = {e2, e3}, !.disk = {data_txt, main_c, test_c, gen_h, two_h},
                  !.shape = Headers({gen_h, two_h, mod_h}) @@ (src_dir :> {"tree", "autogen"})
                              @@ (page_txt :> {"mocs"}),
                  !.dir = (page_txt :> src_dir),
                  !.inside = (src_dir :> {mod_h, page_txt}),
                  !.directives[main_c] = <<Includes_("gen", <<one_h, gen_h>>)>>,
                  !.directives[test_c] = <<Unused("y", <<two_h>>), Includes_("mod", <<mod_h>>)>>]

(* What an attempt at the build banked of a compile of tu alone, and of    *)
(* one with the inputs ins besides.                                        *)
Answer_(tu, ins, deps, asked) ==
    [view |-> [declared |-> {tu} \cup ins, stored |-> {}], trees |-> {}, seeds |-> {tu},
     present |-> {tu}, deps |-> deps, store |-> {}, asked |-> asked]
Bankings ==
    LET found == [Deferrals EXCEPT !.disk = @ \cup {own_h}, !.directives[gen_h] = <<Includes_("k", <<own_h>>)>>]
        main  == Answer_(main_c, {gen_h}, {own_h}, TRUE)
        lone  == [Deferrals EXCEPT !.directives[test_c] = <<Includes_("k", <<own_h>>)>>, !.disk = @ \cup {own_h}]
        edit  == [lone EXCEPT !.ordering[e3] = <<test_c, one_h>>, !.disk = @ \cup {one_h}, !.edited = {one_h}]
    IN {[found EXCEPT !.banked[e2] = {main}],
        [found EXCEPT !.banked[e2] = {[main EXCEPT !.present = {}]}],
        [lone EXCEPT !.banked[e3] = {Answer_(test_c, {}, {own_h}, TRUE)}],
        [edit EXCEPT !.banked[e3] = {[Answer_(test_c, {one_h}, {own_h}, TRUE)
                                        EXCEPT !.seeds = {test_c, one_h}, !.present = {test_c, one_h}]}],
        [Deferrals EXCEPT !.banked[e3] = {Answer_(test_c, {page_txt, src_dir}, {}, FALSE)}]}

(* A header made from what includes it: the deferral would wait on itself. *)
Circles ==
    LET w1 == Edged(Empty, e1, <<o1>>, <<gen_h>>, {})
        w2 == Compiles(w1, e2, main_c, <<>>, <<o1>>)
        w3 == Edged(w2, e3, <<data_txt>>, <<o2>>, {})
    IN [w3 EXCEPT !.wanted = {e2, e3}, !.disk = {data_txt, main_c}, !.shape = Headers({gen_h}),
                  !.directives[main_c] = <<Includes_("gen", <<gen_h>>)>>]

(* An unpacked source tree, patched by a later step, and who reads it.     *)
EditedTree ==
    LET w1 == Edged(Empty, e1, <<data_txt>>, <<st1>>, {"step"})
        w2 == Edged(w1, e2, <<st1>>, <<st2>>, {"step"})
        w3 == Edged(w2, e3, <<st2>>, <<o1>>, {})
        w4 == Edged(w3, e4, <<st1>>, <<o2>>, {})
        w5 == Edged(w4, e5, <<test_c>>, <<o3>>, {})
    IN [w5 EXCEPT !.disk = {data_txt, main_c, test_c},
                  !.shape = (src_dir :> {"tree", "build"}) @@ (data_txt :> {"extract"})
                              @@ (main_c :> {"cl2cpp"}) @@ (lib_dir :> {"CMakeFiles"})
                              @@ [p \in {one_h, two_h, test_c} |-> {"build"}],
                  !.text = (data_txt :> Texts("directory", <<"src">>)),
                  !.join = (<<top, "src">> :> src_dir) @@ @,
                  !.argv = (e1 :> <<Opt("-P", data_txt)>>) @@ (e2 :> <<Opt("-stamp", data_txt)>>)
                             @@ (e5 :> <<Opt("-P", main_c), Opt("-DOUTPUT", one_h)>>) @@ @,
                  !.cwd[e2] = src_dir, !.dir = (o3 :> lib_dir),
                  !.copies[e5] = {[from |-> {main_c}, to |-> test_c], [from |-> {main_c}, to |-> two_h]},
                  !.depfile[e5] = {page_txt}]

(* Stale copies on disk of what edges write, reached by a command's word,  *)
(* by a reader, by configure's blanket and under another name.             *)
StaleCopies ==
    LET w1 == Edged(Empty, e1, <<data_txt>>, <<gen_h>>, {})
        w2 == Edged(w1, e2, <<gen_h>>, <<o1>>, {"moc"})
        w3 == Edged(w2, e3, <<o1, res_qrc>>, <<o2>>, {"rcc"})
        w4 == Edged(w3, e4, <<data_txt>>, <<res_qrc>>, {"syncqt"})
        w5 == Edged(w4, e5, <<o2>>, <<o3>>, {})
    IN [w5 EXCEPT !.disk = {data_txt, gen_h, one_h, two_h, page_txt, o1, main_c},
                  !.configured = {gen_h, page_txt},
                  !.shape = (one_h :> {"header", "later"}) @@ Headers({gen_h}) @@ (res_qrc :> {"list"})
                              @@ (o3 :> {"syncqt_timestamp"}) @@ (lib_dir :> {"tree"})
                              @@ (sub_dir :> {"include/"}),
                  !.dir = [p \in {o3, one_h} |-> lib_dir] @@ (lib_dir :> sub_dir),
                  !.words[e5] = <<[path |-> one_h, as |-> "file"]>>,
                  !.words[e2] = <<[path |-> all_files, as |-> "rsp"], [path |-> gen_h, as |-> "file"]>>,
                  !.rsp[all_files] = {gen_h, one_h}, !.disk = @ \cup {all_files},
                  !.text = (res_qrc :> Texts("file", <<"page", "two", "gen">>))
                             @@ (page_txt :> Texts("line", <<"main">>)),
                  !.argv[e3] = <<Opt(".qrc", res_qrc)>>,
                  !.argv[e5] = <<Opt(".qrc", res_qrc), Opt("mkenums", "o1"), Opt("--filelist", page_txt),
                                 Opt("-Wl", o1), Opt("-Wl", two_h)>>,
                  !.spelt = (own_h :> gen_h),
                  !.directives[main_c] = <<Includes_("gen", <<gen_h>>), Includes_("y", <<two_h>>)>>,
                  !.directives[gen_h] = <<Includes_("x", <<one_h>>)>>]

(* A header that is rewritten while compiles of it are under way.  Another *)
(* declared header has the bytes of a stale copy that is dropped.          *)
Collisions ==
    LET w1 == Edged(Empty, e1, <<data_txt>>, <<gen_h>>, {})
        w2 == Compiles(w1, e2, main_c, <<one_h, gen_h, own_h>>, <<o1>>)
        w3 == Compiles(w2, e3, test_c, <<one_h>>, <<o2>>)
    IN [w3 EXCEPT !.disk = {data_txt, main_c, test_c, one_h, gen_h, own_h, two_h}, !.edited = {one_h},
                  !.shape = Headers({one_h, gen_h, own_h, two_h}), !.argv[e2] = <<Opt("-include", "one")>>,
                  !.content = (gen_h :> own_h),
                  !.directives[main_c] = <<Includes_("gen", <<gen_h>>), Includes_("y", <<two_h>>)>>,
                  !.directives[test_c] = <<Includes_("x", <<one_h>>)>>,
                  !.arms[one_h] = {[macro |-> "M", at |-> two_h, angled |-> TRUE]},
                  !.earlier[e3] = <<one_h, own_h>>,
                  !.staged[e3] = {[from |-> own_h, to |-> page_txt]}]

(* An edge of the build directory between others, one of which fails. *)
LocalEdges ==
    LET w1 == Edged(Empty, e1, <<data_txt>>, <<one_h>>, {})
        w2 == Edged(w1, e2, <<one_h>>, <<two_h>>, {"local"})
        w3 == Compiles(w2, e3, main_c, <<two_h>>, <<o1>>)
        w4 == Compiles(w3, e4, test_c, <<one_h>>, <<o2>>)
        w5 == Edged(w4, e5, <<two_h>>, <<o3>>, {})
    IN [w5 EXCEPT !.disk = {data_txt, main_c, test_c}, !.shape = Headers({one_h, two_h}),
                  !.directives[main_c] = <<Includes_("y", <<two_h>>)>>,
                  !.directives[test_c] = <<Includes_("x", <<one_h>>)>>,
                  !.directives[one_h] = <<Includes_("k", <<own_h>>)>>]

(* What cannot be built, and what an earlier pass left. *)
Failures ==
    LET w1 == Edged(Empty, e1, <<data_txt>>, <<one_h>>, {})
        w2 == Compiles(w1, e2, main_c, <<one_h>>, <<o1>>)
        w3 == Edged(w2, e3, <<own_h>>, <<o2>>, {})
        w4 == Edged(w3, e4, <<data_txt>>, <<o3, two_h>>, {"outside"})
        w5 == Edged(w4, e5, <<data_txt>>, <<lib_gir>>, {})
    IN [w5 EXCEPT !.disk = {data_txt, main_c}, !.broken = {e1}, !.shape = Headers({one_h}),
                  !.placed[e5] = {page_txt},
                  !.emitted[e5] = [entries |-> {}, refs |-> {}, err |-> "", outs |-> {lib_gir}],
                  !.emitted[e3] = [entries |-> {}, refs |-> {}, err |-> "", outs |-> {o2}]]

Earlier ==
    {[Failures EXCEPT !.recorded = r, !.reusable = u, !.broken = b] :
       r \in {{}, {e3, e5}}, u \in {{}, {e3, e5}}, b \in {{e1}, {e1, e5}}}

(* A tool that is run after e1, and reads what leads to a header that e1   *)
(* writes and an earlier pass left on disk: main names test, and test the  *)
(* header.  sub is a directory.                                            *)
Tool(opts, how) ==
    LET w1 == Edged(Empty, e1, <<data_txt>>, <<o1, gen_h>>, {})
        w2 == Edged(w1, e2, <<o1>>, <<o2>>, {})
    IN [w2 EXCEPT !.argv[e2] = opts,
                  !.disk = {data_txt, main_c, test_c, gen_h, two_h, page_txt, util_py},
                  !.text = (main_c :> Texts(how, <<"test">>)) @@ (test_c :> Texts(how, <<"gen">>)),
                  !.shape = Headers({gen_h}) @@ (main_c :> {"list"}) @@ (test_c :> {"page"})
                              @@ (page_txt :> {"baseline", "loc"}),
                  !.dir = [p \in {page_txt, data_txt} |-> sub_dir],
                  !.under = (sub_dir :> {page_txt, data_txt})]
Tagged(w, t)          == [w EXCEPT !.tags[e2] = t]
Says_(w, p, how, ns)  == [w EXCEPT !.text = (p :> Texts(how, ns)) @@ @]
Joined(w, d, n, p)    == [w EXCEPT !.join = (<<d, n>> :> p) @@ @]

Including ==
    {Tool(<<Opt(x[1], main_c)>>, x[2]) :
       x \in {<<".xml", "xi:include">>, <<".rst", "include::">>, <<".asm", "%include">>,
              <<".fbs", "include">>, <<".i", "%include">>, <<".ts", "from">>, <<"node", "require ./">>,
              <<".gresource.xml", "file">>, <<".pdl", "">>, <<".qrc", "file">>}}
      \cup {Tool(<<Opt(".td", "main"), Opt("-I", sub_dir)>>, "include"),
            Tool(<<Opt(".proto", main_c), Opt("-I", top)>>, "import"),
            Tool(<<Opt(".proto", "main"), Opt("--proto-in-dir", sub_dir), Opt("--proto-in-dir", top)>>,
                 "import")}
Listing ==
    {Says_(Tool(<<Opt("--sources-list", two_h)>>, "from"), two_h, "line", <<main_c>>),
     Tool(<<Opt("--config", main_c), Opt("--content-dir", top)>>, "extra"),
     Tool(<<Opt("--pkg", "main"), Opt("--vapidir", top)>>, ""),
     Tool(<<Opt(".gir", "main"), Opt("--metadatadir", top)>>, ""),
     Tool(<<Opt("mkenums", "gen")>>, ""),
     Says_(Tool(<<Opt("doxygen", "main")>>, ""), main_c, "tag", <<"sub", "gen">>),
     [Tool(<<Opt("g-ir-scanner", "main"), Opt("--filelist", test_c)>>, "line")
        EXCEPT !.directives[main_c] = <<Includes_("k", <<own_h, gen_h>>)>>],
     Joined(Says_(Tool(<<Opt("--datadirs", top)>>, ""), page_txt, "target", <<"data">>), top, "its", sub_dir),
     Says_(Says_(Tool(<<Opt("cmake_autogen", test_c)>>, ""), test_c, "sources", <<gen_h>>),
           page_txt, "includes", <<sub_dir>>),
     [Joined(Tool(<<Opt("update_resource_ids", page_txt)>>, "file"), sub_dir, "..", top)
        EXCEPT !.text = (page_txt :> Texts("SRCDIR", <<"..">>) \o Texts("grd", <<"main">>)) @@ @]}

(* Scripts of cmake: one whose variables place what it includes, and the   *)
(* list file of an external project.                                       *)
Call(c, lhs, v, n) == [call |-> c, lhs |-> lhs, var |-> v, name |-> n]
ScriptCalls ==
    (main_c :> <<Call("set", "DIR", "", "sub"), Call("foreach set", "", "DIR", "page"),
                 Call("module_path", "", "", "sub"), Call("module", "", "", "data"),
                 Call("include", "", "", "test"), Call("include", "", "LATER", "page")>>)
      @@ (test_c :> <<Call("set", "LATER", "DIR", ""), Call("configure_file", "", "", "gen")>>)
Scripting ==
    LET script  == [Tool(<<Opt("-P", main_c)>>, "") EXCEPT !.calls = ScriptCalls]
        project == Says_([Tool(<<>>, "") EXCEPT !.calls = ScriptCalls], o2, "source_dir", <<lib_dir>>)
    IN {script} \cup
       {[Joined(Tagged(project, {"ep", t}), lib_dir, "CMakeLists.txt", main_c)
           EXCEPT !.under = (lib_dir :> {main_c}) @@ @] : t \in {"-S", "--build"}}

(* Directories: as they are; larger than a tree may be; and larger still,  *)
(* of which only the packages can be carried.                              *)
Walking ==
    LET copy  == Tool(<<Opt("cmake -E copy", sub_dir)>>, "")
        large == [copy EXCEPT !.under[sub_dir] = @ \cup {test_c, gen_h}]
    IN {copy, large, Tool(<<Opt("-import-path", sub_dir)>>, ""),
        [copy EXCEPT !.under[sub_dir] = @ \cup {test_c}],
        [large EXCEPT !.under = (pkg_dir :> {gen_h}) @@ @, !.dir = (pkg_dir :> sub_dir) @@ @,
                      !.shape = (pkg_dir :> {"package"}) @@ @],
        Joined(Says_(Tool(<<Opt("--srcdir", top)>>, ""), page_txt, "store", <<lib_so>>),
               top, "customization", sub_dir),
        Tagged(Tool(<<Opt("--sourcedir", top), Opt("--subdir", "sub")>>, ""), {"gtkdoc"})}

(* Scripts of python: main_py imports a name that a directory beside its   *)
(* own, above it or below it may have, or that third_party holds.          *)
Script(n) ==
    LET w == Tool(<<>>, "") IN
    [w EXCEPT !.words[e2] = <<[path |-> main_py, as |-> "file"]>>,
              !.disk = @ \cup {main_py, util_py, lib_py},
              !.shape = [p \in {main_py, util_py, lib_py} |-> {"py"}] @@ (pkg_dir :> {"package"}) @@ @,
              !.text = (main_py :> Texts("import", <<n>>)) @@ @,
              !.forms = ("util" :> <<"util.py">>) @@ ("lib" :> <<"lib.py">>),
              !.dir = (main_py :> sub_dir) @@ (util_py :> lib_dir) @@ (lib_py :> pkg_dir) @@ @,
              !.under = (sub_dir :> {main_py}) @@ (lib_dir :> {util_py, gen_h}) @@ (pkg_dir :> {lib_py, gen_h})
                          @@ @,
              !.join = (<<lib_dir, "util.py">> :> util_py) @@ @]
Placed(w, d, at, n) == Joined([w EXCEPT !.dir = (d :> at) @@ @], at, n, d)
Importing ==
    LET util  == Placed(Script("util"), lib_dir, top, "lib")
        below == Placed(Script("util"), lib_dir, sub_dir, "lib")
        deep  == Placed(Placed(Script("lib"), lib_dir, third_dir, "v-1"), pkg_dir, lib_dir, "lib")
        up    == [Joined(Placed(deep, third_dir, top, "third"), top, "third_party", third_dir)
                    EXCEPT !.dir = (sub_dir :> all_files) @@ @, !.under = (third_dir :> {util_py, lib_py}) @@ @]
        path  == [Placed(Script("other"), lib_dir, third_dir, "lib")
                    EXCEPT !.calls = (main_py :> <<Call("", "HERE", "__file__", "up"),
                                                    Call("sys.path", "", "HERE", "lib")>>),
                           !.join = (<<main_py, "up">> :> third_dir) @@ @]
    IN {util, below, up, path,
        [Edged(util, e3, <<o2>>, <<o3>>, {}) EXCEPT !.words[e3] = util.words[e2]],
        [path EXCEPT !.text = (main_py :> Texts("import", <<"util">>)) @@ @, !.under[lib_dir] = @ \cup {one_h, two_h}],
        [util EXCEPT !.under[lib_dir] = @ \cup {one_h, two_h}]}

(* What a command's own roots lead to: packages of node, with what they    *)
(* depend on, and the roots of python's tools.                             *)
Rooted ==
    LET word(p)  == <<[path |-> p, as |-> "file"]>>
        npm(w)   == Joined(Joined(Joined([w EXCEPT !.under = (pkg_dir :> {gen_h}) @@ (lib_dir :> {lib_py}) @@ @,
                                                   !.dir = [d \in {pkg_dir, lib_dir} |-> third_dir] @@ @,
                                                   !.text = (pkg_dir :> Texts("dependencies", <<"lib">>)) @@ @],
                                           top, "node_modules", third_dir),
                                    third_dir, "pkg", pkg_dir), third_dir, "lib", lib_dir)
    IN {npm(Tool(<<Opt("node", main_c)>>, "require")),
        npm(Says_(Tool(<<Opt("node", main_c)>>, ""), main_c, "require", <<"pkg">>)),
        [npm(Tool(<<>>, "")) EXCEPT !.words[e2] = word(main_c), !.package[main_c] = {pkg_dir},
                                    !.shape = (pkg_dir :> {"rollup"}) @@ (lib_dir :> {"plugin"}) @@ @],
        [Says_(Tool(<<Opt("--root_src_dir", top)>>, ""), main_py, "root_src_dir", <<"gen">>)
           EXCEPT !.words[e2] = word(main_py), !.disk = @ \cup {main_py}, !.shape = (main_py :> {"py"}) @@ @],
        [Tagged(Says_(Tool(<<Opt("-I", sub_dir)>>, ""), page_txt, "line", <<"data">>), {"run_with_pythonpath"})
           EXCEPT !.shape = (page_txt :> {"pydeps"}) @@ @],
        [Says_(Tool(<<Opt("script", main_c), Opt("--path", sub_dir)>>, ""), main_c, "binary_proto_generator", <<"">>)
           EXCEPT !.shape = (gen_h :> {"py"}) @@ @, !.dir = (gen_h :> sub_dir) @@ @],
        [Placed(Script("other"), lib_dir, third_dir, "lib")
           EXCEPT !.words[e2] = <<>>, !.argv[e2] = <<Opt("PYTHONPATH", lib_dir), Opt("-m", "util")>>],
        Tool(<<Opt("schema", page_txt)>>, "")}

(* What is written besides: a tool after e1 whose output e3 takes, with    *)
(* what else it writes.                                                    *)
Writer(opts) ==
    LET w == Edged(Tool(opts, ""), e3, <<o2>>, <<o3>>, {}) IN
    [w EXCEPT !.shape = [p \in {one_h, own_h, mod_h} |-> {"build"}]
                          @@ [d \in {src_dir, third_dir} |-> {"build", "tree"}] @@ @,
              !.join = (<<top, "one">> :> one_h) @@ (<<top, "own">> :> own_h) @@ (<<top, "mod">> :> mod_h)
                         @@ (<<top, "src">> :> src_dir) @@ (<<sub_dir, "one">> :> one_h) @@ @]
Shaped(w, p, t) == [w EXCEPT !.shape = (p :> t) @@ @]
In(w, p, d)     == [w EXCEPT !.dir = (p :> d) @@ @]

Grammar(lines) ==
    LET w == Joined(Joined(Joined(Writer(<<Opt(".yy", main_c), Opt("bison -o", o2)>>),
                                  top, "stack.hh", one_h), top, "location.hh", own_h), top, "position.hh", mod_h)
    IN [w EXCEPT !.text = (main_c :> lines) @@ @]
Grammars ==
    LET cpp   == Texts("%skeleton", <<"lalr1.cc">>) \o Texts("%defines", <<"">>) \o Texts("%locations", <<"">>)
        plain == Texts("%language", <<"c++">>) \o Texts("%defines", <<"">>)
    IN {Grammar(t) : t \in {cpp, plain, cpp \o Texts("%require", <<"3.2">>),
                            cpp \o Texts("api.location.file", <<"none">>), Texts("%skeleton", <<"glr.cc">>) \o plain}}

Pages(more) ==
    In(In(Shaped([Joined(Writer(<<Opt("doxygen", "main")>>), third_dir, "html", src_dir)
                    EXCEPT !.text = (main_c :> more) @@ @],
                 o2, {".stamp"}), o2, sub_dir), third_dir, sub_dir)
Tools ==
    Grammars \cup
    {Joined(Writer(<<Opt("--library", "vapi"), Opt("--directory", sub_dir)>>), sub_dir, "vapi", one_h),
     Joined(Writer(<<Opt("particleshadergen -o", sub_dir)>>), sub_dir, "qtparticleshaders.qsbc", one_h),
     Joined(Writer([i \in 1..3 |-> Opt("docbookl10nhelper", sub_dir)]), sub_dir, "all-l10n.xml", one_h),
     Writer([i \in 1..5 |-> Opt("generate_css_js_files", IF i = 3 THEN "one" ELSE sub_dir)]),
     Writer([i \in 1..4 |-> Opt("katehighlightingindexer", src_dir)]),
     Writer(<<Opt("qrcAlias", src_dir)>>),
     Writer(<<Opt("create_symlink", one_h)>>),
     Says_(Writer(<<Opt("gdbus-codegen", main_c), Opt("--generate-docbook", "doc"),
                    Opt("--output-directory", sub_dir)>>), main_c, "interface", <<"one">>),
     Says_(Writer(<<Opt("-DIN_META_FILE", main_c)>>), main_c, "FINAL_PRL_FILE_PATH", <<"one">>),
     Pages(Texts("OUTPUT_DIRECTORY", <<"docs">>)),
     Joined(Pages(Texts("OUTPUT_DIRECTORY", <<"docs">>)), sub_dir, "docs", third_dir),
     Joined(Pages(Texts("OUTPUT_DIRECTORY", <<"docs">>) \o Texts("GENERATE_HTML", <<"NO">>)),
            sub_dir, "docs", third_dir),
     Tagged([Joined(Joined(Joined(Writer(<<Opt("--builddir", top), Opt("--sourcedir", lib_dir), Opt("--subdir", "src"),
                                           Opt("--modulename", "gtk"), Opt("--content-files", page_txt)>>),
                                  src_dir, "html", third_dir), src_dir, "sections", one_h), src_dir, page_txt, mod_h)
               EXCEPT !.forms = ("gtk" :> <<"sections", "overrides">>) @@ @,
                      !.join = (<<lib_dir, "src">> :> pkg_dir) @@ (<<pkg_dir, "sections">> :> test_c) @@ @], {"gtkdoc"})}
Steps ==
    LET stamp(w)  == In(In(w, o2, lib_dir), lib_dir, pkg_dir)
        install   == Shaped(stamp(Writer(<<>>)), o2, {"install"})
        dotted    == Shaped(Shaped(stamp(Writer(<<Opt("-P", test_c)>>)), o2, {"dotted"}), lib_dir, {"CMakeFiles"})
    IN {Tagged(Writer(<<Opt("-B", src_dir)>>), {"step", "-S"}),
        Tagged(Writer(<<Opt("-B", src_dir)>>), {"-S"}),
        [Says_(Joined(install, sub_dir, "tmp/mkdirs", main_c), main_c, "install", <<"src">>)
           EXCEPT !.dir = (pkg_dir :> sub_dir) @@ @],
        [dotted EXCEPT !.calls = (test_c :> <<Call("set", "OUT", "", "sub"), Call("file WRITE", "", "OUT", "one")>>)],
        [dotted EXCEPT !.copies[e2] = {[from |-> {main_c, test_c}, to |-> third_dir]},
                       !.join = (<<third_dir, main_c>> :> one_h) @@ (<<third_dir, test_c>> :> own_h) @@ @]}
(* A project of typescript: what its file is compiled to, a tsconfig that  *)
(* an edge writes and does not declare, a copied one.                      *)
Projects ==
    LET css == Edged(Writer(<<Opt("--deps", one_h)>>), e4, <<o1>>, <<st1>>, {})
    IN {[Writer(<<Opt("generate-tsconfig", o2), Opt("tsconfig file", main_c)>>)
           EXCEPT !.forms = (main_c :> <<"gen", "none">>)],
        [css EXCEPT !.ordering[e2] = <<st1>>, !.dirtying[e2] = <<st1>>,
                    !.argv[e4] = [i \in 1..5 |-> Opt("generate_css_js_files", IF i = 3 THEN "one" ELSE sub_dir)]],
        Says_(Writer(<<Opt("copy-files", main_c), Opt("copy-files to", top)>>), main_c, "files", <<"gen">>)}

(* AUTOGEN's own files, of an earlier pass, are named among its sources.   *)
Autogen ==
    LET w == In(In(Shaped(Shaped(Writer(<<Opt("cmake_autogen", page_txt)>>), o2, {"mocs"}),
                          src_dir, {"build", "tree", "autogen"}), o2, src_dir), gen_h, third_dir)
    IN {Says_(Joined(w, top, src_dir, third_dir), page_txt, "sources", <<gen_h, two_h>>)}

MCWorlds ==
    Including \cup Listing \cup Scripting \cup Walking \cup Importing \cup Rooted \cup
    Tools \cup Steps \cup Projects \cup Autogen \cup
    {Stamps, [Stamps EXCEPT !.argv[e2] = <<>>], Libraries_, Deferrals, Circles, EditedTree,
     StaleCopies, Collisions, LocalEdges,
     [Deferrals EXCEPT !.needed[e2] = {"gen"}, !.needed[e3] = {"mod"}],
     [Deferrals EXCEPT !.needed[e3] = {"k"}, !.directives[test_c] = @ \o <<Includes_("k", <<own_h>>)>>],
     [Deferrals EXCEPT !.directives[test_c] = <<From_(src_dir, "mem", <<mod_h>>)>>],
     [Deferrals EXCEPT !.directives[test_c] = <<From_(src_dir, "mem", <<mod_h>>)>> \o @],
     [Circles EXCEPT !.keep_going = FALSE],
     [LocalEdges EXCEPT !.broken = {e2}],
     [LocalEdges EXCEPT !.local = FALSE],
     [Collisions EXCEPT !.local = FALSE],
     [Collisions EXCEPT !.tags[e2] = @ \cup {"lto"}, !.outer = {one_h, own_h, two_h}]}
      \cup Bankings \cup {w \in Earlier : w.reusable \subseteq w.recorded}
==============================================================================
