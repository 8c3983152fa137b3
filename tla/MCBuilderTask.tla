---------------------------- MODULE MCBuilderTask ----------------------------
(* Four builds: a library with an alias its own edge makes, and a tool     *)
(* that finds it from where it lies; the same with an alias that configure *)
(* left; headers synced into a tree; a tree, and a file, edited in place.  *)
EXTENDS BuilderTask

In(by, p)    == [by |-> by, at |-> p, as |-> p]
Climb(by, p) == [by |-> by, at |-> p, as |-> <<"..", p>>]

Read(p)                == [op |-> "read", at |-> p]
Write(p)               == [op |-> "write", at |-> p, needs |-> {}, origin |-> FALSE]
WriteElf(p, n, origin) == [op |-> "write", at |-> p, needs |-> n, origin |-> origin]
Execute(p)             == [op |-> "run", at |-> p]

Edge(inputs, outputs, ops) ==
    [inputs |-> inputs, outputs |-> outputs, ops |-> ops, optional |-> {},
     aliases |-> <<>>, archived |-> {}, headers |-> <<>>]

Sources(ps) == [p \in ps |-> File(Source(p))]

ac == <<"src", "a.c">>        mc == <<"src", "m.c">>
it == <<"src", "i.txt">>      tool == <<"bin", "tool">>
f12 == <<"lib", "f.so.1.2">>  f1 == <<"lib", "f.so.1">>
xh == <<"src", "x.h">>        yh == <<"src", "y">>
inc == <<"inc">>              sub == <<"sub">>
dd == <<"dep", "d">>          by == <<"gen", "by">>
stamp == <<"CMakeFiles", "patch">>

OwnAlias ==
    [configured |-> Sources({ac, mc, it}),
     task |->
       [lib |-> Edge({In("src", ac)}, <<f12, f1>>,
                     <<Read(ac), Write(f12), [op |-> "name", at |-> f1, to |-> "f.so.1.2"]>>),
        exe |-> Edge({In("src", mc), In("lib", f12), In("lib", f1)}, <<tool>>,
                     <<Read(mc), Read(f1), WriteElf(tool, {"f.so.1"}, TRUE)>>),
        gen |-> Edge({In("src", it), In("exe", tool), In("lib", f12), In("lib", f1)},
                     <<<<"gen", "o">>>>,
                     <<Execute(tool), Read(it), Write(<<"gen", "o">>)>>)]]

Configured == f1 :> "f.so.1.2"
WithAliases(e) == [e EXCEPT !.aliases = Configured]
ConfiguredAlias ==
    [configured |-> (f1 :> Alias("f.so.1.2")) @@ Sources({ac, mc, it}),
     task |->
       [lib |-> WithAliases(Edge({In("src", ac)}, <<f12>>, <<Read(ac), Write(f12)>>)),
        exe |-> WithAliases(Edge({In("src", mc), In("lib", f12)}, <<tool>>,
                     <<Read(mc), Read(f1), WriteElf(tool, {"f.so.1"}, FALSE)>>)),
        gen |-> WithAliases(Edge({In("src", it), In("exe", tool)}, <<<<"gen", "o">>>>,
                     <<Execute(tool), Read(it), Write(<<"gen", "o">>)>>))]]

Sync ==
    [configured |-> Sources({xh, yh, mc}),
     task |->
       [sync |-> [Edge({In("src", xh), In("src", yh)}, <<<<"inc", "x.h">>, inc>>,
                       <<[op |-> "sibling", at |-> xh, name |-> "y"],
                         [op |-> "gather", of |-> <<xh, yh>>],
                         Write(<<"inc", "x.h">>), Write(<<"inc", "hidden.h">>),
                         Write(<<"inc", ".state">>)>>) EXCEPT !.headers = <<yh>>],
        cc   |-> [Edge({In("src", mc), Climb("src", mc), In("sync", <<"inc", "x.h">>),
                        In("sync", inc)},
                       <<<<"o", "m.o">>>>,
                       <<Read(mc), Read(<<"inc", "x.h">>), Read(<<"inc", "hidden.h">>),
                         Write(<<"o", "m.o">>)>>) EXCEPT !.optional = {<<"o", "m.o">>}]]]

Patch ==
    [configured |-> Sources({ac, dd, <<"sub", "a">>, <<"sub", "b">>}),
     task |->
       [patch |-> [Edge({In("src", ac), In("src", sub), In("src", dd)}, <<sub, dd, stamp, by>>,
                        <<Read(ac), Read(<<"sub", "a">>), Read(dd), Write(<<"sub", "a">>),
                          Write(<<"sub", "c">>), Write(dd), Write(by)>>) EXCEPT !.optional = {by}],
        use   |-> [Edge({In("patch", sub), In("patch", dd), In("patch", by), In("patch", stamp)},
                        <<<<"o", "u">>>>,
                        <<[op |-> "sibling", at |-> <<"sub", "a">>, name |-> "c"], Read(dd),
                          Write(<<"o", "u">>)>>) EXCEPT !.archived = {dd}]]]

McWorlds == {OwnAlias, ConfiguredAlias, Sync, Patch}
==============================================================================
