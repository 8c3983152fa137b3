----------------------------- MODULE BuilderTask -----------------------------
(***************************************************************************)
(* nix-ninja-task, the program that runs one edge's command in a builder:  *)
(* it lays out its inputs from the store in an empty directory, prepares   *)
(* what tools cannot take as a link, runs the command, completes and       *)
(* patches the outputs and copies them to the store (main.rs,              *)
(* derived_file.rs and patchelf.rs of crates/nix-ninja-task/src).          *)
(*                                                                         *)
(* The tasks of a build run one after another, and beside them `real`, the *)
(* one build directory ninja would have run the same commands in: what a   *)
(* task is for is to come to the same.  A file's content is what it was    *)
(* made from.  A path is <<directory, name>>, a tree's is <<directory>>.   *)
(***************************************************************************)
EXTENDS Naturals, FiniteSets, SequencesExt

CONSTANTS Worlds,     \* [configured, task] records: the directory that
                      \* configure left, and the edges by name
          NoTask,
          CopyNames   \* names with an extension that is copied, not linked

ASSUME WorldsAssumption ==
    \A w \in Worlds : NoTask \notin DOMAIN w.task /\ "src" \notin DOMAIN w.task

VARIABLES
    world,
    store,      \* store objects: what is at each path inside
    task,       \* the task that runs, and how far it is
    stage,
    given,      \* its inputs, in the order it was given them
    tree,       \* its build directory
    verdict,    \* of each task: "new", "ok" or "failed"
    real,       \* ninja's build directory
    made,       \* what each command left in it at the declared outputs,
    sound       \* and the tasks whose command ended well there

vars == <<world, store, task, stage, given, tree, verdict, real, made, sound>>

Tasks == DOMAIN world.task
T     == world.task[task]

IsTree(p)     == Len(p) = 1
Under(dir, d) == {p \in DOMAIN dir : p[1] = d}
Beside(p, n)  == <<p[1], n>>

(* What is at a path: a file, a link into the store, or the link to a      *)
(* sibling's name that an alias is.                                        *)
File(content) == [is |-> "file", content |-> content]
Link(o, p)    == [is |-> "link", obj |-> o, of |-> p]
Alias(name)   == [is |-> "alias", to |-> name]

Missing   == [is |-> "missing"]
Source(p) == [is |-> "bytes", by |-> <<"src", p>>, from |-> <<>>, needs |-> {}, origin |-> FALSE, rpath |-> {}]
Empty     == [is |-> "bytes", by |-> <<"empty">>, from |-> <<>>, needs |-> {}, origin |-> FALSE, rpath |-> {}]

At(dir, p) == IF p \in DOMAIN dir THEN dir[p] ELSE Missing

(* Where a path leads: aliases are followed beside themselves, a link into *)
(* the store and, for an alias there, on inside its object.                *)
RECURSIVE Place(_, _, _)
Place(objects, dir, p) ==
    LET e == At(dir, p)
    IN CASE e.is = "alias" -> Place(objects, dir, Beside(p, e.to))
         [] e.is = "link"  -> [Place(objects, objects[e.obj], e.of) EXCEPT !.obj = <<e.obj>>]
         [] OTHER          -> [obj |-> <<>>, at |-> p, found |-> e]

View(objects, dir, p) ==
    LET e == Place(objects, dir, p).found IN IF e.is = "file" THEN e.content ELSE Missing

Put(dir, p, e) == (p :> e) @@ dir

Object(input) == <<input.by, input.at>>
Outputs(t)    == world.task[t].outputs
Makers(t)     == {i.by : i \in world.task[t].inputs} \ {"src"}
-----------------------------------------------------------------------------
(* The command, the same for a task's directory and for ninja's: it reads  *)
(* and writes by path, and some tools look at where a path leads.          *)

Reading(acc, c) == IF c = Missing THEN [acc EXCEPT !.ok = FALSE]
                   ELSE [acc EXCEPT !.read = Append(@, <<c.by, c.from>>)]

(* A tool that resolves a path and reads beside what it finds.             *)
Sibling(objects, dir, p, n) ==
    LET place == Place(objects, dir, p)
    IN IF place.obj = <<>> THEN View(objects, dir, Beside(place.at, n))
       ELSE View(objects, objects[place.obj[1]], Beside(place.at, n))

(* The loader: the search path an executable carries, which is this        *)
(* directory's lib unless it starts from where the executable lies, and    *)
(* then the store directories added to it.                                 *)
Library(objects, dir, p, n) ==
    LET place == Place(objects, dir, p)
        own   == IF place.found.content.origin /\ place.obj # <<>>
                 THEN View(objects, objects[place.obj[1]], <<"lib", n>>)
                 ELSE View(objects, dir, <<"lib", n>>)
        added == {View(objects, objects[o], <<"lib", n>>) : o \in place.found.content.rpath}
    IN IF own # Missing THEN own
       ELSE IF added \ {Missing} = {} THEN Missing ELSE CHOOSE c \in added : c # Missing

(* A tool that takes a header it reaches through a link for another's.     *)
Gathered(objects, dir, ps) == SelectSeq(ps, LAMBDA p : Place(objects, dir, p).obj = <<>>)

Writable(e) == e.is \in {"missing", "file"}

Step(objects, acc, x) ==
    LET dir == acc.dir
        all(cs) == FoldLeft(Reading, acc, cs)
    IN CASE ~acc.ok -> acc
         [] x.op = "read"    -> Reading(acc, View(objects, dir, x.at))
         [] x.op = "sibling" -> Reading(acc, Sibling(objects, dir, x.at, x.name))
         [] x.op = "gather"  -> all([i \in DOMAIN Gathered(objects, dir, x.of) |->
                                       View(objects, dir, Gathered(objects, dir, x.of)[i])])
         [] x.op = "run"     ->
              LET c == View(objects, dir, x.at)
              IN IF c = Missing THEN [acc EXCEPT !.ok = FALSE]
                 ELSE all(<<c>> \o [i \in DOMAIN SetToSeq(c.needs) |->
                                      Library(objects, dir, x.at, SetToSeq(c.needs)[i])])
         [] x.op = "name"    -> [acc EXCEPT !.dir = Put(dir, x.at, Alias(x.to))]
         [] x.op = "write"   ->
              LET p == Place(objects, dir, x.at)
                  c == [is |-> "bytes", by |-> x.at, from |-> acc.read, needs |-> x.needs,
                        origin |-> x.origin, rpath |-> {}]
              IN IF p.obj = <<>> /\ Writable(p.found)
                 THEN [acc EXCEPT !.dir = Put(dir, p.at, File(c))]
                 ELSE [acc EXCEPT !.ok = FALSE]

Command(objects, dir, ops) ==
    FoldLeft(LAMBDA acc, x : Step(objects, acc, x), [dir |-> dir, read |-> <<>>, ok |-> TRUE], ops)
-----------------------------------------------------------------------------
(* Laying out the inputs.                                                  *)

Fine(dir) == [dir |-> dir, ok |-> TRUE]
Refused   == [dir |-> <<>>, ok |-> FALSE]

(* Mutant: only a tree is taken for one that the command edits.            *)
EditsTreesOnly(t, input) == IsTree(input.as) /\ input.as \in ToSet(Outputs(t))

(* partition_edit_in_place: by the path as it is spelled.                  *)
EditsInPlace(t, input) == input.as \in ToSet(Outputs(t))

(* link_tree: file by file, what is there already stays.                   *)
LinkTree(dir, input) ==
    dir @@ [p \in {q \in DOMAIN store[Object(input)] :
                      View(store, store[Object(input)], q) # Missing} |-> Link(Object(input), p)]

(* Mutant: an alias is placed as a link to its store object.               *)
LinkToObject(input) == Link(Object(input), input.at)

(* placement_link_text: an alias is placed as its own text.                *)
LinkText(input) ==
    LET e == store[Object(input)][input.at]
    IN IF e.is = "alias" THEN e ELSE Link(Object(input), input.at)

(* What tools would follow into the store is copied: by extension, by the  *)
(* script that archives it, or for a search path that starts from it.      *)
CopyNotLink(input) ==
    LET e == store[Object(input)][input.at]
    IN /\ e.is = "file"
       /\ \/ input.at[2] \in CopyNames
          \/ input.at \in T.archived
          \/ e.content.needs # {} /\ e.content.origin

PlaceFile(dir, input) ==
    LET old == At(dir, input.at)
        e   == store[Object(input)][input.at]
    IN CASE old.is \in {"link", "alias"} -> IF old = LinkText(input) THEN Fine(dir) ELSE Refused
         [] old.is = "file" -> IF CopyNotLink(input) /\ old = e THEN Fine(dir) ELSE Refused
         [] OTHER -> Fine(Put(dir, input.at, IF CopyNotLink(input) THEN e ELSE LinkText(input)))

PlaceInput(acc, input) ==
    IF ~acc.ok THEN acc
    ELSE IF IsTree(input.at) THEN Fine(LinkTree(acc.dir, input))
    ELSE PlaceFile(acc.dir, input)

(* create_symlinks_with: files first, so that a tree only fills up.        *)
FilesFirst(inputs) == SelectSeq(inputs, LAMBDA i : ~IsTree(i.at))
                      \o SelectSeq(inputs, LAMBDA i : IsTree(i.at))

CreateSymlinks ==
    FoldLeft(PlaceInput, Fine(<<>>),
             FilesFirst(SelectSeq(given, LAMBDA i : ~EditsInPlace(task, i))))

(* copy_tree, without what a tool hides for itself.                         *)
Hidden(p) == p[2] = ".state"
Copies(dir, d) ==
    [p \in {q \in Under(dir, d) : ~Hidden(q) /\ View(store, dir, q) # Missing} |->
        File(View(store, dir, p))]

(* A tree is copied over what is there, and through the links that are; a  *)
(* file takes the place of what is there.                                  *)
EditInput(acc, input) ==
    LET whole == Copies(store[Object(input)], input.at[1])
        one   == View(store, store[Object(input)], input.at)
    IN IF ~acc.ok THEN acc
       ELSE IF IsTree(input.at)
            THEN IF \E p \in DOMAIN whole : At(acc.dir, p).is = "link" THEN Refused
                 ELSE Fine(whole @@ acc.dir)
       ELSE IF one = Missing THEN Refused ELSE Fine(Put(acc.dir, input.at, File(one)))

CopyEdited(laid) ==
    FoldLeft(EditInput, laid, SelectSeq(given, LAMBDA i : EditsInPlace(task, i)))

(* NIX_NINJA_ALIASES, where nothing is.                                     *)
AddAliases(dir) == dir @@ [p \in DOMAIN T.aliases |-> Alias(T.aliases[p])]

(* dereference_rsp_headers: each header that a link leads to is copied.    *)
Dereference(dir) ==
    LET links == {p \in ToSet(T.headers) \cap DOMAIN dir : dir[p].is # "file"}
    IN IF \E p \in links : View(store, dir, p) = Missing THEN Refused
       ELSE Fine([p \in links |-> File(View(store, dir, p))] @@ dir)

LayOut ==
    LET laid == CopyEdited(CreateSymlinks)
    IN IF laid.ok THEN Dereference(AddAliases(laid.dir)) ELSE laid
-----------------------------------------------------------------------------
(* After the command.                                                      *)

IsStamp(p) == p[1] = "CMakeFiles"

(* The outputs of a custom target may be left unwritten; an empty one      *)
(* takes their place.                                                      *)
Stamped(dir, t) ==
    LET custom == \E p \in ToSet(Outputs(t)) : IsStamp(p)
        absent == {p \in ToSet(Outputs(t)) : ~IsTree(p) /\ View(store, dir, p) = Missing}
    IN IF custom THEN [p \in {Place(store, dir, q).at : q \in absent} |-> File(Empty)] @@ dir
       ELSE dir

(* fix_rpaths: each library an output needs is looked up, and the store    *)
(* object it leads to is added to the search path.                          *)
Libraries(dir, p) ==
    {Place(store, dir, <<"lib", n>>) : n \in dir[p].content.needs}
FixRpath(acc, p) ==
    CASE ~acc.ok \/ IsTree(p) -> acc
      [] At(acc.dir, p).is # "file" -> IF At(acc.dir, p) = Missing THEN Refused ELSE acc
      [] \E l \in Libraries(acc.dir, p) : l.found.is # "file" -> Refused
      [] OTHER -> Fine([acc.dir EXCEPT ![p].content.rpath =
                           UNION {ToSet(l.obj) : l \in Libraries(acc.dir, p)}])

(* Mutant: an alias is stored as a copy of what it names.                   *)
StoredThrough(dir, p) == IF IsTree(p) THEN Copies(dir, p[1]) ELSE p :> File(View(store, dir, p))

(* store_output: an alias is stored as its text.                            *)
Stored(dir, p) ==
    IF IsTree(p) THEN Copies(dir, p[1])
    ELSE IF dir[p].is = "alias" THEN p :> dir[p]
    ELSE p :> File(View(store, dir, p))

(* alias_closure: the configured aliases that lead to an output, beside it. *)
RECURSIVE AliasClosure(_, _)
AliasClosure(aliases, names) ==
    LET more == {p \in DOMAIN aliases : \E q \in names : p[1] = q[1] /\ aliases[p] = q[2]}
    IN IF more \subseteq names THEN names ELSE AliasClosure(aliases, names \cup more)

ProducerAliases(t, p) ==
    IF IsTree(p) THEN <<>>
    ELSE [q \in AliasClosure(world.task[t].aliases, {p}) \ {p} |->
             Alias(world.task[t].aliases[q])]

CopyOut(dir, t) ==
    LET fixed == FoldLeft(FixRpath, Fine(dir), Outputs(t))
    IN IF fixed.ok /\ \A p \in ToSet(Outputs(t)) :
                         IsTree(p) \/ dir[p].is = "alias" \/ View(store, dir, p) # Missing
       THEN [store |-> [o \in {<<t, p>> : p \in ToSet(Outputs(t))} |->
                            Stored(fixed.dir, o[2]) @@ ProducerAliases(t, o[2])],
             ok |-> TRUE]
       ELSE Refused
-----------------------------------------------------------------------------
Init ==
    /\ world \in Worlds
    /\ LET files == {p \in DOMAIN world.configured : world.configured[p].is = "file"}
       IN store = [o \in {<<"src", p>> : p \in files} |-> o[2] :> world.configured[o[2]]]
                  @@ [o \in {<<"src", <<p[1]>>>> : p \in files} |->
                        [p \in Under(world.configured, o[2][1]) |-> world.configured[p]]]
    /\ task = NoTask /\ stage = "idle" /\ given = <<>> /\ tree = <<>>
    /\ verdict = [t \in DOMAIN world.task |-> "new"]
    /\ real = world.configured
    /\ made = <<>>
    /\ sound = {}

Begin(t) ==
    /\ task = NoTask /\ verdict[t] = "new"
    /\ \A m \in Makers(t) : verdict[m] = "ok"
    /\ task' = t /\ stage' = "place"
    /\ given' \in SetToSeqs(world.task[t].inputs)
    /\ UNCHANGED <<world, store, tree, verdict, real, made, sound>>

End(v) ==
    /\ verdict' = [verdict EXCEPT ![task] = v]
    /\ task' = NoTask /\ stage' = "idle" /\ given' = <<>> /\ tree' = <<>>

(* The same command in ninja's directory.  What it may leave unwritten it  *)
(* leaves unwritten in both.                                               *)
Ops(left) == SelectSeq(T.ops, LAMBDA x : x.op # "write" \/ x.at \notin left)
Ninja(left) ==
    LET there == Command(store, real, Ops(left))
    IN /\ real' = there.dir
       /\ made' = (task :> [p \in {q \in DOMAIN there.dir :
                                  \E o \in ToSet(T.outputs) : o \in {q, <<q[1]>>}} |->
                              [entry |-> there.dir[p], view |-> View(store, there.dir, p)]])
                  @@ made
       /\ sound' = IF there.ok THEN sound \cup {task} ELSE sound

LayOutInputs ==
    /\ stage = "place"
    /\ IF LayOut.ok
       THEN /\ tree' = LayOut.dir /\ stage' = "run"
            /\ UNCHANGED <<task, given, verdict, real, made, sound>>
       ELSE End("failed") /\ Ninja({})
    /\ UNCHANGED <<world, store>>

RunCommand ==
    /\ stage = "run"
    /\ \E left \in SUBSET T.optional :
          LET here == Command(store, tree, Ops(left))
          IN /\ Ninja(left)
             /\ IF here.ok THEN /\ tree' = here.dir /\ stage' = "store"
                                /\ UNCHANGED <<task, given, verdict>>
                ELSE End("failed")
    /\ UNCHANGED <<world, store>>

(* A command that exits with an error.                                     *)
CommandFails ==
    /\ stage = "run"
    /\ made' = (task :> <<>>) @@ made
    /\ End("failed")
    /\ UNCHANGED <<world, store, real, sound>>

StoreOutputs ==
    /\ stage = "store"
    /\ LET out == CopyOut(Stamped(tree, task), task)
       IN IF out.ok THEN store' = out.store @@ store /\ End("ok")
          ELSE End("failed") /\ UNCHANGED store
    /\ UNCHANGED <<world, real, made, sound>>

Rest == /\ task = NoTask
        /\ \A t \in Tasks : verdict[t] = "new" => \E m \in Makers(t) : verdict[m] # "ok"
        /\ UNCHANGED vars

Next == \/ \E t \in Tasks : Begin(t)
        \/ LayOutInputs \/ RunCommand \/ CommandFails \/ StoreOutputs
        \/ Rest

Spec == Init /\ [][Next]_vars

-----------------------------------------------------------------------------
Same(c, d) == IF c = Missing \/ d = Missing THEN c = d ELSE c.by = d.by /\ c.from = d.from

(* What a task stores is what the command would have left in one build     *)
(* directory: each file, each alias as an alias, and in a tree each file   *)
(* whether it was declared or not.                                         *)
OutputAsReal(t, p) ==
    LET stored == store[<<t, p>>]
        seen   == {q \in DOMAIN made[t] : q[1] = p[1] /\ ~Hidden(q) /\ made[t][q].view # Missing}
    IN IF IsTree(p)
       THEN DOMAIN stored = seen /\ \A q \in seen : Same(stored[q].content, made[t][q].view)
       ELSE IF p \notin DOMAIN made[t] THEN stored[p] = File(Empty)
       ELSE IF made[t][p].entry.is = "alias" THEN stored[p] = made[t][p].entry
       ELSE stored[p].is = "file" /\ Same(stored[p].content, made[t][p].view)
OutputsAsReal ==
    \A t \in Tasks : verdict[t] = "ok" => \A p \in ToSet(Outputs(t)) : OutputAsReal(t, p)

(* Before the command runs, every path the task was given reads as it does *)
(* in the build directory, whatever the order and the spelling of the      *)
(* inputs, and however the maker stored them; only what a custom command   *)
(* left unwritten is there, and empty.                                     *)
InputsAsReal ==
    stage = "run" =>
        \A i \in ToSet(given) : \A p \in DOMAIN store[Object(i)] :
            i.at \in {p, <<p[1]>>} =>
                \/ Same(View(store, tree, p), View(store, real, p))
                \/ View(store, tree, p) = Empty /\ p \notin DOMAIN real

(* A task fails where the command would have failed in the build           *)
(* directory, or has left an output unwritten that no stamp excuses, and   *)
(* nowhere else.                                                           *)
FailsLikeReal ==
    \A t \in Tasks :
        /\ verdict[t] = "ok" => t \in sound
        /\ verdict[t] = "failed" /\ t \in sound =>
              /\ \E p \in ToSet(Outputs(t)) : ~IsTree(p) /\ p \notin DOMAIN made[t]
              /\ \A p \in ToSet(Outputs(t)) : ~IsStamp(p)
=============================================================================
