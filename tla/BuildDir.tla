------------------------------ MODULE BuildDir ------------------------------
(***************************************************************************)
(* The build directory between passes (configure_state.rs: keep_originals, *)
(* journal_placed, Rewind).  A pass places what it built; the next one is  *)
(* to read the directory as configure left it, so what earlier passes      *)
(* placed is set aside first and put back when the pass has placed its     *)
(* own.  Everything is done file by file and a pass may die anywhere.      *)
(*                                                                         *)
(* A file is its bytes and its stamp (mtime and size).  fresh has the      *)
(* files whose inode changed after the last settle or journal, whatever    *)
(* their stamp says.                                                       *)
(***************************************************************************)
EXTENDS Integers, FiniteSets, Functions

CONSTANTS Path,        \* the files that may be in the build directory
          Dir,         \* its subdirectories
          Root,        \* the build directory itself
          In,          \* In[x]: the directory x is in
          Configured   \* the files configure leaves, with their bytes

ASSUME TreeAssumption ==
    /\ IsFiniteSet(Path) /\ IsFiniteSet(Dir)
    /\ Root \notin Dir /\ Path \cap Dir = {}
    /\ In \in [Path \cup Dir -> Dir \cup {Root}]
    /\ \A S \in SUBSET Dir : S # {} => \E d \in S : In[d] \notin S
    /\ DOMAIN Configured \subseteq Path

VARIABLES
    tree,       \* the files on disk: bytes and stamp
    dirs,       \* the directories on disk
    fresh,      \* files whose inode changed since the last settle
    record,     \* configure.v1: the files and directories configure left
    originals,  \* configure's version of what placement replaced
    journal,    \* placed.v1: F and O with stamps, D
    aside,      \* files set aside
    gone,       \* removed-dirs: directories removed, to be made again
    at,         \* what the pass is doing, "off" between passes
    todo,       \* the files or directories left of what it is doing
    back,       \* replaced: O paths to put back, with their stamps
    removed,    \* Rewind::removed_dirs
    rewound,    \* begin returned a Rewind, which is held
    left,       \* CHANGED_SINCE_PLACEMENT: what hooks left at placed paths
    clock       \* the stamp of what is written now

diskVars   == <<tree, dirs, fresh>>
stateVars  == <<record, originals, journal, aside, gone>>
rewindVars == <<at, todo, back, removed, rewound, left>>

Nothing == [x \in {} |-> {}]
None    == <<"none">>
Changed == -1
NoJournal == [kept |-> FALSE, F |-> Nothing, D |-> {}, O |-> Nothing]

With(f, x, v)  == [y \in DOMAIN f \cup {x} |-> IF y = x THEN v ELSE f[y]]
Less(f, S)     == [y \in DOMAIN f \ S |-> f[y]]
Over(f, g)     == [y \in DOMAIN f \cup DOMAIN g |->
                      IF y \in DOMAIN f THEN f[y] ELSE g[y]]
Bytes(p)       == IF p \in DOMAIN tree THEN tree[p].bytes ELSE None
File(b, s)     == [bytes |-> b, stamp |-> s]

(* The directories above x, and the configure-time ones.                    *)
Above[x \in Path \cup Dir] ==
    IF In[x] = Root THEN {} ELSE {In[x]} \cup Above[In[x]]
ConfiguredDirs == UNION {Above[p] : p \in DOMAIN Configured}

Empty(d) == /\ \A p \in DOMAIN tree : In[p] # d
            /\ \A c \in dirs : In[c] # d

-----------------------------------------------------------------------------
(* Mutant: whatever stands where something is set aside gives way.          *)
GiveWayAlways ==
    /\ at \in {"recover", "finish"}
    /\ tree' = Less(tree, DOMAIN aside)
    /\ at' = IF at = "recover" THEN "recover dirs" ELSE "finish dirs"
    /\ UNCHANGED <<dirs, fresh, stateVars, todo, back, removed, rewound, left,
                   clock>>

(* Rewind::restore: configure's versions give way, the directories come    *)
(* back, and then each file whose place is still empty.                    *)
GiveWay ==
    /\ at \in {"recover", "finish"}
    /\ tree' = Less(tree, {p \in DOMAIN tree \cap DOMAIN originals :
                              p \in DOMAIN aside /\ Bytes(p) = originals[p]})
    /\ at' = IF at = "recover" THEN "recover dirs" ELSE "finish dirs"
    /\ UNCHANGED <<dirs, fresh, stateVars, todo, back, removed, rewound, left,
                   clock>>

MakeDirs ==
    /\ at \in {"recover dirs", "finish dirs"}
    /\ dirs' = dirs \cup removed \cup UNION {Above[d] : d \in removed}
    /\ removed' = {}
    /\ gone' = {}
    /\ at' = IF at = "recover dirs" THEN "recover files" ELSE "finish files"
    /\ UNCHANGED <<tree, fresh, record, originals, journal, aside, todo, back,
                   rewound, left, clock>>

Return(p) ==
    /\ at \in {"recover files", "finish files"}
    /\ p \in DOMAIN aside
    /\ aside' = Less(aside, {p})
    /\ IF p \in DOMAIN tree
       THEN UNCHANGED diskVars
       ELSE /\ tree' = With(tree, p, aside[p])
            /\ dirs' = dirs \cup Above[p]
            /\ fresh' = fresh \cup {p}
    /\ UNCHANGED <<record, originals, journal, gone, rewindVars, clock>>

Recovered ==
    /\ at = "recover files" /\ aside = Nothing
    /\ at' = IF ~journal.kept THEN "walk" ELSE "note"
    /\ UNCHANGED <<diskVars, stateVars, todo, back, removed, rewound, left, clock>>

(* settle: what changes an inode after this is a change.                    *)
Settle ==
    /\ at = "finish files" /\ aside = Nothing
    /\ fresh' = {}
    /\ rewound' = FALSE
    /\ at' = "report"
    /\ UNCHANGED <<tree, dirs, stateVars, todo, back, removed, left, clock>>

-----------------------------------------------------------------------------
(* Rewind::begin_in: which placed files still are what placement wrote.    *)
(* read[p] has the bytes earlier passes' edges read there (recorded_at).   *)
KeptStamp(p, read) ==
    p \in fresh /\ read[p] # {} /\ Bytes(p) \notin read[p]

(* Mutant: only the stamp tells an edit.                                    *)
EditedByStamp(p, stamp, read) == tree[p].stamp # stamp

Edited(p, stamp, read) == tree[p].stamp # stamp \/ KeptStamp(p, read)

Mark(f, S) == [p \in DOMAIN f |-> IF p \in S THEN Changed ELSE f[p]]

Note(read) ==
    /\ at = "note"
    /\ LET F == {p \in DOMAIN journal.F : p \in DOMAIN tree}
           O == {p \in DOMAIN journal.O : p \in DOMAIN tree}
           edited == {p \in F : Edited(p, journal.F[p], read)} \cup
                     {p \in O : Edited(p, journal.O[p], read)}
           kept == {p \in edited :
                       /\ KeptStamp(p, read)
                       /\ tree[p].stamp = IF p \in F THEN journal.F[p]
                                                     ELSE journal.O[p]}
       IN /\ left' = [p \in edited |-> Bytes(p)]
          /\ todo' = F \ edited
          /\ back' = Mark(journal.O, kept)
          /\ journal' = [journal EXCEPT !.F = Mark(@, kept), !.O = Mark(@, kept)]
          /\ fresh' = IF kept = {} THEN fresh ELSE {}
    /\ rewound' = TRUE
    /\ at' = "aside"
    /\ UNCHANGED <<tree, dirs, record, originals, aside, gone, removed, clock>>

Move(p) ==
    /\ aside' = With(aside, p, tree[p])
    /\ tree' = Less(tree, {p})
    /\ fresh' = fresh \cup {p}

SetAside(p) ==
    /\ at = "aside" /\ p \in todo
    /\ Move(p)
    /\ todo' = todo \ {p}
    /\ UNCHANGED <<dirs, record, originals, journal, gone, at, back, removed,
                   rewound, left, clock>>

(* The directories that may go are written down before the first goes.     *)
Candidates ==
    /\ at = "aside" /\ todo = {}
    /\ gone' = journal.D \cap dirs
    /\ todo' = journal.D
    /\ at' = "remove"
    /\ UNCHANGED <<diskVars, record, originals, journal, aside, back, removed,
                   rewound, left, clock>>

RemoveDir(d) ==
    /\ at = "remove" /\ d \in todo
    /\ \A c \in todo : d \notin Above[c]
    /\ todo' = todo \ {d}
    /\ IF d \in dirs /\ Empty(d)
       THEN dirs' = dirs \ {d} /\ removed' = removed \cup {d}
       ELSE UNCHANGED <<dirs, removed>>
    /\ UNCHANGED <<tree, fresh, stateVars, at, back, rewound, left, clock>>

AllRemoved ==
    /\ at = "remove" /\ todo = {}
    /\ at' = "put back"
    /\ UNCHANGED <<diskVars, stateVars, todo, back, removed, rewound, left, clock>>

(* A path placement replaced: the placed file goes aside, and configure's  *)
(* version takes its place; one edited since stays.                        *)
Replace(p) ==
    /\ at = "put back" /\ p \in DOMAIN back /\ p \in DOMAIN tree
    /\ IF tree[p].stamp = back[p]
       THEN Move(p) /\ UNCHANGED back
       ELSE back' = Less(back, {p}) /\ UNCHANGED <<tree, fresh, aside>>
    /\ UNCHANGED <<dirs, record, originals, journal, gone, at, todo, removed,
                   rewound, left, clock>>

PutBack(p) ==
    /\ at = "put back" /\ p \in DOMAIN back /\ p \notin DOMAIN tree
    /\ tree' = With(tree, p, File(originals[p], clock))
    /\ dirs' = dirs \cup Above[p]
    /\ fresh' = fresh \cup {p}
    /\ back' = Less(back, {p})
    /\ UNCHANGED <<stateVars, at, todo, removed, rewound, left, clock>>

Begun ==
    /\ at = "put back" /\ back = Nothing
    /\ gone' = removed
    /\ at' = "walk"
    /\ UNCHANGED <<diskVars, record, originals, journal, aside, todo, back,
                   removed, rewound, left, clock>>

RewindStep(read) ==
    \/ GiveWay \/ MakeDirs \/ Recovered \/ Settle \/ Candidates \/ AllRemoved
    \/ Begun
    \/ Note(read)
    \/ \E p \in Path : Return(p) \/ SetAside(p) \/ Replace(p) \/ PutBack(p)
    \/ \E d \in Dir : RemoveDir(d)

-----------------------------------------------------------------------------
(* The first walk records what configure left (save_in); a later one reads *)
(* by that record.                                                         *)
Seen == <<"left", DOMAIN tree, dirs>>

Save ==
    /\ record' = Seen
    /\ originals' = IF aside = Nothing /\ gone = {} THEN Nothing ELSE originals

Walk ==
    /\ at = "walk"
    /\ at' = "run"
    /\ IF record = None THEN Save ELSE UNCHANGED <<record, originals>>
    /\ UNCHANGED <<diskVars, journal, aside, gone, todo, back, removed, rewound,
                   left, clock>>

LeftFiles == record[2]
LeftDirs  == record[3]

(* keep_originals, before anything is placed; it fails where configure's   *)
(* file is gone already.                                                   *)
Keep(p) ==
    /\ at = "keep" /\ p \in todo
    /\ todo' = todo \ {p}
    /\ originals' = IF /\ p \in LeftFiles \cap DOMAIN tree
                       /\ p \notin DOMAIN originals
                    THEN With(originals, p, Bytes(p)) ELSE originals
    /\ UNCHANGED <<diskVars, record, journal, aside, gone, at, back, removed,
                   rewound, left, clock>>

Unkept(placed) == (placed \cap LeftFiles) \ DOMAIN originals

Place(p, bytes) ==
    /\ at = "place" /\ p \in todo
    /\ todo' = todo \ {p}
    /\ tree' = With(tree, p, File(bytes, clock))
    /\ dirs' = dirs \cup Above[p]
    /\ fresh' = fresh \cup {p}
    /\ UNCHANGED <<stateVars, at, back, removed, rewound, left, clock>>

(* journal_placed: every listed output there is, placed now or not.  Of a  *)
(* path that is missing, or again as configure left it, an earlier pass's  *)
(* line stays.  It refuses a file of configure's this pass wrote without a *)
(* copy: without links only a placed path could be one, and none is placed *)
(* while Unkept.                                                           *)
Journal(listed) ==
    LET there == listed \cap DOMAIN tree
        own   == there \ LeftFiles
        over  == {p \in there \cap DOMAIN originals : Bytes(p) # originals[p]}
        stamps(S) == [p \in S |-> tree[p].stamp]
    IN /\ at = "place" /\ todo = {}
       /\ journal' = [kept |-> TRUE,
                      F |-> Over(stamps(own), journal.F),
                      D |-> journal.D \cup ((UNION {Above[p] : p \in there}) \ LeftDirs),
                      O |-> Over(stamps(over), journal.O)]
       /\ fresh' = {}
       /\ at' = IF rewound THEN "finish" ELSE "report"
       /\ UNCHANGED <<tree, dirs, record, originals, aside, gone, todo, back,
                      removed, rewound, left, clock>>

=============================================================================
