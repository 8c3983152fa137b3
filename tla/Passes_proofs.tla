----------------------------- MODULE Passes_proofs -----------------------------
(***************************************************************************)
(* Proofs about Passes, for any files, directories, edges and hooks, and   *)
(* any number of passes, failures, deaths and retries.                     *)
(***************************************************************************)
EXTENDS Passes, TLAPS

(* Nothing that is written has the bytes of a file that is not there.       *)
LatestReal == \A p \in DOMAIN latest : latest[p] # None

Kept(p)  == p \in DOMAIN latest => \/ Bytes(p) = latest[p]
                                   \/ p \in DOMAIN aside /\ aside[p].bytes = latest[p]
                                   \/ AsConfigured(p)

(* Where something stands over a file set aside, it is the newest or it is *)
(* configure's; and once configure's has given way it is the newest.       *)
Newest(p)  == Bytes(p) = latest[p] \/ AsConfigured(p)
StandsOver(p) == p \in DOMAIN tree \cap DOMAIN aside \cap DOMAIN latest =>
                    Newest(p) \/ (p \in DOMAIN originals /\ Bytes(p) = originals[p])
GivenWay == {"recover dirs", "recover files", "finish dirs", "finish files"}
GaveWay == at \in GivenWay =>
    \A p \in DOMAIN tree \cap DOMAIN aside :
        ~(p \in DOMAIN originals /\ Bytes(p) = originals[p])

(* The record and the journal: O has what was placed over configure's      *)
(* files, F never has a file configure left, and what is aside is of one   *)
(* of the two.                                                              *)
Records ==
    /\ record = None =>
          /\ originals = Nothing /\ aside = Nothing /\ ~journal.kept
          /\ at \in {"off", "recover", "recover dirs", "recover files", "walk"}
    /\ record # None =>
          /\ DOMAIN journal.F \cap LeftFiles = {}
          /\ \A p \in DOMAIN aside : p \in DOMAIN journal.O \/ p \notin LeftFiles
          /\ DOMAIN originals \subseteq LeftFiles
    /\ DOMAIN journal.O \subseteq DOMAIN originals
    /\ ~journal.kept => DOMAIN journal.F = {} /\ DOMAIN journal.O = {}
    /\ DOMAIN journal = {"kept", "F", "D", "O"}

(* How far the Rewind has come.                                             *)
Progress ==
    /\ at = "note" => aside = Nothing /\ journal.kept
    /\ at = "aside" => todo \subseteq DOMAIN tree \cap DOMAIN journal.F
    /\ at \in {"aside", "remove"} => DOMAIN tree \cap DOMAIN aside = {}
    /\ at \in {"aside", "remove"} => DOMAIN journal.O \subseteq DOMAIN back
    /\ at \in {"aside", "remove", "put back"} => DOMAIN back \subseteq DOMAIN journal.O
    /\ at = "put back" => /\ DOMAIN tree \cap DOMAIN aside \cap DOMAIN back = {}
                          /\ DOMAIN journal.O \subseteq DOMAIN tree \cup DOMAIN back
    /\ at \in {"walk", "run", "keep", "place"} => DOMAIN journal.O \subseteq DOMAIN tree

(* A pass that set nothing aside has nothing aside.                         *)
Settled ==
    /\ at \in {"recover files", "note", "finish files"} => gone = {}
    /\ at \in {"walk", "run", "keep", "place", "report", "ended"} =>
          rewound \/ (aside = Nothing /\ gone = {})
    /\ at \in {"aside", "remove", "put back"} => rewound
    /\ at \in {"report", "ended"} => ~rewound

Files == /\ LatestReal
         /\ \A p \in DOMAIN latest : Kept(p) /\ StandsOver(p)

PInv == /\ Files
        /\ GaveWay
        /\ Records /\ Progress /\ Settled

-----------------------------------------------------------------------------
(* The initial states, and the first ones of a build tried again.          *)
LEMMA ConfiguredReal == \A p \in DOMAIN Configured : Configured[p] # None
  BY BytesAssumption DEF None

LEMMA NoJournalHas == /\ ~NoJournal.kept
                      /\ DOMAIN NoJournal.F = {} /\ DOMAIN NoJournal.O = {}
                      /\ DOMAIN NoJournal = {"kept", "F", "D", "O"}
<1>1. NoJournal.kept = FALSE /\ NoJournal.F = Nothing /\ NoJournal.O = Nothing
  BY DEF NoJournal
<1> QED
  BY <1>1 DEF NoJournal, Nothing

LEMMA InitKeeps == Init => PInv
<1> SUFFICES ASSUME Init PROVE PInv
  OBVIOUS
<1>1. Files
  BY ConfiguredReal DEF Init, Bare, Files, LatestReal, Kept, StandsOver, Dated, Bytes, File, Nothing
<1>2. /\ GaveWay
      /\ Progress /\ Settled
  BY DEF Init, Bare, Idle, GaveWay, GivenWay, Progress, Settled
<1>3. Records
  BY NoJournalHas DEF Init, Bare, Records, Nothing
<1> QED
  BY <1>1, <1>2, <1>3 DEF PInv

(* What no step of a kind touches: the files, and what is said of them.    *)
Calm == UNCHANGED <<tree, aside, originals, journal, record, latest>>

LEMMA CalmKeeps ==
    ASSUME PInv, Calm
    PROVE  Files' /\ ((at' \in GivenWay => at \in GivenWay) => GaveWay')
  BY DEF Calm, PInv, Files, LatestReal, Kept, StandsOver, Newest, AsConfigured, Bytes, GaveWay

LEMMA CalmSteps ==
    ASSUME PInv, Calm,
           \/ \E t \in Targets : Begin(t)
           \/ Refuse \/ Built \/ AllKept \/ Fail \/ RecordStep \/ Report \/ Exit \/ Kill
           \/ Collect \/ UNCHANGED vars
           \/ \E e \in Edge : Reuse(e) \/ Derive(e)
    PROVE  PInv'
<1>1. CASE \E t \in Targets : Begin(t)
  BY <1>1, CalmKeeps DEF Calm, PInv, Begin, GaveWay, GivenWay, Records, Progress, Settled, LeftFiles, Later, stateVars
<1>2. CASE Refuse \/ UNCHANGED vars \/ Collect \/ RecordStep \/ \E e \in Edge : Reuse(e) \/ Derive(e)
  <2>1. UNCHANGED <<at, todo, back, gone, rewound>>
    BY <1>2 DEF Refuse, vars, Collect, RecordStep, Reuse, Derive, stateVars, rewindVars
  <2> QED
    BY <2>1, CalmKeeps DEF Calm, PInv, GaveWay, GivenWay, Records, Progress, Settled, LeftFiles
<1>3. CASE Built
  BY <1>3, CalmKeeps DEF Calm, PInv, Built, GaveWay, GivenWay, Records, Progress, Settled, LeftFiles, stateVars
<1>4. CASE AllKept
  BY <1>4, CalmKeeps DEF Calm, PInv, AllKept, GaveWay, GivenWay, Records, Progress, Settled, LeftFiles, stateVars
<1>5. CASE Fail
  BY <1>5, CalmKeeps DEF Calm, PInv, Fail, Ready, GaveWay, GivenWay, Records, Progress, Settled, LeftFiles, stateVars
<1>6. CASE Report
  BY <1>6, CalmKeeps DEF Calm, PInv, Report, GaveWay, GivenWay, Records, Progress, Settled, LeftFiles, stateVars
<1>7. CASE Exit \/ Kill
  BY <1>7, CalmKeeps DEF Calm, PInv, Exit, Kill, Forget, GaveWay, GivenWay, Records, Progress, Settled, LeftFiles, stateVars
<1> QED
  BY <1>1, <1>2, <1>3, <1>4, <1>5, <1>6, <1>7

-----------------------------------------------------------------------------
(* The Rewind.                                                              *)
LEMMA RewindCalm ==
    ASSUME PInv, UNCHANGED latest,
           \/ MakeDirs \/ Recovered \/ Settle \/ Candidates \/ AllRemoved
           \/ Begun \/ \E d \in Dir : RemoveDir(d)
    PROVE  PInv'
<1>0. Calm
  BY DEF MakeDirs, Recovered, Settle, Candidates, AllRemoved, Begun, RemoveDir, Calm,
         diskVars, stateVars
<1>1. CASE MakeDirs
  BY <1>0, <1>1, CalmKeeps DEF Calm, PInv, MakeDirs, GaveWay, GivenWay, Records, Progress, Settled, LeftFiles
<1>2. CASE Recovered
  <2>1. Files' /\ GaveWay'
    BY <1>0, <1>2, CalmKeeps DEF Recovered, GaveWay, GivenWay
  <2>2. Records'
    BY <1>2 DEF PInv, Recovered, stateVars, Records, LeftFiles
  <2>3. Progress' /\ Settled'
    BY <1>2 DEF PInv, Recovered, stateVars, diskVars, Records, Nothing, Progress, Settled
  <2> QED
    BY <2>1, <2>2, <2>3 DEF PInv
<1>3. CASE Settle
  BY <1>0, <1>3, CalmKeeps DEF Calm, PInv, Settle, GaveWay, GivenWay, Records, Progress, Settled, LeftFiles, stateVars
<1>4. CASE Candidates
  BY <1>0, <1>4, CalmKeeps DEF Calm, PInv, Candidates, GaveWay, GivenWay, Records, Progress, Settled, LeftFiles
<1>5. CASE AllRemoved
  BY <1>0, <1>5, CalmKeeps DEF Calm, PInv, AllRemoved, GaveWay, GivenWay, Records, Progress, Settled, LeftFiles, stateVars
<1>6. CASE Begun
  BY <1>0, <1>6, CalmKeeps DEF Calm, PInv, Begun, GaveWay, GivenWay, Records, Progress, Settled, LeftFiles, Nothing
<1>7. CASE \E d \in Dir : RemoveDir(d)
  BY <1>0, <1>7, CalmKeeps DEF Calm, PInv, RemoveDir, GaveWay, GivenWay, Records, Progress, Settled, LeftFiles, stateVars
<1> QED
  BY <1>1, <1>2, <1>3, <1>4, <1>5, <1>6, <1>7

LEMMA GiveWayKeeps == PInv /\ GiveWay /\ UNCHANGED latest => PInv'
<1> SUFFICES ASSUME PInv, GiveWay, UNCHANGED latest PROVE PInv'
  OBVIOUS
<1> DEFINE way == {p \in DOMAIN tree \cap DOMAIN originals :
                      p \in DOMAIN aside /\ Bytes(p) = originals[p]}
<1>1. tree' = Less(tree, way) /\ UNCHANGED <<aside, originals, journal, record>>
  BY DEF GiveWay, stateVars
<1>2. \A p \in way \cap DOMAIN latest : latest[p] = originals[p] => AsConfigured(p)
  BY DEF PInv, Records, AsConfigured, Nothing
<1>3. /\ \A p \in DOMAIN tree \ way : Bytes(p)' = Bytes(p)
      /\ \A p \in DOMAIN latest : AsConfigured(p)' = AsConfigured(p)
  BY <1>1 DEF Less, Bytes, AsConfigured
<1>4. DOMAIN tree' = DOMAIN tree \ way
  BY <1>1 DEF Less
<1>5. \A p \in DOMAIN latest : Kept(p)'
  BY <1>1, <1>2, <1>3, <1>4 DEF PInv, Files, Kept, LatestReal, Bytes
<1>6. (\A p \in DOMAIN latest : StandsOver(p)') /\ GaveWay'
  BY <1>1, <1>3, <1>4 DEF PInv, Files, StandsOver, GaveWay, Newest
<1>7. LatestReal'
  BY DEF PInv, Files, LatestReal
<1>8. Records' /\ Progress' /\ Settled'
  BY DEF PInv, Records, Progress, Settled, GiveWay, stateVars, LeftFiles
<1> QED
  BY <1>5, <1>6, <1>7, <1>8 DEF PInv, Files

LEMMA ReturnKeeps ==
    ASSUME PInv, NEW p \in Path, Return(p), UNCHANGED latest
    PROVE  PInv'
<1>1. /\ aside' = Less(aside, {p}) /\ p \in DOMAIN aside
      /\ IF p \in DOMAIN tree THEN tree' = tree ELSE tree' = With(tree, p, aside[p])
      /\ UNCHANGED <<originals, journal, record, at, todo, back, gone, rewound>>
      /\ at \in {"recover files", "finish files"}
  BY DEF Return, diskVars, rewindVars
<1>2. \A q \in DOMAIN latest : AsConfigured(q)' = AsConfigured(q)
  BY <1>1 DEF AsConfigured
<1>3. ASSUME NEW q, q # p
      PROVE  /\ Bytes(q)' = Bytes(q)
             /\ q \in DOMAIN tree' <=> q \in DOMAIN tree
             /\ q \in DOMAIN aside' <=> q \in DOMAIN aside
             /\ q \in DOMAIN aside => aside'[q] = aside[q]
  <2>1. /\ q \in DOMAIN aside' <=> q \in DOMAIN aside
        /\ q \in DOMAIN aside => aside'[q] = aside[q]
    BY <1>1, <1>3 DEF Less
  <2>2. CASE p \in DOMAIN tree
    BY <1>1, <2>1, <2>2 DEF Bytes
  <2>3. CASE p \notin DOMAIN tree
    <3>1. PICK v : tree' = With(tree, p, v)
      BY <1>1, <2>3
    <3>2. (q \in DOMAIN tree' <=> q \in DOMAIN tree) /\ Bytes(q)' = Bytes(q)
      BY <1>3, <3>1 DEF Bytes, With
    <3> QED
      BY <2>1, <3>2
  <2> QED
    BY <2>2, <2>3
<1>4. p \notin DOMAIN aside' /\ p \in DOMAIN tree'
  BY <1>1 DEF Less, With
<1>5. p \in DOMAIN latest => Kept(p)'
  <2>1. CASE p \in DOMAIN tree
    BY <1>1, <1>2, <2>1 DEF PInv, Files, StandsOver, GaveWay, GivenWay, Newest, Kept, Bytes
  <2>2. CASE p \notin DOMAIN tree
    BY <1>1, <1>2, <2>2 DEF PInv, Files, LatestReal, Kept, Bytes, With
  <2> QED
    BY <2>1, <2>2
<1>6. (\A q \in DOMAIN latest : Kept(q)' /\ StandsOver(q)') /\ GaveWay'
  BY <1>1, <1>2, <1>3, <1>4, <1>5 DEF PInv, Files, Kept, StandsOver, GaveWay, Newest
<1>7. LatestReal'
  BY DEF PInv, Files, LatestReal
<1>8. Records' /\ Progress' /\ Settled'
  BY <1>1 DEF PInv, Records, Progress, Settled, LeftFiles, Less, Nothing
<1> QED
  BY <1>6, <1>7, <1>8 DEF PInv, Files

(* A file that goes aside.                                                  *)
LEMMA MoveKeeps ==
    ASSUME PInv, NEW p \in Path, Move(p), p \in DOMAIN tree, p \notin DOMAIN aside,
           UNCHANGED <<latest, originals, journal, record>>,
           at' = at, at \notin GivenWay
    PROVE  /\ Files' /\ GaveWay'
           /\ DOMAIN tree' = DOMAIN tree \ {p} /\ DOMAIN aside' = DOMAIN aside \cup {p}
<1>1. DOMAIN tree' = DOMAIN tree \ {p} /\ DOMAIN aside' = DOMAIN aside \cup {p}
  BY DEF Move, Less, With
<1>2. \A q \in DOMAIN latest : AsConfigured(q)' = AsConfigured(q)
  BY DEF AsConfigured
<1>3. \A q \in DOMAIN latest \ {p} :
         /\ Bytes(q)' = Bytes(q)
         /\ q \in DOMAIN aside => aside'[q] = aside[q]
  BY DEF Bytes, Less, With, Move
<1>4. p \in DOMAIN latest => Kept(p)'
  BY <1>1, <1>2 DEF PInv, Files, Kept, Move, With, Bytes
<1>5. \A q \in DOMAIN latest : Kept(q)' /\ StandsOver(q)'
  BY <1>1, <1>2, <1>3, <1>4 DEF PInv, Files, Kept, StandsOver, Newest
<1> QED
  BY <1>1, <1>5 DEF PInv, Files, LatestReal, GaveWay

LEMMA SetAsideKeeps ==
    ASSUME PInv, NEW p \in Path, SetAside(p), UNCHANGED latest
    PROVE  PInv'
<1>1. /\ Move(p) /\ p \in DOMAIN tree \ DOMAIN aside /\ p \in DOMAIN journal.F
      /\ at = "aside" /\ todo' = todo \ {p}
      /\ UNCHANGED <<record, originals, journal, gone, at, back, rewound>>
  BY DEF SetAside, PInv, Progress
<1>2. /\ Files' /\ GaveWay'
      /\ DOMAIN tree' = DOMAIN tree \ {p} /\ DOMAIN aside' = DOMAIN aside \cup {p}
  BY <1>1, MoveKeeps DEF GivenWay
<1>3. Records'
  BY <1>1, <1>2 DEF PInv, Records, LeftFiles
<1>4. Progress' /\ Settled'
  BY <1>1, <1>2 DEF PInv, Progress, Settled
<1> QED
  BY <1>2, <1>3, <1>4 DEF PInv

LEMMA ReplaceKeeps ==
    ASSUME PInv, NEW p \in Path, Replace(p), UNCHANGED latest
    PROVE  PInv'
<1>1. /\ at = "put back" /\ p \in DOMAIN tree \ DOMAIN aside
      /\ p \in DOMAIN journal.O \cap DOMAIN back
      /\ UNCHANGED <<record, originals, journal, gone, at, todo, rewound>>
  BY DEF Replace, PInv, Progress
<1>2. CASE Move(p) /\ UNCHANGED back
  <2>1. /\ Files' /\ GaveWay'
        /\ DOMAIN tree' = DOMAIN tree \ {p} /\ DOMAIN aside' = DOMAIN aside \cup {p}
    BY <1>1, <1>2, MoveKeeps DEF GivenWay
  <2>2. Records'
    BY <1>1, <2>1 DEF PInv, Records, LeftFiles
  <2>3. Progress'
    BY <1>1, <1>2, <2>1 DEF PInv, Progress
  <2>4. Settled'
    BY <1>1, <1>2 DEF PInv, Settled
  <2> QED
    BY <2>1, <2>2, <2>3, <2>4 DEF PInv
<1>3. CASE back' = Less(back, {p}) /\ UNCHANGED <<tree, fresh, aside>>
  BY <1>1, <1>3, CalmKeeps DEF Calm, PInv, GaveWay, GivenWay, Records, LeftFiles, Progress, Settled, Less
<1> QED
  BY <1>2, <1>3 DEF Replace

LEMMA PutBackKeeps ==
    ASSUME PInv, NEW p \in Path, PutBack(p), UNCHANGED latest
    PROVE  PInv'
<1>1. /\ at = "put back" /\ p \in DOMAIN back \ DOMAIN tree
      /\ p \in DOMAIN originals /\ p \in DOMAIN journal.O
      /\ tree' = With(tree, p, File(originals[p], clock)) /\ back' = Less(back, {p})
      /\ UNCHANGED <<record, originals, journal, aside, gone, at, todo, rewound>>
  BY DEF PutBack, PInv, Progress, Records, stateVars
<1>2. DOMAIN tree' = DOMAIN tree \cup {p} /\ DOMAIN back' = DOMAIN back \ {p}
  BY <1>1 DEF With, Less
<1>3. \A q \in DOMAIN latest : /\ AsConfigured(q)' = AsConfigured(q)
                               /\ q # p => Bytes(q)' = Bytes(q)
  BY <1>1 DEF AsConfigured, Bytes, With
<1>4. Bytes(p)' = originals[p] /\ Bytes(p) = None
  BY <1>1 DEF Bytes, With, File
<1>5. \A q \in DOMAIN latest : Kept(q)' /\ StandsOver(q)'
  BY <1>1, <1>2, <1>3, <1>4 DEF PInv, Files, LatestReal, Kept, StandsOver, Newest
<1>6. Files' /\ GaveWay'
  BY <1>1, <1>5 DEF PInv, Files, LatestReal, GaveWay, GivenWay
<1>7. Records'
  BY <1>1 DEF PInv, Records, LeftFiles
<1>8. Progress' /\ Settled'
  BY <1>1, <1>2 DEF PInv, Progress, Settled
<1> QED
  BY <1>6, <1>7, <1>8 DEF PInv

LEMMA NoteKeeps ==
    ASSUME PInv, NEW read, Note(read), UNCHANGED latest
    PROVE  PInv'
<1>1. /\ at = "note" /\ at' = "aside" /\ rewound' = TRUE
      /\ UNCHANGED <<tree, record, originals, aside, gone>>
      /\ \E kept : /\ back' = Mark(journal.O, kept)
                   /\ journal' = [journal EXCEPT !.F = Mark(@, kept), !.O = Mark(@, kept)]
      /\ \E edited : todo' = {p \in DOMAIN journal.F : p \in DOMAIN tree} \ edited
  BY DEF Note
<1>2. /\ DOMAIN journal'.F = DOMAIN journal.F /\ DOMAIN journal'.O = DOMAIN journal.O
      /\ DOMAIN back' = DOMAIN journal.O /\ DOMAIN journal' = DOMAIN journal
      /\ journal'.kept = journal.kept
  BY <1>1 DEF Mark, PInv, Records
<1>3. \A q \in DOMAIN latest : AsConfigured(q)' = AsConfigured(q) /\ Bytes(q)' = Bytes(q)
  BY <1>1, <1>2 DEF AsConfigured, Bytes
<1>4. Files' /\ GaveWay'
  BY <1>1, <1>3 DEF PInv, Files, LatestReal, Kept, StandsOver, Newest, GaveWay, GivenWay
<1>5. Records'
  BY <1>1, <1>2 DEF PInv, Records, LeftFiles, Progress
<1>6. Progress' /\ Settled'
  BY <1>1, <1>2 DEF PInv, Progress, Settled, Nothing
<1> QED
  BY <1>4, <1>5, <1>6 DEF PInv

LEMMA RewindsKeep == PInv /\ Rewinds => PInv'
<1> SUFFICES ASSUME PInv, Rewinds PROVE PInv'
  OBVIOUS
<1>1. RewindStep(ReadThere) /\ UNCHANGED latest
  BY DEF Rewinds
<1> QED
  BY <1>1, RewindCalm, GiveWayKeeps, ReturnKeeps, SetAsideKeeps, ReplaceKeeps, PutBackKeeps,
     NoteKeeps DEF RewindStep

-----------------------------------------------------------------------------
(* The pass itself.                                                         *)
LEMMA WalkKeeps == PInv /\ WalkStep => PInv'
<1> SUFFICES ASSUME PInv, WalkStep PROVE PInv'
  OBVIOUS
<1>1. /\ at = "walk" /\ at' = "run"
      /\ IF record = None THEN Save ELSE UNCHANGED <<record, originals>>
      /\ UNCHANGED <<tree, journal, aside, gone, todo, back, rewound, latest>>
  BY DEF WalkStep, Walk, diskVars, ghosts
<1>2. CASE record # None
  BY <1>1, <1>2, CalmKeeps DEF Calm, PInv, GaveWay, GivenWay, Records, LeftFiles, Progress, Settled
<1>3. CASE record = None
  <2>1. /\ record' # None /\ UNCHANGED originals /\ originals = Nothing /\ aside = Nothing
        /\ ~journal.kept
    BY <1>1, <1>3 DEF Save, Seen, None, PInv, Records
  <2>2. Files' /\ GaveWay'
    BY <1>1, <2>1 DEF PInv, Files, LatestReal, Kept, StandsOver, Newest, AsConfigured, Bytes, GaveWay, GivenWay
  <2>3. Records'
    BY <1>1, <2>1 DEF PInv, Records, LeftFiles, Nothing
  <2>4. Progress' /\ Settled'
    BY <1>1, <2>1 DEF PInv, Progress, Settled
  <2> QED
    BY <2>2, <2>3, <2>4 DEF PInv
<1> QED
  BY <1>2, <1>3

LEMMA KeepKeeps == PInv /\ KeepStep => PInv'
<1> SUFFICES ASSUME PInv, NEW p \in todo, Keep(p), UNCHANGED latest PROVE PInv'
  BY DEF KeepStep, ghosts
<1>1. /\ at = "keep" /\ todo' = todo \ {p}
      /\ UNCHANGED <<tree, record, journal, aside, gone, at, back, rewound>>
      /\ record # None
  BY DEF Keep, diskVars, PInv, Records
<1>2. \/ UNCHANGED originals
      \/ p \in LeftFiles \ DOMAIN originals /\ \E b : originals' = With(originals, p, b)
  BY DEF Keep
<1>3. /\ DOMAIN originals \subseteq DOMAIN originals'
      /\ DOMAIN originals' \subseteq DOMAIN originals \cup LeftFiles
      /\ \A q \in DOMAIN originals : originals'[q] = originals[q]
  BY <1>2 DEF With
<1>4. \A q \in DOMAIN latest : Bytes(q)' = Bytes(q) /\ (AsConfigured(q) => AsConfigured(q)')
  BY <1>1, <1>3 DEF Bytes, AsConfigured
<1>5. Files' /\ GaveWay'
  BY <1>1, <1>3, <1>4 DEF PInv, Files, LatestReal, Kept, StandsOver, Newest, GaveWay, GivenWay
<1>6. Records'
  BY <1>1, <1>3 DEF PInv, Records, LeftFiles
<1>7. Progress' /\ Settled'
  BY <1>1 DEF PInv, Progress, Settled
<1> QED
  BY <1>5, <1>6, <1>7 DEF PInv

(* A path that is written, in a place where nothing was, or over what was. *)
LEMMA WrittenKeeps ==
    ASSUME PInv, NEW p, NEW bytes, NEW s, bytes # None,
           tree' = With(tree, p, File(bytes, s)), latest' = With(latest, p, bytes),
           UNCHANGED <<aside, originals, journal>>, at' = at, at \notin GivenWay
    PROVE  Files' /\ GaveWay'
<1>1. /\ DOMAIN tree' = DOMAIN tree \cup {p} /\ DOMAIN latest' = DOMAIN latest \cup {p}
      /\ Bytes(p)' = bytes /\ latest'[p] = bytes
  BY DEF With, File, Bytes
<1>2. \A q \in DOMAIN latest \ {p} : /\ Bytes(q)' = Bytes(q) /\ latest'[q] = latest[q]
                                     /\ AsConfigured(q)' = AsConfigured(q)
  BY DEF With, Bytes, AsConfigured
<1>3. \A q \in DOMAIN latest' : Kept(q)' /\ StandsOver(q)' /\ latest'[q] # None
  BY <1>1, <1>2 DEF PInv, Files, LatestReal, Kept, StandsOver, Newest
<1> QED
  BY <1>3 DEF Files, LatestReal, GaveWay

LEMMA TagsReal == /\ \A a, b : <<"built", a, b>> # None
                  /\ \A k : <<"hook", k>> # None /\ <<"patched", k>> # None
  BY DEF None

LEMMA PlaceKeeps == PInv /\ PlaceStep => PInv'
<1> SUFFICES ASSUME PInv, NEW p \in todo, NEW bytes, bytes = Product(p, used[Maker(p)]),
                    Place(p, bytes), latest' = With(latest, p, bytes)
             PROVE  PInv'
  BY DEF PlaceStep
<1>1. /\ at = "place" /\ todo' = todo \ {p} /\ tree' = With(tree, p, File(bytes, clock))
      /\ UNCHANGED <<record, originals, journal, aside, gone, at, back, rewound>>
  BY DEF Place, stateVars
<1>2. bytes # None
  BY TagsReal, ConfiguredReal DEF Product
<1>3. Files' /\ GaveWay'
  BY <1>1, <1>2, WrittenKeeps DEF GivenWay
<1>4. Records'
  BY <1>1 DEF PInv, Records, LeftFiles
<1>5. DOMAIN tree' = DOMAIN tree \cup {p}
  BY <1>1 DEF With
<1>6. Progress' /\ Settled'
  BY <1>1, <1>5 DEF PInv, Progress, Settled
<1> QED
  BY <1>3, <1>4, <1>6 DEF PInv

LEMMA JournalKeeps == PInv /\ JournalStep => PInv'
<1> SUFFICES ASSUME PInv, NEW listed, Journal(listed), UNCHANGED latest PROVE PInv'
  BY DEF JournalStep
<1> DEFINE over == {p \in listed \cap DOMAIN tree \cap DOMAIN originals : Bytes(p) # originals[p]}
<1>1. /\ at = "place" /\ record # None /\ DOMAIN journal.O \subseteq DOMAIN tree
      /\ UNCHANGED <<tree, record, originals, aside, gone, todo, back, rewound>>
      /\ at' = IF rewound THEN "finish" ELSE "report"
  BY DEF Journal, PInv, Records, Progress
<1>2. /\ DOMAIN journal' = {"kept", "F", "D", "O"} /\ journal'.kept = TRUE
      /\ DOMAIN journal'.F = ((listed \cap DOMAIN tree) \ LeftFiles) \cup DOMAIN journal.F
      /\ DOMAIN journal'.O = over \cup DOMAIN journal.O
  BY DEF Journal, Over
<1>3. DOMAIN journal.O \subseteq DOMAIN journal'.O /\ DOMAIN journal'.O \subseteq DOMAIN originals
  BY <1>1, <1>2 DEF PInv, Records
<1>4. \A q \in DOMAIN latest : Bytes(q)' = Bytes(q) /\ (AsConfigured(q) => AsConfigured(q)')
  BY <1>1, <1>3 DEF Bytes, AsConfigured
<1>5. Files' /\ GaveWay'
  BY <1>1, <1>4 DEF PInv, Files, LatestReal, Kept, StandsOver, Newest, GaveWay, GivenWay
<1>6. Records'
  BY <1>1, <1>2, <1>3 DEF PInv, Records, LeftFiles
<1>7. Progress' /\ Settled'
  BY <1>1 DEF PInv, Progress, Settled
<1> QED
  BY <1>5, <1>6, <1>7 DEF PInv

-----------------------------------------------------------------------------
(* Between passes.                                                          *)
LEMMA WriteKeeps == ASSUME PInv, NEW p \in Path, Write(p) PROVE PInv'
<1>1. PICK s : /\ tree' = With(tree, p, File(<<"hook", clock>>, s))
               /\ latest' = With(latest, p, <<"hook", clock>>)
  BY DEF Write
<1>2. /\ at = "off" /\ record # None
      /\ UNCHANGED <<record, originals, journal, aside, gone, at, todo, back, rewound>>
  BY DEF Write, Hook, Later, stateVars, rewindVars
<1>3. Files' /\ GaveWay'
  BY <1>1, <1>2, WrittenKeeps, TagsReal DEF GivenWay
<1>4. Records'
  BY <1>2 DEF PInv, Records, LeftFiles
<1>5. Progress' /\ Settled'
  BY <1>2 DEF PInv, Progress, Settled
<1> QED
  BY <1>3, <1>4, <1>5 DEF PInv

LEMMA DeleteKeeps == ASSUME PInv, NEW p \in Path, Delete(p) PROVE PInv'
<1>1. /\ at = "off" /\ tree' = Less(tree, {p}) /\ latest' = Less(latest, {p})
      /\ UNCHANGED <<record, originals, journal, aside, gone, at, todo, back, rewound>>
  BY DEF Delete, Hook, stateVars, rewindVars
<1>2. /\ DOMAIN latest' = DOMAIN latest \ {p} /\ DOMAIN tree' = DOMAIN tree \ {p}
      /\ \A q \in DOMAIN latest' : /\ latest'[q] = latest[q] /\ Bytes(q)' = Bytes(q)
                                   /\ AsConfigured(q)' = AsConfigured(q)
  BY <1>1 DEF Less, Bytes, AsConfigured
<1>3. Files' /\ GaveWay'
  BY <1>1, <1>2 DEF PInv, Files, LatestReal, Kept, StandsOver, Newest, GaveWay, GivenWay
<1>4. Records'
  BY <1>1 DEF PInv, Records, LeftFiles
<1>5. Progress' /\ Settled'
  BY <1>1 DEF PInv, Progress, Settled
<1> QED
  BY <1>3, <1>4, <1>5 DEF PInv

LEMMA RetryKeeps == PInv /\ Retry => PInv'
<1> SUFFICES ASSUME Retry, PInv PROVE PInv'
  OBVIOUS
<1>1. PICK S \in SUBSET Patched :
         latest' = [p \in DOMAIN Configured |->
                       IF p \in S THEN <<"patched", p>> ELSE Configured[p]]
  BY DEF Retry
<1>2. /\ at = "off" /\ at' = at /\ tree' = Dated(latest')
      /\ record' = None /\ originals' = Nothing /\ journal' = NoJournal /\ aside' = Nothing
      /\ gone' = {} /\ UNCHANGED <<todo, back, rewound>>
  BY DEF Retry, rewindVars
<1>3. \A p \in DOMAIN latest' : latest'[p] # None /\ Bytes(p)' = latest'[p]
  BY <1>1, <1>2, ConfiguredReal, TagsReal DEF Dated, File, Bytes
<1>4. Files' /\ GaveWay'
  BY <1>2, <1>3 DEF Files, LatestReal, Kept, StandsOver, Newest, GaveWay, Nothing
<1>5. Records'
  BY <1>2, NoJournalHas DEF Records, Nothing
<1>6. Progress' /\ Settled'
  BY <1>2 DEF PInv, Progress, Settled
<1> QED
  BY <1>4, <1>5, <1>6 DEF PInv

LEMMA StepKeeps == PInv /\ [Next]_vars => PInv'
<1> SUFFICES ASSUME PInv, [Next]_vars PROVE PInv'
  OBVIOUS
<1>1. CASE \/ \E t \in Targets : Begin(t)
           \/ Refuse \/ Built \/ AllKept \/ Fail \/ RecordStep \/ Report \/ Exit \/ Kill
           \/ Collect \/ UNCHANGED vars
           \/ \E e \in Edge : Reuse(e) \/ Derive(e)
  <2>1. Calm
    BY <1>1 DEF Begin, Refuse, Built, AllKept, Fail, RecordStep, Report, Exit, Kill, Collect, vars, Reuse,
                Derive, Calm, diskVars, stateVars, ghosts
  <2> QED
    BY <1>1, <2>1, CalmSteps
<1>2. CASE Rewinds \/ WalkStep \/ KeepStep \/ PlaceStep \/ JournalStep \/ Retry
  BY <1>2, RewindsKeep, WalkKeeps, KeepKeeps, PlaceKeeps, JournalKeeps, RetryKeeps
<1>3. CASE \E p \in Path : Write(p) \/ Delete(p)
  BY <1>3, WriteKeeps, DeleteKeeps
<1> QED
  BY <1>1, <1>2, <1>3 DEF Next, PassStep, Stopped

(* What was written last is never lost, whatever ends a pass: the claim of *)
(* configure_state.rs for its Rewind.                                       *)
THEOREM NothingIsLost == Spec => []NothingLost
<1>1. PInv => NothingLost
  BY DEF PInv, Files, Kept, Settled, NothingLost
<1> QED
  BY <1>1, InitKeeps, StepKeeps, PTL DEF Spec

-----------------------------------------------------------------------------
(* What bytes and stamps can be: nothing is a hook's that is still to run, *)
(* and no stamp is later than the clock.                                    *)
Old(b, c) == \A k \in Nat : k >= c => b # <<"hook", k>>

Timed(f) == \A p \in DOMAIN f : Old(f[p].bytes, clock) /\ f[p].stamp \in 0..clock
OriginalsTimed == \A p \in DOMAIN originals : Old(originals[p], clock)
MemoryTimed ==
    /\ \A p \in DOMAIN now : Old(now[p], clock)
    /\ \A e \in DOMAIN inputs : \A p \in DOMAIN inputs[e] : Old(inputs[e][p], clock)
    /\ \A e \in DOMAIN merged.inputs :
          \A p \in DOMAIN merged.inputs[e] : Old(merged.inputs[e][p], clock)
    /\ \A f \in files : Old(f[2], clock)
JournalTimed ==
    /\ \A p \in DOMAIN journal.F : journal.F[p] \in {Changed} \cup 0..clock
    /\ \A p \in DOMAIN journal.O : journal.O[p] \in {Changed} \cup 0..clock

TInv == /\ clock \in Nat
        /\ Timed(tree) /\ Timed(aside)
        /\ OriginalsTimed /\ MemoryTimed /\ JournalTimed

LEMMA OldIs == /\ \A c \in Nat : \A b : Old(b, c) => Old(b, c + 1)
               /\ \A c \in Nat : Old(<<"hook", c>>, c + 1)
               /\ \A a, b, c : Old(<<"built", a, b>>, c)
               /\ \A a, c : Old(<<"patched", a>>, c)
               /\ \A c : Old(None, c) /\ Old(Unknown, c)
               /\ \A p \in DOMAIN Configured : \A c : Old(Configured[p], c)
<1>1. /\ \A c \in Nat : \A b : Old(b, c) => Old(b, c + 1)
      /\ \A c \in Nat : Old(<<"hook", c>>, c + 1)
  BY DEF Old
<1>2. /\ \A a, b, c : Old(<<"built", a, b>>, c)
      /\ \A a, c : Old(<<"patched", a>>, c)
      /\ \A c : Old(None, c) /\ Old(Unknown, c)
  BY DEF Old, None, Unknown
<1>3. ASSUME NEW p \in DOMAIN Configured, NEW c PROVE Old(Configured[p], c)
  <2>1. \A k : <<"hook", k>>[1] = "hook"
    OBVIOUS
  <2> QED
    BY <2>1, BytesAssumption DEF Old
<1> QED
  BY <1>1, <1>2, <1>3

(* What a step leaves as it is, takes from or adds to.                      *)
LEMMA TimesStay ==
    ASSUME TInv, clock' \in {clock, clock + 1}
    PROVE  /\ clock' \in Nat
           /\ \A S : tree' \in {tree, Less(tree, S)} => Timed(tree)'
           /\ \A S : aside' \in {aside, Less(aside, S)} => Timed(aside)'
           /\ originals' \in {originals, Nothing} => OriginalsTimed'
           /\ now' \in {now, Nothing} /\ UNCHANGED <<inputs, files>>
              /\ merged' \in {merged, NotMerged} => MemoryTimed'
           /\ journal' = journal => JournalTimed'
<1>1. clock' \in Nat /\ \A b : Old(b, clock) => Old(b, clock')
  BY OldIs DEF TInv
<1>2. \A S : tree' \in {tree, Less(tree, S)} => Timed(tree)'
  BY <1>1 DEF TInv, Timed, Less
<1>3. \A S : aside' \in {aside, Less(aside, S)} => Timed(aside)'
  BY <1>1 DEF TInv, Timed, Less
<1>4. originals' \in {originals, Nothing} => OriginalsTimed'
  BY <1>1 DEF TInv, OriginalsTimed, Nothing
<1>5. now' \in {now, Nothing} /\ UNCHANGED <<inputs, files>>
         /\ merged' \in {merged, NotMerged} => MemoryTimed'
  BY <1>1 DEF TInv, MemoryTimed, NotMerged, Nothing
<1>6. journal' = journal => JournalTimed'
  BY <1>1 DEF TInv, JournalTimed
<1> QED
  BY <1>1, <1>2, <1>3, <1>4, <1>5, <1>6

LEMMA TimesWritten ==
    ASSUME TInv, clock' \in {clock, clock + 1}, NEW p, NEW b, NEW s,
           tree' = With(tree, p, File(b, s)), Old(b, clock'), s \in 0..clock'
    PROVE  Timed(tree)'
<1>1. \A x : Old(x, clock) => Old(x, clock')
  BY OldIs DEF TInv
<1> QED
  BY <1>1 DEF TInv, Timed, With, File

LEMMA InitTimed == Init => TInv
<1> SUFFICES ASSUME Init PROVE TInv
  OBVIOUS
<1>1. Timed(tree)
  BY OldIs DEF Init, Dated, File, Timed
<1>2. Timed(aside) /\ OriginalsTimed /\ MemoryTimed
  BY DEF Init, Bare, Idle, NotMerged, Nothing, Timed, OriginalsTimed, MemoryTimed
<1>3. JournalTimed
  BY NoJournalHas DEF Init, Bare, JournalTimed
<1> QED
  BY <1>1, <1>2, <1>3 DEF TInv, Init

LEMMA RewindsTimed == TInv /\ PInv /\ Rewinds => TInv'
<1> SUFFICES ASSUME TInv, PInv, Rewinds PROVE TInv'
  OBVIOUS
<1>0. RewindStep(ReadThere) /\ UNCHANGED <<now, merged, inputs, files, clock>>
  BY DEF Rewinds, passVars, recordVars, RewindStep, GiveWay, MakeDirs, Recovered, Settle,
         Candidates, AllRemoved, Begun, Note, Return, SetAside, Replace, PutBack, RemoveDir,
         rewindVars
<1>1. clock' \in Nat /\ MemoryTimed'
  BY <1>0, TimesStay
<1>2. CASE MakeDirs \/ Recovered \/ Settle \/ Candidates \/ AllRemoved \/ Begun
           \/ \E d \in Dir : RemoveDir(d)
  <2>1. UNCHANGED <<tree, aside, originals, journal>>
    BY <1>2 DEF MakeDirs, Recovered, Settle, Candidates, AllRemoved, Begun, RemoveDir,
                diskVars, stateVars
  <2> QED
    BY <1>0, <1>1, <2>1, TimesStay DEF TInv
<1>3. CASE GiveWay
  <2>1. UNCHANGED <<aside, originals, journal>> /\ \E S : tree' = Less(tree, S)
    BY <1>3 DEF GiveWay, stateVars
  <2> QED
    BY <1>0, <1>1, <2>1, TimesStay DEF TInv
<1>4. CASE Note(ReadThere)
  <2>1. /\ UNCHANGED <<tree, aside, originals>>
        /\ \E kept : journal' = [journal EXCEPT !.F = Mark(@, kept), !.O = Mark(@, kept)]
    BY <1>4 DEF Note
  <2>2. JournalTimed'
    <3>1. PICK kept : journal' = [journal EXCEPT !.F = Mark(@, kept), !.O = Mark(@, kept)]
      BY <2>1
    <3>2. journal'.F = Mark(journal.F, kept) /\ journal'.O = Mark(journal.O, kept)
      BY <3>1 DEF PInv, Records
    <3> QED
      BY <1>0, <3>2 DEF TInv, JournalTimed, Mark
  <2> QED
    BY <1>0, <1>1, <2>1, <2>2, TimesStay DEF TInv
<1>5. ASSUME NEW p \in Path, Return(p) PROVE TInv'
  <2>1. UNCHANGED <<originals, journal>> /\ aside' = Less(aside, {p}) /\ p \in DOMAIN aside
    BY <1>5 DEF Return
  <2>2. Timed(tree)'
    <3>1. CASE tree' = tree
      BY <1>0, <3>1, TimesStay
    <3>2. CASE tree' = With(tree, p, aside[p])
      <4>1. PICK v : v = aside[p]
        OBVIOUS
      <4> QED
        BY <1>0, <2>1, <3>2, <4>1 DEF TInv, Timed, With
    <3> QED
      BY <1>5, <3>1, <3>2 DEF Return, diskVars
  <2> QED
    BY <1>0, <1>1, <2>1, <2>2, TimesStay DEF TInv
<1>6. ASSUME NEW p \in Path, Move(p), p \in DOMAIN tree, UNCHANGED <<originals, journal>>
      PROVE  TInv'
  <2>1. Timed(tree)'
    BY <1>0, <1>6, TimesStay DEF Move
  <2>2. Timed(aside)'
    <3>1. PICK v : v = tree[p] /\ aside' = With(aside, p, v)
      BY <1>6 DEF Move
    <3> QED
      BY <1>0, <1>6, <3>1 DEF TInv, Timed, With
  <2> QED
    BY <1>0, <1>1, <1>6, <2>1, <2>2, TimesStay DEF TInv
<1>7. ASSUME NEW p \in Path, SetAside(p) PROVE TInv'
  <2>1. Move(p) /\ p \in DOMAIN tree /\ UNCHANGED <<originals, journal>>
    BY <1>7 DEF SetAside, PInv, Progress
  <2> QED
    BY <1>6, <2>1
<1>8. ASSUME NEW p \in Path, Replace(p) PROVE TInv'
  <2>1. \/ Move(p) /\ p \in DOMAIN tree /\ UNCHANGED <<originals, journal>>
        \/ UNCHANGED <<tree, aside, originals, journal>>
    BY <1>8 DEF Replace
  <2> QED
    BY <1>0, <1>1, <1>6, <2>1, TimesStay DEF TInv
<1>9. ASSUME NEW p \in Path, PutBack(p) PROVE TInv'
  <2>1. /\ tree' = With(tree, p, File(originals[p], clock)) /\ p \in DOMAIN originals
        /\ UNCHANGED <<aside, originals, journal>>
    BY <1>9 DEF PutBack, stateVars, PInv, Progress, Records
  <2>2. PICK b : b = originals[p] /\ Old(b, clock)
    BY <2>1 DEF TInv, OriginalsTimed
  <2>3. Timed(tree)'
    BY <1>0, <2>1, <2>2, TimesWritten DEF TInv
  <2> QED
    BY <1>0, <1>1, <2>1, <2>3, TimesStay DEF TInv
<1> QED
  BY <1>0, <1>2, <1>3, <1>4, <1>5, <1>7, <1>8, <1>9 DEF RewindStep

(* What a pass takes for the hash of a file.                                *)
LEMMA BytesOld == TInv => \A p : Old(Bytes(p), clock) /\ Old(Hash(p), clock)
  BY OldIs DEF TInv, Timed, MemoryTimed, Bytes, Hash

LEMMA DeriveTimed == ASSUME TInv, NEW e \in Edge, Derive(e) PROVE TInv'
<1>1. /\ UNCHANGED <<tree, aside, originals, journal, clock, inputs, files, merged>>
      /\ now' = now \/ \E read : (\A p \in DOMAIN read : Old(read[p], clock)) /\ now' = Over(now, read)
  <2>1. UNCHANGED <<tree, aside, originals, journal, clock, inputs, files, merged>>
    BY DEF Derive, diskVars, stateVars
  <2>2. now' = now \/ now' = Over(now, [p \in Given(e) |-> Hash(p)])
    BY DEF Derive, JournalEdge
  <2>3. \A p \in DOMAIN [q \in Given(e) |-> Hash(q)] : Old([q \in Given(e) |-> Hash(q)][p], clock)
    BY BytesOld
  <2> QED
    BY <2>1, <2>2, <2>3
<1>2. MemoryTimed'
  BY <1>1 DEF TInv, MemoryTimed, Over
<1> QED
  BY <1>1, <1>2, TimesStay DEF TInv

LEMMA MergeTimed == TInv /\ RecordStep /\ Merge => TInv'
<1> SUFFICES ASSUME TInv, RecordStep, Merge PROVE TInv'
  OBVIOUS
<1>1. /\ UNCHANGED <<tree, aside, originals, journal, clock, now, inputs>>
      /\ merged'.inputs = Filled(Recorded)
      /\ files' = files \cup PairsOf(Recorded) \cup PairsOf(Filled(Recorded))
  BY DEF RecordStep, Merge, diskVars, stateVars
<1> DEFINE Aged(f) == \A e \in DOMAIN f : \A p \in DOMAIN f[e] : Old(f[e][p], clock)
<1>2. Aged(Recorded)
  <2> DEFINE w == {e \in DOMAIN derived : e \in replaced \/ e \notin DOMAIN inputs}
  <2>1. Recorded = Over([e \in w |-> NewRead(e)], inputs)
    BY DEF Recorded
  <2>2. \A e : \A p \in DOMAIN NewRead(e) : Old(NewRead(e)[p], clock)
    BY BytesOld DEF NewRead
  <2>3. Aged(inputs)
    BY DEF TInv, MemoryTimed
  <2> HIDE DEF w
  <2> QED
    BY <2>1, <2>2, <2>3 DEF Over
<1>3. \A f : Aged(f) => Aged(Filled(f)) /\ \A r \in PairsOf(f) : Old(r[2], clock)
  <2> SUFFICES ASSUME NEW f, Aged(f)
               PROVE  Aged(Filled(f)) /\ \A r \in PairsOf(f) : Old(r[2], clock)
    OBVIOUS
  <2>1. Aged(Filled(f))
    BY BytesOld DEF Filled
  <2>2. \A r \in PairsOf(f) : Old(r[2], clock)
    BY DEF PairsOf
  <2> QED
    BY <2>1, <2>2
<1>4. MemoryTimed'
  <2>1. Aged(merged'.inputs) /\ \A r \in files' : Old(r[2], clock)
    <3> HIDE DEF Aged
    <3>1. Aged(Filled(Recorded))
      BY <1>2, <1>3
    <3>2. \A r \in PairsOf(Recorded) \cup PairsOf(Filled(Recorded)) : Old(r[2], clock)
      BY <1>2, <1>3, <3>1
    <3>3. \A r \in files : Old(r[2], clock)
      BY DEF TInv, MemoryTimed
    <3> QED
      BY <1>1, <3>1, <3>2, <3>3
  <2> QED
    BY <1>1, <2>1 DEF TInv, MemoryTimed
<1> QED
  BY <1>1, <1>4, TimesStay DEF TInv

LEMMA RecordTimed == TInv /\ RecordStep => TInv'
<1> SUFFICES ASSUME TInv, RecordStep, ~Merge PROVE TInv'
  BY MergeTimed
<1>1. /\ UNCHANGED <<tree, aside, originals, journal, clock, now, files>>
      /\ inputs' \in {inputs, merged.inputs}
      /\ \E next : merged' = [merged EXCEPT !.done = next]
  BY DEF RecordStep, After, WriteInputs, WriteEmitted, BackEmitted, BackFiles, BackInputs,
         DropJournal, diskVars, stateVars
<1>2. merged'.inputs = merged.inputs
  BY <1>1
<1>3. MemoryTimed'
  BY <1>1, <1>2 DEF TInv, MemoryTimed
<1> QED
  BY <1>1, <1>3, TimesStay DEF TInv

LEMMA WriteTimed ==
    ASSUME TInv, NEW p \in Path, Write(p)
    PROVE  TInv' /\ clock' = clock + 1
<1>1. /\ clock' = clock + 1
      /\ UNCHANGED <<aside, originals, journal, now, merged, inputs, files>>
  BY DEF Write, Hook, stateVars, recordVars, passVars
<1>2. PICK s : /\ tree' = With(tree, p, File(<<"hook", clock>>, s))
               /\ s = clock' \/ (p \in DOMAIN tree /\ s = tree[p].stamp)
  BY DEF Write
<1>3. s \in 0..clock'
  BY <1>1, <1>2 DEF TInv, Timed
<1>4. Timed(tree)'
  <2>1. PICK b : b = <<"hook", clock>>
    OBVIOUS
  <2>2. Old(b, clock')
    BY <1>1, <2>1, OldIs DEF TInv
  <2> QED
    BY <1>1, <1>2, <1>3, <2>1, <2>2, TimesWritten
<1> QED
  BY <1>1, <1>4, TimesStay DEF TInv

LEMMA RetryTimed == TInv /\ Retry => TInv'
<1> SUFFICES ASSUME TInv, Retry PROVE TInv'
  OBVIOUS
<1>1. PICK S \in SUBSET Patched :
         outside' = [p \in DOMAIN Configured |->
                       IF p \in S THEN <<"patched", p>> ELSE Configured[p]]
  BY DEF Retry
<1>2. /\ tree' = Dated(outside') /\ originals' = Nothing /\ journal' = NoJournal
      /\ aside' = Nothing /\ inputs' = Nothing /\ files' = {}
      /\ UNCHANGED <<clock, now, merged>>
  BY DEF Retry, passVars
<1>3. Timed(tree)'
  BY <1>1, <1>2, OldIs DEF TInv, Dated, File, Timed
<1>4. Timed(aside)' /\ OriginalsTimed' /\ MemoryTimed'
  BY <1>2 DEF TInv, Nothing, Timed, OriginalsTimed, MemoryTimed
<1>5. JournalTimed'
  BY <1>2, NoJournalHas DEF JournalTimed
<1> QED
  BY <1>2, <1>3, <1>4, <1>5 DEF TInv

LEMMA TimedStep == TInv /\ PInv /\ [Next]_vars => TInv'
<1> SUFFICES ASSUME TInv, PInv, [Next]_vars PROVE TInv'
  OBVIOUS
<1>1. CASE \/ \E t \in Targets : Begin(t)
           \/ Refuse \/ Built \/ AllKept \/ Fail \/ Report \/ Exit \/ Kill \/ WalkStep
           \/ Collect \/ UNCHANGED vars \/ \E e \in Edge : Reuse(e)
  <2>1. /\ UNCHANGED <<tree, aside, journal, inputs, files>>
        /\ now' \in {now, Nothing} /\ originals' \in {originals, Nothing}
        /\ clock' \in {clock, clock + 1} /\ merged' \in {merged, NotMerged}
    BY <1>1 DEF Begin, Refuse, Built, AllKept, Fail, Report, Exit, Kill, Forget, WalkStep, Walk, Save,
                Collect, vars, Reuse, diskVars, stateVars, recordVars, passVars
  <2> QED
    BY <2>1, TimesStay DEF TInv
<1>2. CASE KeepStep
  <2>1. PICK p \in todo : Keep(p)
    BY <1>2 DEF KeepStep
  <2>2. UNCHANGED <<tree, aside, journal, inputs, files, now, merged, clock>>
    BY <1>2, <2>1 DEF KeepStep, Keep, diskVars, recordVars, passVars
  <2>3. OriginalsTimed'
    <3>1. originals' = originals \/ originals' = With(originals, p, Bytes(p))
      BY <2>1 DEF Keep
    <3>2. Old(Bytes(p), clock)
      BY BytesOld
    <3> QED
      BY <2>2, <3>1, <3>2 DEF TInv, OriginalsTimed, With
  <2> QED
    BY <2>2, <2>3, TimesStay DEF TInv
<1>3. CASE PlaceStep
  <2>1. PICK p \in todo : /\ Place(p, Product(p, used[Maker(p)]))
                          /\ UNCHANGED <<inputs, files, now, merged>>
    BY <1>3 DEF PlaceStep, recordVars, passVars
  <2>2. PICK b : b = Product(p, used[Maker(p)]) /\ Old(b, clock)
    BY OldIs DEF Product
  <2>3. /\ tree' = With(tree, p, File(b, clock))
        /\ UNCHANGED <<aside, originals, journal, clock>>
    BY <2>1, <2>2 DEF Place, stateVars
  <2>4. Timed(tree)'
    BY <2>2, <2>3, TimesWritten DEF TInv
  <2> QED
    BY <2>1, <2>3, <2>4, TimesStay DEF TInv
<1>4. CASE JournalStep
  <2>1. Journal(Listed) /\ UNCHANGED <<tree, aside, originals, clock, inputs, files, now, merged>>
    BY <1>4 DEF JournalStep, Journal, recordVars, passVars
  <2>2. JournalTimed'
    <3>1. PICK own, over :
             /\ own \subseteq DOMAIN tree /\ over \subseteq DOMAIN tree
             /\ journal'.F = Over([p \in own |-> tree[p].stamp], journal.F)
             /\ journal'.O = Over([p \in over |-> tree[p].stamp], journal.O)
      <4> DEFINE own == (Listed \cap DOMAIN tree) \ LeftFiles
                 over == {p \in Listed \cap DOMAIN tree \cap DOMAIN originals :
                             Bytes(p) # originals[p]}
      <4>1. /\ journal'.F = Over([p \in own |-> tree[p].stamp], journal.F)
            /\ journal'.O = Over([p \in over |-> tree[p].stamp], journal.O)
        BY <2>1 DEF Journal
      <4>2. own \subseteq DOMAIN tree /\ over \subseteq DOMAIN tree
        OBVIOUS
      <4> QED
        BY <4>1, <4>2
    <3> QED
      BY <2>1, <3>1 DEF TInv, Timed, JournalTimed, Over
  <2> QED
    BY <2>1, <2>2, TimesStay DEF TInv
<1>5. CASE \E p \in Path : Delete(p)
  <2>1. /\ UNCHANGED <<aside, originals, journal, inputs, files, now, merged>>
        /\ clock' = clock + 1 /\ \E S : tree' = Less(tree, S)
    BY <1>5 DEF Delete, Hook, stateVars, recordVars, passVars
  <2> QED
    BY <2>1, TimesStay DEF TInv
<1>6. CASE Rewinds \/ RecordStep \/ Retry \/ \E e \in Edge : Derive(e)
  BY <1>6, RewindsTimed, RecordTimed, RetryTimed, DeriveTimed
<1>7. CASE \E p \in Path : Write(p)
  BY <1>7, WriteTimed
<1> QED
  BY <1>1, <1>2, <1>3, <1>4, <1>5, <1>6, <1>7 DEF Next, PassStep, Stopped

-----------------------------------------------------------------------------
(* The directory a pass reads.  What the journal says of p: the stamp of   *)
(* what was placed, and what it was placed over.                            *)
JournaledAt(p) == p \in DOMAIN journal.F \cup DOMAIN journal.O
StampOf(p) == IF p \in DOMAIN journal.F THEN journal.F[p] ELSE journal.O[p]
Under(p)   == IF p \in DOMAIN journal.O THEN originals[p] ELSE None

(* p was placed and is to be set aside, or set aside and is to come back;  *)
(* or it is a hook's, or configure's, which the next pass can tell.         *)
AsPlaced(p, stamp) == JournaledAt(p) /\ stamp = StampOf(p) /\ Outside(p) = Under(p)

BeforeNote == {"off", "recover", "recover dirs", "recover files", "note"}
CanTell(p) == /\ at \in BeforeNote
              /\ p \in fresh /\ Told(p) # {} /\ Bytes(p) \notin Told(p)

Comes(p) == /\ p \in DOMAIN aside
            /\ p \in DOMAIN tree => p \in DOMAIN originals /\ Bytes(p) = originals[p]

FileSound(p) ==
    /\ Comes(p) => AsPlaced(p, aside[p].stamp)
    /\ ~Comes(p) /\ p \notin DOMAIN tree => Outside(p) = Under(p)
    /\ ~Comes(p) /\ p \in DOMAIN tree =>
          \/ AsPlaced(p, tree[p].stamp)
          \/ /\ Outside(p) = Bytes(p)
             /\ JournaledAt(p) /\ tree[p].stamp = StampOf(p) =>
                   CanTell(p) \/ Bytes(p) = Under(p)

(* What a pass has seen to so far, and what it is still to see to.         *)
Seeing(p) ==
    /\ at \in {"aside", "remove", "put back"} =>
          IF p \in DOMAIN back
          THEN IF p \in DOMAIN tree /\ tree[p].stamp # back[p]
               THEN Bytes(p) = Outside(p) ELSE Outside(p) = originals[p]
          ELSE IF at = "aside" /\ p \in todo THEN AsPlaced(p, tree[p].stamp)
          ELSE Bytes(p) = Outside(p)
    /\ at \in {"walk", "run", "keep", "place"} => Bytes(p) = Outside(p)

(* Through a pass the files set aside and the journal keep their stamps.   *)
Aligned ==
    /\ at \in {"aside", "remove", "put back"} =>
          \A p \in DOMAIN back : back[p] = journal.O[p]
    /\ at \in {"aside", "remove", "put back", "walk", "run", "keep", "place"} =>
          \A p \in DOMAIN aside \cap DOMAIN journal.O : aside[p].stamp = journal.O[p]

(* What a pass knows of the earlier ones, and what it may place.           *)
Recall ==
    /\ at \in BeforeNote \ {"off"} /\ record # None => earlier.files = files
    /\ record = None => loose = {}
    /\ record # None => loose \cap LeftFiles \subseteq DOMAIN originals
    /\ at = "place" => todo \cap LeftFiles \subseteq DOMAIN originals
    /\ \A p \in DOMAIN aside : JournaledAt(p)

Sound == /\ \A p \in Path \ loose : FileSound(p) /\ Seeing(p)
         /\ Aligned /\ Recall

SInv == PInv /\ TInv /\ Sound

LEMMA Apart == PInv => DOMAIN journal.F \cap DOMAIN journal.O = {}
  BY DEF PInv, Records, Nothing

(* A file a step has nothing to do with.                                    *)
SameFor(p) ==
    /\ p \in DOMAIN tree' <=> p \in DOMAIN tree
    /\ p \in DOMAIN tree => tree'[p] = tree[p]
    /\ p \in DOMAIN aside' <=> p \in DOMAIN aside
    /\ p \in DOMAIN aside => aside'[p] = aside[p]
    /\ p \in DOMAIN originals' <=> p \in DOMAIN originals
    /\ p \in DOMAIN originals => originals'[p] = originals[p]
    /\ p \in DOMAIN journal'.F <=> p \in DOMAIN journal.F
    /\ p \in DOMAIN journal.F => journal'.F[p] = journal.F[p]
    /\ p \in DOMAIN journal'.O <=> p \in DOMAIN journal.O
    /\ p \in DOMAIN journal.O => journal'.O[p] = journal.O[p]
    /\ Outside(p)' = Outside(p)

LEMMA FileStays ==
    ASSUME NEW p, SameFor(p), DOMAIN journal.O \subseteq DOMAIN originals, FileSound(p),
           JournaledAt(p) /\ CanTell(p) => CanTell(p)'
    PROVE  FileSound(p)'
<1>1. /\ p \in DOMAIN tree' <=> p \in DOMAIN tree
      /\ p \in DOMAIN tree => tree'[p] = tree[p]
      /\ p \in DOMAIN aside' <=> p \in DOMAIN aside
      /\ p \in DOMAIN aside => aside'[p] = aside[p]
      /\ Bytes(p)' = Bytes(p) /\ Outside(p)' = Outside(p)
  BY DEF SameFor, Bytes
<1>2. /\ JournaledAt(p)' <=> JournaledAt(p)
      /\ JournaledAt(p) => StampOf(p)' = StampOf(p)
      /\ Under(p)' = Under(p)
  <2>1. JournaledAt(p)' <=> JournaledAt(p)
    BY DEF SameFor, JournaledAt
  <2>2. JournaledAt(p) => StampOf(p)' = StampOf(p)
    BY DEF SameFor, JournaledAt, StampOf
  <2>3. Under(p)' = Under(p)
    BY DEF SameFor, Under
  <2> QED
    BY <2>1, <2>2, <2>3
<1>3. Comes(p)' <=> Comes(p)
  BY <1>1 DEF SameFor, Comes
<1>4. /\ Comes(p) /\ AsPlaced(p, aside[p].stamp) => AsPlaced(p, aside[p].stamp)'
      /\ p \in DOMAIN tree /\ AsPlaced(p, tree[p].stamp) => AsPlaced(p, tree[p].stamp)'
  BY <1>1, <1>2 DEF AsPlaced, Comes
<1>5. Comes(p)' => AsPlaced(p, aside[p].stamp)'
  BY <1>3, <1>4 DEF FileSound
<1>6. ~Comes(p)' /\ p \notin DOMAIN tree' => Outside(p)' = Under(p)'
  BY <1>1, <1>2, <1>3 DEF FileSound
<1>7. ASSUME ~Comes(p)', p \in DOMAIN tree'
      PROVE  \/ AsPlaced(p, tree[p].stamp)'
             \/ /\ Outside(p)' = Bytes(p)'
                /\ JournaledAt(p)' /\ tree'[p].stamp = StampOf(p)' =>
                       CanTell(p)' \/ Bytes(p)' = Under(p)'
  <2>1. ~Comes(p) /\ p \in DOMAIN tree
    BY <1>1, <1>3, <1>7
  <2>2. CASE AsPlaced(p, tree[p].stamp)
    BY <1>4, <2>1, <2>2
  <2>3. CASE /\ Outside(p) = Bytes(p)
             /\ JournaledAt(p) /\ tree[p].stamp = StampOf(p) =>
                    CanTell(p) \/ Bytes(p) = Under(p)
    <3>1. CASE JournaledAt(p)' /\ tree'[p].stamp = StampOf(p)'
      <4>1. JournaledAt(p) /\ tree[p].stamp = StampOf(p)
        BY <1>1, <1>2, <2>1, <3>1
      <4>2. CanTell(p)' \/ Bytes(p)' = Under(p)'
        BY <1>1, <1>2, <2>3, <4>1
      <4> QED
        BY <1>1, <2>3, <4>2
    <3> QED
      BY <1>1, <2>3, <3>1
  <2> QED
    BY <2>1, <2>2, <2>3 DEF FileSound
<1> QED
  BY <1>5, <1>6, <1>7 DEF FileSound

LEMMA AllSame == UNCHANGED <<tree, aside, originals, journal, outside>> => \A p : SameFor(p)
  BY DEF SameFor, Outside

(* Where a pass neither writes nor moves a file.                            *)
LEMMA QuietSound ==
    ASSUME SInv, UNCHANGED <<tree, aside, originals, journal, outside, loose>>,
           \A p \in Path \ loose : JournaledAt(p) /\ CanTell(p) => CanTell(p)'
    PROVE  \A p \in Path \ loose : FileSound(p)'
  BY FileStays, AllSame DEF SInv, Sound, PInv, Records

LEMMA TellsOn ==
    ASSUME at \in BeforeNote => at' \in BeforeNote, UNCHANGED <<tree, fresh, files>>
    PROVE  \A p : CanTell(p) => CanTell(p)'
  BY DEF CanTell, Told, Bytes

LEMMA InitSound == Init => SInv
<1> SUFFICES ASSUME Init PROVE SInv
  OBVIOUS
<1>1. PInv /\ TInv
  BY InitKeeps, InitTimed
<1>2. /\ at = "off" /\ aside = Nothing /\ loose = {} /\ record = None
      /\ DOMAIN journal.F = {} /\ DOMAIN journal.O = {}
  BY NoJournalHas DEF Init, Bare
<1>3. \A p \in Path : Bytes(p) = Outside(p) /\ (p \notin DOMAIN tree => Outside(p) = None)
  BY DEF Init, Dated, File, Bytes, Outside
<1>4. \A p \in Path : FileSound(p) /\ Seeing(p)
  BY <1>2, <1>3 DEF FileSound, Seeing, Comes, JournaledAt, AsPlaced, Under, Nothing
<1>5. Aligned /\ Recall
  BY <1>2 DEF Aligned, Recall, Nothing, BeforeNote
<1> QED
  BY <1>1, <1>4, <1>5 DEF SInv, Sound

(* The steps that neither write nor move a file.                            *)
LEMMA QuietSteps ==
    ASSUME SInv,
           \/ \E t \in Targets : Begin(t)
           \/ Refuse \/ Built \/ AllKept \/ Fail \/ RecordStep \/ Report \/ Exit \/ Kill
           \/ Collect \/ UNCHANGED vars
           \/ \E e \in Edge : Reuse(e) \/ Derive(e)
    PROVE  Sound'
<1>0. UNCHANGED <<tree, aside, originals, journal, outside, loose, record, fresh>>
  BY DEF Begin, Refuse, Built, AllKept, Fail, RecordStep, Report, Exit, Kill, Collect, vars, Reuse,
         Derive, diskVars, stateVars, ghosts
<1>1. (\A p \in Path \ loose : CanTell(p) => CanTell(p)') => \A p \in Path \ loose' : FileSound(p)'
  BY <1>0, QuietSound
<1>2. ASSUME UNCHANGED <<at, todo, back>> PROVE (\A p \in Path \ loose : Seeing(p)') /\ Aligned'
  <2>1. \A p : Seeing(p)' <=> Seeing(p)
    BY <1>0, <1>2 DEF Seeing, AsPlaced, JournaledAt, StampOf, Under, Outside, Bytes
  <2>2. Aligned'
    BY <1>0, <1>2 DEF SInv, Sound, Aligned
  <2> QED
    BY <2>1, <2>2 DEF SInv, Sound
<1>3. \A p \in DOMAIN aside' : JournaledAt(p)'
  BY <1>0 DEF SInv, Sound, Recall, JournaledAt
<1>4. /\ record' = None => loose' = {}
      /\ record' # None => loose' \cap LeftFiles' \subseteq DOMAIN originals'
  BY <1>0 DEF SInv, Sound, Recall, LeftFiles
<1>5. CASE \E t \in Targets : Begin(t)
  <2>1. at = "off" /\ at' = "recover" /\ files' = files /\ (record # None => earlier'.files = files)
    BY <1>5 DEF Begin, Loaded, Later, FromState, recordVars
  <2>2. \A p \in Path \ loose : CanTell(p) => CanTell(p)'
    BY <1>0, <2>1, TellsOn DEF BeforeNote
  <2>3. (\A p \in Path \ loose : Seeing(p)') /\ Aligned'
    BY <2>1 DEF Seeing, Aligned
  <2>4. Recall'
    BY <1>0, <1>3, <1>4, <2>1 DEF Recall
  <2> QED
    BY <1>0, <1>1, <2>2, <2>3, <2>4 DEF Sound
<1>6. CASE Refuse \/ Collect \/ UNCHANGED vars \/ \E e \in Edge : Reuse(e) \/ Derive(e)
  <2>1. UNCHANGED <<at, todo, back, files, earlier>>
    BY <1>6 DEF Refuse, Collect, vars, Reuse, Derive, rewindVars, recordVars, passVars
  <2>2. \A p \in Path \ loose : CanTell(p) => CanTell(p)'
    BY <1>0, <2>1, TellsOn
  <2>3. Recall'
    BY <1>0, <1>3, <1>4, <2>1 DEF SInv, Sound, Recall, LeftFiles
  <2> QED
    BY <1>0, <1>1, <1>2, <2>1, <2>2, <2>3 DEF Sound
<1>7. CASE Built \/ AllKept
  <2>1. /\ at \in {"run", "keep"} /\ at' \in {"keep", "place"}
        /\ at = "run" => at' = "keep"
        /\ at' = "place" => todo' = target /\ Unkept(target) = {}
        /\ at = "keep" => at' = "place"
    BY <1>7 DEF Built, AllKept
  <2>2. \A p \in Path \ loose : CanTell(p) => CanTell(p)'
    BY <2>1 DEF CanTell, BeforeNote
  <2>3. \A p \in Path \ loose : Seeing(p)'
    BY <1>0, <2>1 DEF SInv, Sound, Seeing, Bytes, Outside
  <2>4. Aligned'
    BY <1>0, <2>1 DEF SInv, Sound, Aligned
  <2>5. at' = "place" => todo' \cap LeftFiles' \subseteq DOMAIN originals'
    BY <1>0, <2>1 DEF Unkept, LeftFiles
  <2>6. Recall'
    BY <1>3, <1>4, <2>1, <2>5 DEF Recall, BeforeNote
  <2> QED
    BY <1>0, <1>1, <2>2, <2>3, <2>4, <2>6 DEF Sound
<1>8. CASE Fail \/ RecordStep \/ Report
  <2>1. /\ at \notin BeforeNote /\ at' \in {"finish", "report", "ended"}
    BY <1>8 DEF Fail, RecordStep, Report, Ready, BeforeNote, rewindVars
  <2>2. \A p \in Path \ loose : CanTell(p) => CanTell(p)'
    BY <2>1 DEF CanTell
  <2>3. (\A p \in Path \ loose : Seeing(p)') /\ Aligned'
    BY <2>1 DEF Seeing, Aligned
  <2>4. Recall'
    BY <1>3, <1>4, <2>1 DEF Recall, BeforeNote
  <2> QED
    BY <1>0, <1>1, <2>2, <2>3, <2>4 DEF Sound
<1>9. CASE Exit \/ Kill
  <2>1. at' = "off" /\ files' = files
    BY <1>9 DEF Exit, Kill, Forget, recordVars
  <2>2. \A p \in Path \ loose : CanTell(p) => CanTell(p)'
    BY <1>0, <2>1, TellsOn DEF BeforeNote
  <2>3. (\A p \in Path \ loose : Seeing(p)') /\ Aligned'
    BY <2>1 DEF Seeing, Aligned
  <2>4. Recall'
    BY <1>3, <1>4, <2>1 DEF Recall, BeforeNote
  <2> QED
    BY <1>0, <1>1, <2>2, <2>3, <2>4 DEF Sound
<1> QED
  BY <1>5, <1>6, <1>7, <1>8, <1>9

LEMMA WalkSound == SInv /\ WalkStep => Sound'
<1> SUFFICES ASSUME SInv, WalkStep PROVE Sound'
  OBVIOUS
<1>1. /\ at = "walk" /\ at' = "run"
      /\ UNCHANGED <<tree, aside, originals, journal, outside, loose>>
      /\ record # None => UNCHANGED record
  BY DEF WalkStep, Walk, Save, diskVars, ghosts, SInv, PInv, Records
<1>2. \A p \in Path \ loose : FileSound(p)'
  BY <1>1, QuietSound DEF CanTell, BeforeNote
<1>3. \A p \in Path \ loose : Seeing(p)'
  BY <1>1 DEF SInv, Sound, Seeing, Bytes, Outside
<1>4. Aligned'
  BY <1>1 DEF SInv, Sound, Aligned
<1>5. /\ record' = None => loose' = {}
      /\ record' # None => loose' \cap LeftFiles' \subseteq DOMAIN originals'
  BY <1>1 DEF SInv, Sound, Recall, LeftFiles
<1>6. \A p \in DOMAIN aside' : JournaledAt(p)'
  BY <1>1 DEF SInv, Sound, Recall, JournaledAt
<1>7. Recall'
  BY <1>1, <1>5, <1>6 DEF Recall, BeforeNote
<1> QED
  BY <1>1, <1>2, <1>3, <1>4, <1>7 DEF Sound

LEMMA QuietRewind ==
    ASSUME SInv, UNCHANGED <<outside, files, earlier, loose>>,
           \/ MakeDirs \/ Recovered \/ Settle \/ Candidates \/ AllRemoved
           \/ Begun \/ \E d \in Dir : RemoveDir(d)
    PROVE  Sound'
<1>0. UNCHANGED <<tree, aside, originals, journal, record>>
  BY DEF MakeDirs, Recovered, Settle, Candidates, AllRemoved, Begun, RemoveDir,
         diskVars, stateVars
<1>1. (\A p \in Path \ loose : JournaledAt(p) /\ CanTell(p) => CanTell(p)')
         => \A p \in Path \ loose' : FileSound(p)'
  BY <1>0, QuietSound
<1>2. \A p \in DOMAIN aside' : JournaledAt(p)'
  BY <1>0 DEF SInv, Sound, Recall, JournaledAt
<1>3. /\ record' = None => loose' = {}
      /\ record' # None => loose' \cap LeftFiles' \subseteq DOMAIN originals'
  BY <1>0 DEF SInv, Sound, Recall, LeftFiles
<1>4. CASE MakeDirs \/ (Recovered /\ journal.kept)
  <2>1. /\ at' \in (BeforeNote \ {"off"}) \cup {"finish files"} /\ UNCHANGED fresh
        /\ at \in BeforeNote => at' \in BeforeNote
        /\ at' \in BeforeNote => at \in BeforeNote \ {"off"}
    BY <1>4 DEF MakeDirs, Recovered, BeforeNote, diskVars
  <2>2. \A p \in Path \ loose : CanTell(p) => CanTell(p)'
    BY <1>0, <2>1, TellsOn
  <2>3. (\A p \in Path \ loose : Seeing(p)') /\ Aligned'
    BY <2>1 DEF Seeing, Aligned, BeforeNote
  <2>4. Recall'
    BY <1>0, <1>2, <1>3, <2>1 DEF SInv, Sound, Recall, BeforeNote
  <2> QED
    BY <1>1, <2>2, <2>3, <2>4 DEF Sound
<1>5. CASE Recovered /\ ~journal.kept
  <2>1. /\ at' = "walk" /\ aside = Nothing
        /\ DOMAIN journal.F = {} /\ DOMAIN journal.O = {}
    BY <1>5 DEF Recovered, SInv, PInv, Records
  <2>2. \A p \in Path \ loose : ~JournaledAt(p)
    BY <2>1 DEF JournaledAt
  <2>3. \A p \in Path \ loose : Bytes(p) = Outside(p)
    BY <2>1, <2>2 DEF SInv, Sound, FileSound, AsPlaced, Comes, Nothing, Under, Bytes
  <2>4. \A p \in Path \ loose : Seeing(p)'
    BY <1>0, <2>1, <2>3 DEF Seeing, Bytes, Outside
  <2>5. Aligned'
    BY <1>0, <2>1 DEF Aligned, Nothing
  <2>6. Recall'
    BY <1>2, <1>3, <2>1 DEF Recall, BeforeNote
  <2> QED
    BY <1>1, <2>2, <2>4, <2>5, <2>6 DEF Sound
<1>6. CASE Settle
  <2>1. at \notin BeforeNote /\ at' = "report"
    BY <1>6 DEF Settle, BeforeNote
  <2>2. (\A p \in Path \ loose : Seeing(p)') /\ Aligned'
    BY <2>1 DEF Seeing, Aligned
  <2>3. Recall'
    BY <1>2, <1>3, <2>1 DEF Recall, BeforeNote
  <2> QED
    BY <1>1, <2>1, <2>2, <2>3 DEF Sound, CanTell
<1>7. CASE Candidates \/ AllRemoved \/ \E d \in Dir : RemoveDir(d)
  <2>1. /\ at \in {"aside", "remove"} /\ at' \in {"remove", "put back"} /\ UNCHANGED back
        /\ at = "aside" => todo = {}
    BY <1>7 DEF Candidates, AllRemoved, RemoveDir
  <2>2. \A p \in Path \ loose : Seeing(p)'
    BY <1>0, <2>1 DEF SInv, Sound, Seeing, Bytes, Outside
  <2>3. Aligned'
    BY <1>0, <2>1 DEF SInv, Sound, Aligned
  <2>4. Recall'
    BY <1>2, <1>3, <2>1 DEF Recall, BeforeNote
  <2> QED
    BY <1>1, <2>1, <2>2, <2>3, <2>4 DEF Sound, CanTell, BeforeNote
<1>8. CASE Begun
  <2>1. at = "put back" /\ at' = "walk" /\ back = Nothing
    BY <1>8 DEF Begun
  <2>2. \A p \in Path \ loose : Seeing(p)'
    BY <1>0, <2>1 DEF SInv, Sound, Seeing, Bytes, Outside, Nothing
  <2>3. Aligned'
    BY <1>0, <2>1 DEF SInv, Sound, Aligned
  <2>4. Recall'
    BY <1>2, <1>3, <2>1 DEF Recall, BeforeNote
  <2> QED
    BY <1>1, <2>1, <2>2, <2>3, <2>4 DEF Sound, CanTell, BeforeNote
<1> QED
  BY <1>4, <1>5, <1>6, <1>7, <1>8

(* The steps of the Rewind that move files.                                 *)
LEMMA GiveWaySound ==
    ASSUME SInv, GiveWay, UNCHANGED <<outside, files, earlier, loose>>
    PROVE  Sound'
<1> DEFINE way == {p \in DOMAIN tree \cap DOMAIN originals :
                      p \in DOMAIN aside /\ Bytes(p) = originals[p]}
<1>1. /\ tree' = Less(tree, way) /\ at \in {"recover", "finish"}
      /\ at' = IF at = "recover" THEN "recover dirs" ELSE "finish dirs"
      /\ UNCHANGED <<aside, originals, journal, record, fresh>>
  BY DEF GiveWay, stateVars
<1>2. ASSUME NEW p \in Path \ loose, p \in way PROVE FileSound(p)'
  <2>1. Comes(p) /\ AsPlaced(p, aside[p].stamp)
    BY <1>2 DEF Comes, SInv, Sound, FileSound
  <2>2. Comes(p)' /\ AsPlaced(p, aside[p].stamp)'
    BY <1>1, <1>2, <2>1 DEF Comes, Less, AsPlaced, JournaledAt, StampOf, Under, Outside
  <2> QED
    BY <2>2 DEF FileSound
<1>3. ASSUME NEW p \in Path \ loose, p \notin way PROVE FileSound(p)'
  <2>1. SameFor(p) /\ Bytes(p)' = Bytes(p)
    BY <1>1, <1>3 DEF SameFor, Outside, Less, Bytes
  <2>2. CanTell(p) => CanTell(p)'
    BY <1>1, <2>1 DEF CanTell, BeforeNote, Told
  <2> QED
    BY <2>1, <2>2, FileStays DEF SInv, Sound, PInv, Records
<1>4. (\A p : Seeing(p)') /\ Aligned'
  BY <1>1 DEF Seeing, Aligned
<1>5. \A p \in DOMAIN aside' : JournaledAt(p)'
  BY <1>1 DEF SInv, Sound, Recall, JournaledAt
<1>6. /\ record' = None => loose' = {}
      /\ record' # None => loose' \cap LeftFiles' \subseteq DOMAIN originals'
  BY <1>1 DEF SInv, Sound, Recall, LeftFiles
<1>7. Recall'
  BY <1>1, <1>5, <1>6 DEF SInv, Sound, Recall, BeforeNote
<1> QED
  BY <1>2, <1>3, <1>4, <1>7 DEF Sound

LEMMA ReturnSound ==
    ASSUME SInv, NEW p \in Path, Return(p), UNCHANGED <<outside, files, earlier, loose>>
    PROVE  Sound'
<1>1. /\ aside' = Less(aside, {p}) /\ p \in DOMAIN aside
      /\ IF p \in DOMAIN tree THEN UNCHANGED <<tree, fresh>>
         ELSE tree' = With(tree, p, aside[p]) /\ fresh' = fresh \cup {p}
      /\ UNCHANGED <<originals, journal, record, at>>
      /\ at \in {"recover files", "finish files"}
  BY DEF Return, diskVars, rewindVars
<1>2. ASSUME NEW q \in Path \ loose, q # p PROVE FileSound(q)'
  <2>1. SameFor(q) /\ Bytes(q)' = Bytes(q)
    <3>1. CASE p \in DOMAIN tree
      BY <1>1, <1>2, <3>1 DEF SameFor, Outside, Less, Bytes
    <3>2. CASE p \notin DOMAIN tree
      <4>1. PICK v : tree' = With(tree, p, v)
        BY <1>1, <3>2
      <4> QED
        BY <1>1, <1>2, <4>1 DEF SameFor, Outside, Less, With, Bytes
    <3> QED
      BY <3>1, <3>2
  <2>2. CanTell(q) => CanTell(q)'
    BY <1>1, <2>1 DEF CanTell, Told
  <2> QED
    BY <2>1, <2>2, FileStays DEF SInv, Sound, PInv, Records
<1>3. ASSUME p \notin loose PROVE FileSound(p)'
  <2>1. ~Comes(p)'
    BY <1>1 DEF Comes, Less
  <2>2. CASE p \in DOMAIN tree
    <3>1. ~Comes(p)
      BY <1>1, <2>2 DEF SInv, PInv, GaveWay, GivenWay, Comes
    <3>2. CanTell(p)' <=> CanTell(p)
      BY <1>1, <2>2 DEF CanTell, Told, Bytes
    <3>3. \/ AsPlaced(p, tree[p].stamp)
          \/ /\ Outside(p) = Bytes(p)
             /\ JournaledAt(p) /\ tree[p].stamp = StampOf(p) =>
                   CanTell(p) \/ Bytes(p) = Under(p)
      BY <1>3, <2>2, <3>1 DEF SInv, Sound, FileSound
    <3>4. /\ UNCHANGED <<tree, journal, originals, outside>>
      BY <1>1, <2>2
    <3>5. \/ AsPlaced(p, tree[p].stamp)'
          \/ /\ Outside(p)' = Bytes(p)'
             /\ JournaledAt(p)' /\ tree'[p].stamp = StampOf(p)' =>
                   CanTell(p)' \/ Bytes(p)' = Under(p)'
      BY <3>2, <3>3, <3>4 DEF AsPlaced, JournaledAt, StampOf, Under, Outside, Bytes
    <3> QED
      BY <2>1, <2>2, <3>4, <3>5 DEF FileSound
  <2>3. CASE p \notin DOMAIN tree
    <3>1. AsPlaced(p, aside[p].stamp)
      BY <1>1, <1>3, <2>3 DEF SInv, Sound, FileSound, Comes
    <3>2. p \in DOMAIN tree' /\ tree'[p] = aside[p]
      BY <1>1, <2>3 DEF With
    <3>3. AsPlaced(p, tree[p].stamp)'
      BY <1>1, <3>1, <3>2 DEF AsPlaced, JournaledAt, StampOf, Under, Outside
    <3> QED
      BY <2>1, <3>2, <3>3 DEF FileSound
  <2> QED
    BY <2>2, <2>3
<1>4. (\A q : Seeing(q)') /\ Aligned'
  BY <1>1 DEF Seeing, Aligned
<1>5. \A q \in DOMAIN aside' : JournaledAt(q)'
  BY <1>1 DEF SInv, Sound, Recall, JournaledAt, Less
<1>6. /\ record' = None => loose' = {}
      /\ record' # None => loose' \cap LeftFiles' \subseteq DOMAIN originals'
  BY <1>1 DEF SInv, Sound, Recall, LeftFiles
<1>7. Recall'
  BY <1>1, <1>5, <1>6 DEF SInv, Sound, Recall, BeforeNote
<1> QED
  BY <1>2, <1>3, <1>4, <1>7 DEF Sound

(* What moving p leaves of the others.                                      *)
LEMMA MoveSame ==
    ASSUME NEW p, Move(p), UNCHANGED <<originals, journal, outside>>
    PROVE  \A q : q # p => SameFor(q) /\ Bytes(q)' = Bytes(q)
<1>1. PICK v : v = tree[p] /\ aside' = With(aside, p, v) /\ tree' = Less(tree, {p})
  BY DEF Move
<1> QED
  BY <1>1 DEF SameFor, Outside, Less, With, Bytes

LEMMA SetAsideSound ==
    ASSUME SInv, NEW p \in Path, SetAside(p), UNCHANGED <<outside, files, earlier, loose>>
    PROVE  Sound'
<1>1. /\ Move(p) /\ at = "aside" /\ p \in todo /\ todo' = todo \ {p}
      /\ p \in DOMAIN tree \ DOMAIN aside
      /\ p \in DOMAIN journal.F \ DOMAIN journal.O /\ p \notin DOMAIN back
      /\ UNCHANGED <<originals, journal, record, at, back>>
  BY Apart DEF SetAside, SInv, PInv, Progress
<1>2. /\ p \notin DOMAIN tree' /\ DOMAIN aside' = DOMAIN aside \cup {p}
      /\ aside'[p] = tree[p] /\ \A q \in DOMAIN aside \ {p} : aside'[q] = aside[q]
  BY <1>1 DEF Move, Less, With
<1>3. ASSUME NEW q \in Path \ loose, q # p PROVE FileSound(q)' /\ Seeing(q)'
  <2>1. SameFor(q) /\ Bytes(q)' = Bytes(q)
    BY <1>1, <1>3, MoveSame
  <2>2. FileSound(q)'
    BY <1>1, <2>1, FileStays DEF CanTell, BeforeNote, SInv, Sound, PInv, Records
  <2>3. (q \in todo' <=> q \in todo) /\ (q \in todo => q \in DOMAIN tree)
    BY <1>1, <1>3 DEF SInv, PInv, Progress
  <2>4. q \in todo /\ q \notin DOMAIN back => AsPlaced(q, tree[q].stamp) /\ AsPlaced(q, tree[q].stamp)'
    BY <1>1, <2>1, <2>3 DEF SInv, Sound, Seeing, SameFor, AsPlaced, JournaledAt, StampOf, Under
  <2>5. Seeing(q)'
    <3>1. CASE q \in DOMAIN back
      <4>1. IF q \in DOMAIN tree /\ tree[q].stamp # back[q]
            THEN Bytes(q) = Outside(q) ELSE Outside(q) = originals[q]
        BY <1>1, <1>3, <3>1 DEF SInv, Sound, Seeing
      <4> QED
        BY <1>1, <2>1, <3>1, <4>1 DEF Seeing, SameFor
    <3>2. CASE q \notin DOMAIN back
      BY <1>1, <2>1, <2>3, <2>4, <3>2 DEF SInv, Sound, Seeing, SameFor
    <3> QED
      BY <3>1, <3>2
  <2> QED
    BY <2>2, <2>5
<1>4. ASSUME p \notin loose PROVE FileSound(p)' /\ Seeing(p)'
  <2>1. AsPlaced(p, tree[p].stamp)
    BY <1>1, <1>4 DEF SInv, Sound, Seeing
  <2>2. AsPlaced(p, aside[p].stamp)'
    BY <1>1, <1>2, <2>1 DEF AsPlaced, JournaledAt, StampOf, Under, Outside
  <2>3. Outside(p)' = None /\ Bytes(p)' = None
    BY <1>1, <1>2, <2>1 DEF AsPlaced, Under, Outside, Bytes
  <2>4. FileSound(p)'
    BY <1>2, <2>2 DEF FileSound, Comes
  <2> QED
    BY <1>1, <2>3, <2>4 DEF Seeing
<1>5. Aligned'
  BY <1>1, <1>2 DEF SInv, Sound, Aligned
<1>6. \A q \in DOMAIN aside' : JournaledAt(q)'
  BY <1>1, <1>2 DEF SInv, Sound, Recall, JournaledAt
<1>7. /\ record' = None => loose' = {}
      /\ record' # None => loose' \cap LeftFiles' \subseteq DOMAIN originals'
  BY <1>1 DEF SInv, Sound, Recall, LeftFiles
<1>8. Recall'
  BY <1>1, <1>6, <1>7 DEF Recall, BeforeNote
<1> QED
  BY <1>3, <1>4, <1>5, <1>8 DEF Sound

LEMMA ReplaceSound ==
    ASSUME SInv, NEW p \in Path, Replace(p), UNCHANGED <<outside, files, earlier, loose>>
    PROVE  Sound'
<1>1. /\ at = "put back" /\ p \in DOMAIN back /\ p \in DOMAIN tree \ DOMAIN aside
      /\ p \in DOMAIN journal.O \ DOMAIN journal.F
      /\ UNCHANGED <<originals, journal, record, at>>
  BY Apart DEF Replace, SInv, PInv, Progress
<1>2. /\ record' = None => loose' = {}
      /\ record' # None => loose' \cap LeftFiles' \subseteq DOMAIN originals'
  BY <1>1 DEF SInv, Sound, Recall, LeftFiles
<1>3. CASE tree[p].stamp = back[p]
  <2>0. Move(p) /\ UNCHANGED back
    BY <1>3 DEF Replace
  <2>1. /\ p \notin DOMAIN tree' /\ DOMAIN aside' = DOMAIN aside \cup {p}
        /\ aside'[p] = tree[p] /\ \A q \in DOMAIN aside \ {p} : aside'[q] = aside[q]
    BY <2>0 DEF Move, Less, With
  <2>2. ASSUME NEW q \in Path \ loose, q # p PROVE FileSound(q)' /\ Seeing(q)'
    <3>1. SameFor(q) /\ Bytes(q)' = Bytes(q)
      BY <1>1, <2>0, <2>2, MoveSame
    <3>2. FileSound(q)'
      BY <1>1, <3>1, FileStays DEF CanTell, BeforeNote, SInv, Sound, PInv, Records
    <3>3. q \in DOMAIN back => q \in DOMAIN originals
      BY <1>1 DEF SInv, PInv, Progress, Records
    <3>4. Seeing(q)'
      BY <1>1, <2>0, <2>2, <3>1, <3>3 DEF SInv, Sound, Seeing, SameFor
    <3> QED
      BY <3>2, <3>4
  <2>3. ASSUME p \notin loose PROVE FileSound(p)' /\ Seeing(p)'
    <3>1. Outside(p) = originals[p]
      BY <1>1, <1>3, <2>3 DEF SInv, Sound, Seeing
    <3>2. tree[p].stamp = journal.O[p]
      BY <1>1, <1>3 DEF SInv, Sound, Aligned
    <3>3. AsPlaced(p, aside[p].stamp)'
      BY <1>1, <2>1, <3>1, <3>2 DEF AsPlaced, JournaledAt, StampOf, Under, Outside
    <3>4. Outside(p)' = originals'[p] /\ p \in DOMAIN back'
      BY <1>1, <2>0, <3>1 DEF Outside
    <3> QED
      BY <1>1, <2>1, <3>3, <3>4 DEF FileSound, Comes, Seeing
  <2>4. Aligned'
    <3>1. tree[p].stamp = journal.O[p]
      BY <1>1, <1>3 DEF SInv, Sound, Aligned
    <3> QED
      BY <1>1, <2>0, <2>1, <3>1 DEF SInv, Sound, Aligned
  <2>5. \A q \in DOMAIN aside' : JournaledAt(q)'
    BY <1>1, <2>1 DEF SInv, Sound, Recall, JournaledAt
  <2>6. Recall'
    BY <1>1, <1>2, <2>5 DEF Recall, BeforeNote
  <2> QED
    BY <2>2, <2>3, <2>4, <2>6 DEF Sound
<1>4. CASE tree[p].stamp # back[p]
  <2>1. back' = Less(back, {p}) /\ UNCHANGED <<tree, aside>>
    BY <1>4 DEF Replace
  <2>2. \A q \in Path \ loose' : FileSound(q)'
    BY <1>1, <2>1, QuietSound DEF CanTell, BeforeNote
  <2>3. \A q \in Path \ loose' : Seeing(q)'
    BY <1>1, <1>4, <2>1 DEF SInv, Sound, Seeing, Less, Bytes, Outside
  <2>4. Aligned'
    BY <1>1, <2>1 DEF SInv, Sound, Aligned, Less
  <2>5. \A q \in DOMAIN aside' : JournaledAt(q)'
    BY <1>1, <2>1 DEF SInv, Sound, Recall, JournaledAt
  <2>6. Recall'
    BY <1>1, <1>2, <2>5 DEF Recall, BeforeNote
  <2> QED
    BY <2>2, <2>3, <2>4, <2>6 DEF Sound
<1> QED
  BY <1>3, <1>4

LEMMA PutBackSound ==
    ASSUME SInv, NEW p \in Path, PutBack(p), UNCHANGED <<outside, files, earlier, loose>>
    PROVE  Sound'
<1>1. /\ at = "put back" /\ p \in DOMAIN back \ DOMAIN tree
      /\ p \in DOMAIN journal.O \ DOMAIN journal.F /\ p \in DOMAIN originals
      /\ tree' = With(tree, p, File(originals[p], clock)) /\ back' = Less(back, {p})
      /\ UNCHANGED <<aside, originals, journal, record, at>>
  BY Apart DEF PutBack, stateVars, SInv, PInv, Progress, Records
<1>2. PICK v : v = File(originals[p], clock) /\ v.bytes = originals[p] /\ tree' = With(tree, p, v)
  BY <1>1 DEF File
<1>3. ASSUME NEW q \in Path \ loose, q # p PROVE FileSound(q)' /\ Seeing(q)'
  <2>1. SameFor(q) /\ Bytes(q)' = Bytes(q)
    BY <1>1, <1>2, <1>3 DEF SameFor, Outside, With, Bytes
  <2>2. FileSound(q)'
    BY <1>1, <2>1, FileStays DEF CanTell, BeforeNote, SInv, Sound, PInv, Records
  <2>3. /\ q \in DOMAIN back => q \in DOMAIN originals
        /\ q \in DOMAIN back' <=> q \in DOMAIN back
        /\ q \in DOMAIN back => back'[q] = back[q]
    BY <1>1, <1>3 DEF SInv, PInv, Progress, Records, Less
  <2>4. Seeing(q)'
    BY <1>1, <2>1, <2>3 DEF SInv, Sound, Seeing, SameFor
  <2> QED
    BY <2>2, <2>4
<1>4. ASSUME p \notin loose PROVE FileSound(p)' /\ Seeing(p)'
  <2>1. Outside(p) = originals[p]
    BY <1>1, <1>4 DEF SInv, Sound, Seeing
  <2>2. /\ Outside(p)' = originals'[p] /\ Under(p)' = originals'[p]
        /\ p \in DOMAIN tree' /\ Bytes(p)' = originals'[p] /\ p \notin DOMAIN back'
    BY <1>1, <1>2, <2>1 DEF Outside, Under, With, Bytes, Less
  <2>3. Comes(p)' => AsPlaced(p, aside[p].stamp)'
    <3>1. ASSUME p \in DOMAIN aside PROVE AsPlaced(p, aside[p].stamp)
      BY <1>1, <1>4, <3>1 DEF SInv, Sound, FileSound, Comes
    <3> QED
      BY <1>1, <2>1, <2>2, <3>1 DEF Comes, AsPlaced, JournaledAt, StampOf
  <2>4. FileSound(p)'
    BY <2>2, <2>3 DEF FileSound
  <2> QED
    BY <1>1, <2>2, <2>4 DEF Seeing
<1>5. Aligned'
  BY <1>1 DEF SInv, Sound, Aligned, Less
<1>6. \A q \in DOMAIN aside' : JournaledAt(q)'
  BY <1>1 DEF SInv, Sound, Recall, JournaledAt
<1>7. /\ record' = None => loose' = {}
      /\ record' # None => loose' \cap LeftFiles' \subseteq DOMAIN originals'
  BY <1>1 DEF SInv, Sound, Recall, LeftFiles
<1>8. Recall'
  BY <1>1, <1>6, <1>7 DEF Recall, BeforeNote
<1> QED
  BY <1>3, <1>4, <1>5, <1>8 DEF Sound

(* What a pass takes for an edit is what the journal cannot vouch for.      *)
LEMMA NoteSound ==
    ASSUME SInv, Note(ReadThere), loose' = loose \cup Mistaken,
           UNCHANGED <<outside, files, earlier>>
    PROVE  Sound'
<1> DEFINE F == {p \in DOMAIN journal.F : p \in DOMAIN tree}
           O == {p \in DOMAIN journal.O : p \in DOMAIN tree}
           edited == {p \in F : Edited(p, journal.F[p], ReadThere)} \cup
                     {p \in O : Edited(p, journal.O[p], ReadThere)}
           kept == {p \in edited :
                       /\ KeptStamp(p, ReadThere)
                       /\ tree[p].stamp = IF p \in F THEN journal.F[p]
                                                     ELSE journal.O[p]}
<1>1. /\ at = "note" /\ at' = "aside" /\ aside = Nothing /\ record # None
      /\ todo' = F \ edited /\ back' = Mark(journal.O, kept)
      /\ journal' = [journal EXCEPT !.F = Mark(@, kept), !.O = Mark(@, kept)]
      /\ UNCHANGED <<tree, aside, originals, record>>
  BY DEF Note, SInv, PInv, Progress, Records
<1>2. /\ journal'.F = Mark(journal.F, kept) /\ journal'.O = Mark(journal.O, kept)
      /\ DOMAIN journal'.F = DOMAIN journal.F /\ DOMAIN journal'.O = DOMAIN journal.O
      /\ DOMAIN back' = DOMAIN journal.O
  BY <1>1 DEF Mark, SInv, PInv, Records
<1>3. \A p : /\ JournaledAt(p)' <=> JournaledAt(p)
             /\ Under(p)' = Under(p) /\ Outside(p)' = Outside(p) /\ Bytes(p)' = Bytes(p)
  BY <1>1, <1>2 DEF JournaledAt, Under, Outside, Bytes
<1>4. \A p : ~Comes(p) /\ ~Comes(p)'
  BY <1>1 DEF Comes, Nothing
<1>5. \A p : JournaledAt(p) =>
               StampOf(p)' = IF p \in kept THEN Changed ELSE StampOf(p)
  BY <1>2 DEF StampOf, JournaledAt, Mark
<1>6. ASSUME NEW p \in Path
      PROVE  KeptStamp(p, ReadThere) <=> CanTell(p)
  <2>1. ReadThere[p] = Told(p)
    BY <1>1, <1>6 DEF ReadThere, Told, SInv, Sound, Recall, BeforeNote
  <2> QED
    BY <1>1, <2>1 DEF KeptStamp, CanTell, BeforeNote
<1>7. ASSUME NEW p \in Path \ (loose \cup Mistaken), JournaledAt(p), p \in DOMAIN tree
      PROVE  FileSound(p)' /\ Seeing(p)'
  <2>1. /\ p \in edited <=> tree[p].stamp # StampOf(p) \/ CanTell(p)
        /\ p \in kept <=> CanTell(p) /\ tree[p].stamp = StampOf(p)
    <3>1. CASE p \in DOMAIN journal.F
      <4>1. p \in F /\ p \notin O /\ StampOf(p) = journal.F[p]
        BY <1>7, <3>1, Apart DEF SInv, StampOf
      <4>2. p \in edited <=> tree[p].stamp # StampOf(p) \/ CanTell(p)
        BY <1>6, <4>1 DEF Edited
      <4> QED
        BY <1>6, <4>1, <4>2
    <3>2. CASE p \notin DOMAIN journal.F
      <4>1. p \notin F /\ p \in O /\ StampOf(p) = journal.O[p]
        BY <1>7, <3>2 DEF JournaledAt, StampOf
      <4>2. p \in edited <=> tree[p].stamp # StampOf(p) \/ CanTell(p)
        BY <1>6, <4>1 DEF Edited
      <4> QED
        BY <1>6, <4>1, <4>2
    <3> QED
      BY <3>1, <3>2
  <2>2. CanTell(p) => Bytes(p) = Outside(p)
    BY <1>6, <1>7 DEF Mistaken, JournaledAt
  <2>3. \/ AsPlaced(p, tree[p].stamp)
        \/ /\ Outside(p) = Bytes(p)
           /\ tree[p].stamp = StampOf(p) => CanTell(p) \/ Bytes(p) = Under(p)
    BY <1>4, <1>7 DEF SInv, Sound, FileSound
  <2>4. p \in DOMAIN back' =>
           /\ p \notin DOMAIN journal.F /\ Under(p) = originals[p]
           /\ back'[p] = StampOf(p)'
    BY <1>1, <1>2, Apart DEF SInv, StampOf, Under
  <2>5. p \notin DOMAIN back' => p \in F
    BY <1>2, <1>7 DEF JournaledAt
  <2> HIDE DEF edited, kept, F, O
  <2>6. CASE tree[p].stamp # StampOf(p)
    <3>1. Outside(p) = Bytes(p) /\ p \notin kept /\ p \notin todo'
      BY <1>1, <2>1, <2>3, <2>6 DEF AsPlaced
    <3>2. tree'[p].stamp # StampOf(p)'
      BY <1>1, <1>5, <1>7, <2>6, <3>1
    <3>3. FileSound(p)'
      BY <1>3, <1>4, <3>1, <3>2, <1>7, <1>1 DEF FileSound
    <3>4. Seeing(p)'
      BY <1>1, <1>3, <1>7, <2>4, <3>1, <3>2 DEF Seeing
    <3> QED
      BY <3>3, <3>4
  <2>7. CASE tree[p].stamp = StampOf(p) /\ CanTell(p)
    <3>1. Outside(p) = Bytes(p) /\ p \in kept /\ p \notin todo'
      BY <1>1, <2>1, <2>2, <2>7
    <3>2. tree'[p].stamp # StampOf(p)'
      BY <1>1, <1>5, <1>7, <3>1 DEF Changed, SInv, TInv, Timed
    <3>3. FileSound(p)'
      BY <1>3, <1>4, <3>1, <3>2, <1>7, <1>1 DEF FileSound
    <3>4. Seeing(p)'
      BY <1>1, <1>3, <1>7, <2>4, <3>1, <3>2 DEF Seeing
    <3> QED
      BY <3>3, <3>4
  <2>8. CASE tree[p].stamp = StampOf(p) /\ ~CanTell(p)
    <3>1. p \notin kept /\ p \notin edited
      BY <2>1, <2>8
    <3>2. Outside(p) = Under(p) /\ tree'[p].stamp = StampOf(p)'
      BY <1>1, <1>5, <1>7, <2>3, <2>8, <3>1 DEF AsPlaced
    <3>3. AsPlaced(p, tree[p].stamp)'
      BY <1>3, <1>7, <3>2 DEF AsPlaced
    <3>4. FileSound(p)'
      BY <1>4, <1>7, <1>1, <3>3 DEF FileSound
    <3>5. Seeing(p)'
      BY <1>1, <1>3, <2>4, <2>5, <3>1, <3>2, <3>3 DEF Seeing
    <3> QED
      BY <3>4, <3>5
  <2> QED
    BY <2>6, <2>7, <2>8
<1>8. ASSUME NEW p \in Path \ (loose \cup Mistaken), ~JournaledAt(p) \/ p \notin DOMAIN tree
      PROVE  FileSound(p)' /\ Seeing(p)'
  <2>1. (p \notin todo' /\ p \notin DOMAIN tree) \/ (p \notin todo' /\ p \notin DOMAIN back')
    BY <1>1, <1>2, <1>8 DEF JournaledAt
  <2>2. p \in DOMAIN tree => Outside(p) = Bytes(p)
    BY <1>4, <1>8 DEF SInv, Sound, FileSound, AsPlaced
  <2>3. p \notin DOMAIN tree => Outside(p) = Under(p)
    BY <1>4, <1>8 DEF SInv, Sound, FileSound
  <2>4. FileSound(p)'
    <3> HIDE DEF edited, kept, F, O
    <3> QED
      BY <1>1, <1>3, <1>4, <1>8, <2>2, <2>3 DEF FileSound
  <2>5. Seeing(p)'
    <3> HIDE DEF edited, kept, F, O
    <3>1. CASE p \in DOMAIN back'
      BY <1>1, <1>2, <1>3, <2>1, <2>3, <3>1 DEF Seeing, Under
    <3>2. CASE p \notin DOMAIN back'
      BY <1>1, <1>2, <1>3, <2>1, <2>2, <2>3, <3>2 DEF Seeing, Under, Bytes
    <3> QED
      BY <3>1, <3>2
  <2> QED
    BY <2>4, <2>5
<1>9. Aligned'
  <2> HIDE DEF kept
  <2> QED
    BY <1>1, <1>2 DEF Aligned, Nothing
<1>10. Recall'
  <2>1. Mistaken \cap LeftFiles \subseteq DOMAIN originals
    BY <1>1 DEF Mistaken, SInv, PInv, Records
  <2> QED
    BY <1>1, <2>1 DEF SInv, Sound, Recall, LeftFiles, BeforeNote, Nothing
<1> QED
  BY <1>7, <1>8, <1>9, <1>10 DEF Sound

LEMMA RewindsSound == SInv /\ Rewinds => Sound'
<1> SUFFICES ASSUME SInv, Rewinds PROVE Sound'
  OBVIOUS
<1>1. /\ RewindStep(ReadThere) /\ UNCHANGED <<outside, files, earlier>>
      /\ loose' = IF at = "note" THEN loose \cup Mistaken ELSE loose
  BY DEF Rewinds, recordVars, passVars
<1>2. CASE Note(ReadThere)
  BY <1>1, <1>2, NoteSound DEF Note
<1>3. CASE \/ MakeDirs \/ Recovered \/ Settle \/ Candidates \/ AllRemoved
           \/ Begun \/ \E d \in Dir : RemoveDir(d)
  <2>1. at # "note"
    BY <1>3 DEF MakeDirs, Recovered, Settle, Candidates, AllRemoved, Begun, RemoveDir
  <2> QED
    BY <1>1, <1>3, <2>1, QuietRewind
<1>4. CASE GiveWay
  BY <1>1, <1>4, GiveWaySound DEF GiveWay
<1>5. ASSUME NEW p \in Path, Return(p) \/ SetAside(p) \/ Replace(p) \/ PutBack(p)
      PROVE  Sound'
  <2>1. at # "note"
    BY <1>5 DEF Return, SetAside, Replace, PutBack
  <2> QED
    BY <1>1, <1>5, <2>1, ReturnSound, SetAsideSound, ReplaceSound, PutBackSound
<1> QED
  BY <1>1, <1>2, <1>3, <1>4, <1>5 DEF RewindStep

(* The pass itself.                                                         *)
LEMMA KeepSound == SInv /\ KeepStep => Sound'
<1> SUFFICES ASSUME SInv, KeepStep, NEW p \in todo, Keep(p) PROVE Sound'
  BY DEF KeepStep
<1>1. /\ at = "keep" /\ at' = "keep"
      /\ record # None
      /\ UNCHANGED <<tree, record, journal, aside, outside, loose>>
  BY DEF KeepStep, Keep, diskVars, ghosts, SInv, PInv, Records
<1>2. \/ UNCHANGED originals
      \/ p \in LeftFiles \ DOMAIN originals /\ \E b : originals' = With(originals, p, b)
  BY DEF Keep
<1>3. ASSUME NEW q \in Path \ loose, q # p \/ UNCHANGED originals PROVE FileSound(q)'
  <2>1. SameFor(q)
    BY <1>1, <1>2, <1>3 DEF SameFor, Outside, With
  <2> QED
    BY <1>1, <2>1, FileStays DEF CanTell, BeforeNote, SInv, Sound, PInv, Records
<1>4. ASSUME p \in Path \ loose, p \in LeftFiles \ DOMAIN originals PROVE FileSound(p)'
  <2>1. ~JournaledAt(p) /\ ~JournaledAt(p)'
    BY <1>1, <1>4 DEF JournaledAt, SInv, PInv, Records
  <2>2. p \notin DOMAIN aside
    BY <2>1 DEF SInv, Sound, Recall
  <2>3. Under(p) = None /\ Under(p)' = None
    BY <1>1, <2>1 DEF Under, JournaledAt
  <2> QED
    BY <1>1, <1>4, <2>1, <2>2, <2>3 DEF SInv, Sound, FileSound, AsPlaced, Comes, Outside, Bytes
<1>5. \A q \in Path \ loose : Seeing(q)'
  BY <1>1 DEF SInv, Sound, Seeing, Bytes, Outside
<1>6. Aligned'
  BY <1>1 DEF SInv, Sound, Aligned
<1>7. \A q \in DOMAIN aside' : JournaledAt(q)'
  BY <1>1 DEF SInv, Sound, Recall, JournaledAt
<1>8. Recall'
  BY <1>1, <1>2, <1>7 DEF SInv, Sound, Recall, BeforeNote, LeftFiles, With
<1> QED
  BY <1>1, <1>2, <1>3, <1>4, <1>5, <1>6, <1>8 DEF Sound

LEMMA PlaceSound == SInv /\ PlaceStep => Sound'
<1> SUFFICES ASSUME SInv, NEW p \in todo, NEW bytes, Place(p, bytes),
                    loose' = loose \cup {p}, UNCHANGED outside
             PROVE  Sound'
  BY DEF PlaceStep
<1>1. /\ at = "place" /\ at' = "place" /\ todo' = todo \ {p} /\ record # None
      /\ UNCHANGED <<record, originals, journal, aside>>
  BY DEF Place, stateVars, SInv, PInv, Records
<1>2. PICK v : tree' = With(tree, p, v)
  BY DEF Place
<1>3. ASSUME NEW q \in Path \ loose, q # p PROVE FileSound(q)' /\ Seeing(q)'
  <2>1. SameFor(q) /\ Bytes(q)' = Bytes(q)
    BY <1>1, <1>2, <1>3 DEF SameFor, Outside, With, Bytes
  <2>2. FileSound(q)'
    BY <1>1, <2>1, FileStays DEF CanTell, BeforeNote, SInv, Sound, PInv, Records
  <2>3. Seeing(q)'
    BY <1>1, <2>1 DEF SInv, Sound, Seeing, SameFor
  <2> QED
    BY <2>2, <2>3
<1>4. Aligned'
  BY <1>1 DEF SInv, Sound, Aligned
<1>5. \A q \in DOMAIN aside' : JournaledAt(q)'
  BY <1>1 DEF SInv, Sound, Recall, JournaledAt
<1>6. Recall'
  BY <1>1, <1>5 DEF SInv, Sound, Recall, BeforeNote, LeftFiles
<1> QED
  BY <1>3, <1>4, <1>6 DEF Sound

LEMMA JournalSound == SInv /\ JournalStep => Sound'
<1> SUFFICES ASSUME SInv, JournalStep PROVE Sound'
  OBVIOUS
<1> DEFINE there == Listed \cap DOMAIN tree
           own   == there \ LeftFiles
           over  == {p \in there \cap DOMAIN originals : Bytes(p) # originals[p]}
           stamps(S) == [p \in S |-> tree[p].stamp]
<1>1. /\ at = "place" /\ at' \in {"finish", "report"} /\ record # None
      /\ journal' = [kept |-> TRUE,
                     F |-> Over(stamps(own), journal.F),
                     D |-> journal.D \cup ((UNION {Above[p] : p \in there}) \ LeftDirs),
                     O |-> Over(stamps(over), journal.O)]
      /\ UNCHANGED <<tree, record, originals, aside>>
      /\ loose' = loose \ there
  BY DEF JournalStep, Journal, SInv, PInv, Records
<1>2. /\ DOMAIN journal'.F = own \cup DOMAIN journal.F
      /\ DOMAIN journal'.O = over \cup DOMAIN journal.O
      /\ \A p \in own : journal'.F[p] = tree[p].stamp
      /\ \A p \in DOMAIN journal.F \ own : journal'.F[p] = journal.F[p]
      /\ \A p \in over : journal'.O[p] = tree[p].stamp
      /\ \A p \in DOMAIN journal.O \ over : journal'.O[p] = journal.O[p]
  BY <1>1 DEF Over
<1>3. /\ DOMAIN originals \subseteq LeftFiles
      /\ DOMAIN journal.O \subseteq DOMAIN originals \cap DOMAIN tree
      /\ DOMAIN journal.F \cap LeftFiles = {}
      /\ loose \cap LeftFiles \subseteq DOMAIN originals
  BY <1>1 DEF SInv, PInv, Records, Progress, Sound, Recall
<1>4. \A p : /\ p \in there \cap DOMAIN originals => Outside(p)' = originals[p]
             /\ p \in own => Outside(p)' = None
             /\ p \notin own \cup (there \cap DOMAIN originals) => Outside(p)' = Outside(p)
  <2>1. outside' = [p \in (DOMAIN outside \ (there \ (LeftFiles \cup DOMAIN originals)))
                               \cup (there \cap DOMAIN originals) |->
                       IF p \in there \cap DOMAIN originals THEN originals[p] ELSE outside[p]]
    BY DEF JournalStep
  <2> QED
    BY <1>3, <2>1 DEF Outside
<1> HIDE DEF there, own, over
<1>a. /\ own \subseteq there /\ own \cap LeftFiles = {} /\ there \subseteq DOMAIN tree
      /\ there \ LeftFiles \subseteq own
      /\ over = {p \in there \cap DOMAIN originals : Bytes(p) # originals[p]}
      /\ \A p \in Listed \cap DOMAIN tree : p \in there
  BY DEF own, there, over
<1>5. \A p : Bytes(p)' = Bytes(p) /\ (Comes(p)' <=> Comes(p))
  BY <1>1 DEF Bytes, Comes
<1>6. ASSUME NEW p \in own PROVE FileSound(p)'
  <2>1. p \notin DOMAIN originals /\ p \notin DOMAIN journal'.O /\ p \in DOMAIN tree
    BY <1>2, <1>3, <1>6, <1>a
  <2>2. AsPlaced(p, tree[p].stamp)'
    BY <1>1, <1>2, <1>4, <1>6, <2>1 DEF AsPlaced, JournaledAt, StampOf, Under
  <2> QED
    BY <1>1, <2>1, <2>2 DEF FileSound, Comes
<1>7. ASSUME NEW p \in there \cap DOMAIN originals, p \in over PROVE FileSound(p)'
  <2>1. p \notin DOMAIN journal'.F /\ p \in DOMAIN tree
    BY <1>2, <1>3, <1>7, <1>a
  <2>2. AsPlaced(p, tree[p].stamp)'
    BY <1>1, <1>2, <1>4, <1>7, <2>1 DEF AsPlaced, JournaledAt, StampOf, Under
  <2> QED
    BY <1>1, <1>7, <1>a, <2>1, <2>2 DEF FileSound, Comes, Bytes
<1>8. ASSUME NEW p \in there \cap DOMAIN originals, p \notin over PROVE FileSound(p)'
  <2>1. /\ p \notin DOMAIN journal'.F /\ p \notin DOMAIN journal.F /\ p \in DOMAIN tree /\ p \in Listed
    BY <1>2, <1>3, <1>8, <1>a DEF there
  <2>2. Bytes(p) = originals[p] /\ Outside(p)' = originals[p]
    BY <1>4, <1>8, <1>a, <2>1
  <2>3. JournaledAt(p)' => p \in DOMAIN journal'.O /\ p \in DOMAIN journal.O
                             /\ journal'.O[p] = journal.O[p]
    BY <1>2, <1>8, <2>1 DEF JournaledAt
  <2>4. JournaledAt(p)' => Under(p)' = originals[p]
    BY <1>1, <2>3 DEF Under
  <2>5. Comes(p)' => AsPlaced(p, aside[p].stamp)'
    <3>1. ASSUME p \in DOMAIN aside PROVE p \in DOMAIN journal.O /\ aside[p].stamp = journal.O[p]
      BY <1>1, <2>1, <3>1 DEF SInv, Sound, Recall, JournaledAt, Aligned
    <3>2. ASSUME p \in DOMAIN aside PROVE p \in DOMAIN journal'.O /\ journal'.O[p] = journal.O[p]
      BY <1>2, <1>8, <3>1, <3>2
    <3> QED
      BY <1>1, <2>1, <2>2, <2>4, <3>1, <3>2 DEF Comes, AsPlaced, JournaledAt, StampOf
  <2> QED
    BY <1>1, <1>5, <2>1, <2>2, <2>4, <2>5 DEF FileSound
<1>9. ASSUME NEW p \in Path \ loose, p \notin own, p \notin there \cap DOMAIN originals
      PROVE  FileSound(p)'
  <2>1. p \notin over
    BY <1>9, <1>a
  <2>2. SameFor(p)
    BY <1>1, <1>2, <1>4, <1>9, <2>1 DEF SameFor
  <2> QED
    BY <1>1, <2>2, FileStays DEF CanTell, BeforeNote, SInv, Sound, PInv, Records
<1>10. \A p \in Path \ loose' : FileSound(p)'
  <2> SUFFICES ASSUME NEW p \in Path \ loose' PROVE FileSound(p)'
    OBVIOUS
  <2>1. p \notin own /\ p \in there /\ p \notin DOMAIN originals => p \notin loose
    BY <1>3, <1>a
  <2>2. CASE p \in own \/ p \in there \cap DOMAIN originals
    BY <1>6, <1>7, <1>8, <2>2
  <2>3. CASE p \notin own /\ p \notin there \cap DOMAIN originals
    BY <1>1, <1>9, <2>1, <2>3
  <2> QED
    BY <2>2, <2>3
<1>11. (\A p \in Path \ loose' : Seeing(p)') /\ Aligned'
  BY <1>1 DEF Seeing, Aligned
<1>12. \A p \in DOMAIN aside' : JournaledAt(p)'
  <2> SUFFICES ASSUME NEW p \in DOMAIN aside PROVE JournaledAt(p)'
    BY <1>1
  <2>1. CASE p \in DOMAIN journal.F
    BY <1>2, <2>1 DEF JournaledAt
  <2>2. CASE p \in DOMAIN journal.O
    BY <1>2, <1>3, <1>a, <2>2 DEF JournaledAt
  <2> QED
    BY <2>1, <2>2 DEF SInv, Sound, Recall, JournaledAt
<1>13. Recall'
  BY <1>1, <1>3, <1>12 DEF Recall, BeforeNote, LeftFiles
<1> QED
  BY <1>10, <1>11, <1>13 DEF Sound

-----------------------------------------------------------------------------
(* Between passes.                                                          *)
LEMMA BetweenSound ==
    ASSUME SInv, at = "off", record # None, UNCHANGED <<at, aside, record, originals, journal>>,
           \A p \in Path \ loose' : FileSound(p)', loose' \cap LeftFiles \subseteq DOMAIN originals
    PROVE  Sound'
<1>1. (\A p : Seeing(p)') /\ Aligned'
  BY DEF Seeing, Aligned
<1>2. \A p \in DOMAIN aside' : JournaledAt(p)'
  BY DEF SInv, Sound, Recall, JournaledAt
<1>3. Recall'
  BY <1>2 DEF Recall, LeftFiles
<1> QED
  BY <1>1, <1>3 DEF Sound

LEMMA WriteSound == ASSUME SInv, NEW p \in Path, Write(p) PROVE Sound'
<1> DEFINE b == <<"hook", clock>>
<1>1. /\ at = "off" /\ record # None /\ clock' = clock + 1 /\ fresh' = fresh \cup {p}
      /\ UNCHANGED <<at, aside, record, originals, journal, files, loose>>
  BY DEF Write, Hook, Later, stateVars, rewindVars, recordVars
<1>2. PICK keeps, s :
         /\ keeps \in BOOLEAN
         /\ keeps => p \in DOMAIN tree
         /\ s = IF keeps THEN tree[p].stamp ELSE clock'
         /\ tree' = With(tree, p, File(b, s))
         /\ outside' = IF keeps /\ Placed(p) /\ Told(p) = {} THEN outside
                       ELSE With(outside, p, b)
  BY DEF Write
<1>3. /\ p \in DOMAIN tree' /\ tree'[p].stamp = s /\ Bytes(p)' = b
  BY <1>2 DEF With, File, Bytes
<1>4. \A x \in Told(p) : x # b
  BY DEF Told, SInv, TInv, MemoryTimed, Old
<1>5. p \in DOMAIN originals => originals[p] # b
  BY DEF SInv, TInv, OriginalsTimed, Old
<1> HIDE DEF b
<1>6. ASSUME NEW q \in Path \ loose, q # p PROVE FileSound(q)'
  <2>1. PICK v : tree' = With(tree, p, v)
    BY <1>2
  <2>2. SameFor(q) /\ Bytes(q)' = Bytes(q)
    BY <1>1, <1>2, <1>6, <2>1 DEF SameFor, Outside, With, Bytes
  <2>3. CanTell(q) => CanTell(q)'
    BY <1>1, <2>2 DEF CanTell, Told
  <2> QED
    BY <2>2, <2>3, FileStays DEF SInv, Sound, PInv, Records
<1>7. /\ ~Comes(p)'
      /\ JournaledAt(p)' <=> JournaledAt(p)
      /\ StampOf(p)' = StampOf(p) /\ Under(p)' = Under(p) /\ Told(p)' = Told(p)
  <2>1. ~Comes(p)'
    BY <1>1, <1>3, <1>5 DEF Comes
  <2> QED
    BY <1>1, <2>1 DEF JournaledAt, StampOf, Under, Told
<1>8. ASSUME p \notin loose PROVE FileSound(p)'
  <2>1. CASE keeps /\ Placed(p) /\ Told(p) = {}
    <3>1. JournaledAt(p) /\ s = StampOf(p) /\ s = tree[p].stamp /\ p \in DOMAIN tree
      BY <1>2, <2>1, Apart DEF Placed, JournaledAt, StampOf, SInv
    <3>2. Outside(p) = Under(p)
      <4>1. CASE Comes(p)
        BY <1>8, <4>1 DEF SInv, Sound, FileSound, AsPlaced
      <4>2. CASE ~Comes(p)
        BY <1>8, <2>1, <3>1, <4>2 DEF SInv, Sound, FileSound, AsPlaced, CanTell
      <4> QED
        BY <4>1, <4>2
    <3>3. Outside(p)' = Outside(p)
      BY <1>2, <2>1 DEF Outside
    <3>4. AsPlaced(p, tree[p].stamp)'
      BY <1>3, <1>7, <3>1, <3>2, <3>3 DEF AsPlaced
    <3> QED
      BY <1>3, <1>7, <3>4 DEF FileSound
  <2>2. CASE ~(keeps /\ Placed(p) /\ Told(p) = {})
    <3>1. Outside(p)' = Bytes(p)'
      BY <1>2, <1>3, <2>2 DEF Outside, With
    <3>2. ASSUME JournaledAt(p), s = StampOf(p) PROVE CanTell(p)'
      <4>1. keeps
        BY <1>1, <1>2, <3>2 DEF SInv, TInv, JournalTimed, JournaledAt, StampOf, Changed
      <4>2. Placed(p)
        BY <1>2, <3>2, <4>1 DEF Placed, JournaledAt, StampOf
      <4>3. Told(p) # {}
        BY <2>2, <4>1, <4>2
      <4> QED
        BY <1>1, <1>3, <1>4, <1>7, <4>3 DEF CanTell, BeforeNote
    <3> QED
      BY <1>3, <1>7, <3>1, <3>2 DEF FileSound
  <2> QED
    BY <2>1, <2>2
<1>9. \A q \in Path \ loose' : FileSound(q)'
  BY <1>1, <1>6, <1>8
<1> QED
  BY <1>1, <1>9, BetweenSound DEF SInv, Sound, Recall

LEMMA DeleteSound == ASSUME SInv, NEW p \in Path, Delete(p) PROVE Sound'
<1>1. /\ at = "off" /\ record # None
      /\ tree' = Less(tree, {p}) /\ loose' = loose \cup ({p} \cap DOMAIN aside)
      /\ outside' = IF p \in DOMAIN journal.O THEN With(outside, p, originals[p])
                                              ELSE Less(outside, {p})
      /\ UNCHANGED <<at, aside, record, originals, journal, files, fresh>>
  BY DEF Delete, Hook, Later, stateVars, rewindVars, recordVars
<1>2. ASSUME NEW q \in Path \ loose, q # p PROVE FileSound(q)'
  <2>1. Outside(q)' = Outside(q)
    BY <1>1, <1>2 DEF Outside, With, Less
  <2>2. SameFor(q) /\ Bytes(q)' = Bytes(q)
    BY <1>1, <1>2, <2>1 DEF SameFor, Less, Bytes
  <2>3. CanTell(q) => CanTell(q)'
    BY <1>1, <2>2 DEF CanTell, Told
  <2> QED
    BY <2>2, <2>3, FileStays DEF SInv, Sound, PInv, Records
<1>3. ASSUME p \notin loose' PROVE FileSound(p)'
  <2>1. p \notin DOMAIN aside' /\ p \notin DOMAIN tree'
    BY <1>1, <1>3 DEF Less
  <2>2. Outside(p)' = Under(p)'
    BY <1>1 DEF Outside, Under, With, Less
  <2> QED
    BY <2>1, <2>2 DEF FileSound, Comes
<1>4. \A q \in Path \ loose' : FileSound(q)'
  BY <1>1, <1>2, <1>3
<1>5. loose' \cap LeftFiles \subseteq DOMAIN originals
  BY <1>1 DEF SInv, PInv, Records, Sound, Recall
<1> QED
  BY <1>1, <1>4, <1>5, BetweenSound

LEMMA RetrySound == SInv /\ Retry => Sound'
<1> SUFFICES ASSUME SInv, Retry PROVE Sound'
  OBVIOUS
<1>1. /\ at' = "off" /\ tree' = Dated(outside') /\ record' = None /\ loose' = {}
      /\ aside' = Nothing /\ DOMAIN journal'.F = {} /\ DOMAIN journal'.O = {}
  BY NoJournalHas DEF Retry, rewindVars
<1>2. \A p : Bytes(p)' = Outside(p)' /\ (p \notin DOMAIN tree' => Outside(p)' = None)
  BY <1>1 DEF Dated, File, Bytes, Outside
<1>3. \A p \in Path : FileSound(p)' /\ Seeing(p)'
  BY <1>1, <1>2 DEF FileSound, Seeing, Comes, JournaledAt, AsPlaced, Under, Nothing
<1>4. Aligned' /\ Recall'
  BY <1>1 DEF Aligned, Recall, Nothing, BeforeNote
<1> QED
  BY <1>3, <1>4 DEF Sound

LEMMA SoundStep == SInv /\ [Next]_vars => SInv'
<1> SUFFICES ASSUME SInv, [Next]_vars PROVE SInv'
  OBVIOUS
<1>1. PInv' /\ TInv'
  BY StepKeeps, TimedStep DEF SInv
<1>2. CASE \/ \E t \in Targets : Begin(t)
           \/ Refuse \/ Built \/ AllKept \/ Fail \/ RecordStep \/ Report \/ Exit \/ Kill
           \/ Collect \/ UNCHANGED vars
           \/ \E e \in Edge : Reuse(e) \/ Derive(e)
  BY <1>1, <1>2, QuietSteps DEF SInv
<1>3. CASE Rewinds \/ WalkStep \/ KeepStep \/ PlaceStep \/ JournalStep \/ Retry
  BY <1>1, <1>3, RewindsSound, WalkSound, KeepSound, PlaceSound, JournalSound, RetrySound DEF SInv
<1>4. CASE \E p \in Path : Write(p) \/ Delete(p)
  BY <1>1, <1>4, WriteSound, DeleteSound DEF SInv
<1> QED
  BY <1>2, <1>3, <1>4 DEF Next, PassStep, Stopped

LEMMA InvariantSound == Spec => []SInv
  BY InitSound, SoundStep, PTL DEF Spec

-----------------------------------------------------------------------------
(* The directories.  Above is its defining equation: what every set closed *)
(* under In has, from the directory x is in, is a solution of it.           *)
LEMMA AboveIs ==
    \A x \in Path \cup Dir :
        Above[x] = IF In[x] = Root THEN {} ELSE {In[x]} \cup Above[In[x]]
<1> DEFINE Closed(T, x) == /\ In[x] # Root => In[x] \in T
                           /\ \A y \in T : In[y] # Root => In[y] \in T
           A == [x \in Path \cup Dir |->
                    {d \in Dir : \A T \in SUBSET Dir : Closed(T, x) => d \in T}]
           G(f) == [x \in Path \cup Dir |->
                       IF In[x] = Root THEN {} ELSE {In[x]} \cup f[In[x]]]
<1>1. ASSUME NEW x \in Path \cup Dir, In[x] = Root PROVE A[x] = {}
  <2>1. Closed({}, x) /\ {} \in SUBSET Dir
    BY <1>1
  <2>2. ASSUME NEW d \in A[x] PROVE d \in {}
    <3>1. \A T \in SUBSET Dir : Closed(T, x) => d \in T
      OBVIOUS
    <3> HIDE DEF Closed
    <3> QED
      BY <2>1, <3>1
  <2> QED
    BY <2>2
<1>2. ASSUME NEW x \in Path \cup Dir, In[x] # Root PROVE A[x] = {In[x]} \cup A[In[x]]
  <2>1. In[x] \in Dir
    BY <1>2, TreeAssumption
  <2>2. ASSUME NEW d \in A[x], d # In[x] PROVE d \in A[In[x]]
    <3> SUFFICES ASSUME NEW T \in SUBSET Dir, Closed(T, In[x]) PROVE d \in T
      BY <2>1
    <3>1. Closed(T \cup {In[x]}, x) /\ T \cup {In[x]} \in SUBSET Dir
      BY <2>1
    <3>2. \A S \in SUBSET Dir : Closed(S, x) => d \in S
      BY <2>2
    <3>3. d \in T \cup {In[x]}
      <4> HIDE DEF Closed
      <4> QED
        BY <3>1, <3>2
    <3> QED
      BY <2>2, <3>3
  <2>3. ASSUME NEW d \in A[In[x]] PROVE d \in A[x]
    <3> SUFFICES ASSUME NEW T \in SUBSET Dir, Closed(T, x) PROVE d \in T
      BY <2>1
    <3>1. Closed(T, In[x])
      BY <1>2
    <3> QED
      BY <2>1, <2>3, <3>1
  <2>4. In[x] \in A[x]
    BY <1>2, <2>1
  <2> QED
    BY <2>2, <2>3, <2>4
<1>3. A = G(A)
  BY <1>1, <1>2
<1>4. Above = CHOOSE f : f = G(f)
  BY DEF Above
<1>5. Above = G(Above)
  <2> HIDE DEF A, G
  <2> QED
    BY <1>3, <1>4
<1> QED
  BY <1>5

LEMMA AboveHas ==
    \A x \in Path \cup Dir :
        /\ Above[x] \subseteq Dir
        /\ In[x] # Root => In[x] \in Above[x]
        /\ \A c \in Above[x] : /\ Above[c] \subseteq Above[x]
                               /\ In[c] # Root => In[c] \in Above[x]
<1> DEFINE Good(x) == /\ Above[x] \subseteq Dir
                      /\ \A c \in Above[x] : Above[c] \subseteq Above[x]
           Bad == {d \in Dir : ~Good(d)}
<1>1. \A x \in Path \cup Dir : In[x] \in Dir /\ Good(In[x]) => Good(x)
  <2> SUFFICES ASSUME NEW x \in Path \cup Dir, In[x] \in Dir, Good(In[x]) PROVE Good(x)
    OBVIOUS
  <2>1. Above[x] = {In[x]} \cup Above[In[x]]
    BY AboveIs, TreeAssumption
  <2> QED
    BY <2>1
<1>2. \A x \in Path \cup Dir : In[x] = Root => Good(x)
  BY AboveIs
<1>3. Bad = {}
  <2> SUFFICES ASSUME Bad # {} PROVE FALSE
    OBVIOUS
  <2>1. PICK d \in Bad : In[d] \notin Bad
    BY TreeAssumption
  <2>2. CASE In[d] = Root
    BY <1>2, <2>1, <2>2
  <2>3. CASE In[d] # Root
    <3>1. In[d] \in Dir
      BY <2>1, <2>3, TreeAssumption
    <3> QED
      BY <1>1, <2>1, <3>1
  <2> QED
    BY <2>2, <2>3
<1>4. \A x \in Path \cup Dir : Good(x)
  <2> SUFFICES ASSUME NEW x \in Path \cup Dir PROVE Good(x)
    OBVIOUS
  <2>1. In[x] = Root \/ In[x] \in Dir
    BY TreeAssumption
  <2>2. In[x] \in Dir => Good(In[x])
    BY <1>3
  <2> QED
    BY <1>1, <1>2, <2>1, <2>2
<1>5. \A x \in Path \cup Dir : In[x] # Root => In[x] \in Above[x]
  BY AboveIs
<1> QED
  BY <1>4, <1>5

LEMMA ConfiguredHas ==
    /\ ConfiguredDirs \subseteq Dir
    /\ \A p \in DOMAIN Configured : p \in Path /\ Above[p] \subseteq ConfiguredDirs
    /\ \A c \in ConfiguredDirs : In[c] # Root => In[c] \in ConfiguredDirs
<1>1. DOMAIN Configured \subseteq Path
  BY TreeAssumption
<1> QED
  BY <1>1, AboveHas DEF ConfiguredDirs

Typed ==
    /\ DOMAIN tree \subseteq Path /\ DOMAIN aside \subseteq Path
    /\ loose \subseteq Path /\ target \subseteq Path
    /\ at \in {"keep", "place"} => todo \subseteq Path
    /\ dirs \subseteq Dir /\ journal.D \subseteq Dir
    /\ gone \subseteq journal.D /\ removed \subseteq journal.D
    /\ at = "off" => removed = {}

(* The record is what configure left; what else there is has been made for *)
(* a file that was placed.                                                  *)
AsLeft ==
    /\ record = None => DOMAIN tree = DOMAIN Configured /\ dirs = ConfiguredDirs
    /\ record # None => LeftFiles = DOMAIN Configured /\ LeftDirs = ConfiguredDirs
    /\ ~journal.kept => journal.D = {}

DirsJournaled ==
    /\ journal.D \cap ConfiguredDirs = {}
    /\ \A d \in journal.D : Above[d] \subseteq journal.D \cup ConfiguredDirs
    /\ \A p \in DOMAIN journal.F : Above[p] \subseteq journal.D \cup ConfiguredDirs
    /\ \A d \in dirs \ ConfiguredDirs : d \in journal.D \/ \E p \in loose : d \in Above[p]

(* A directory configure did not leave has something in it, once those     *)
(* that may go have been tried.                                             *)
Holds(d) == \E p \in DOMAIN tree \cup loose : d \in Above[p]
DirsSeen ==
    /\ at = "remove" => /\ todo \subseteq journal.D
                        /\ \A d \in dirs \ (ConfiguredDirs \cup todo) : Holds(d)
    /\ at \in {"put back", "walk", "run"} => \A d \in dirs \ ConfiguredDirs : Holds(d)

Dirs == Typed /\ AsLeft /\ DirsJournaled /\ DirsSeen

DInv == SInv /\ Dirs

LEMMA InitDirs == Init => Dirs
<1> SUFFICES ASSUME Init PROVE Dirs
  OBVIOUS
<1>1. /\ DOMAIN tree = DOMAIN Configured /\ dirs = ConfiguredDirs /\ record = None
      /\ aside = Nothing /\ loose = {} /\ target = {} /\ gone = {} /\ removed = {}
      /\ at = "off" /\ journal = NoJournal
  BY DEF Init, Bare, Idle, Dated
<1>2. journal.D = {} /\ DOMAIN journal.F = {}
  BY <1>1 DEF NoJournal, Nothing
<1>3. Typed
  BY <1>1, <1>2, ConfiguredHas DEF Typed, Nothing
<1>4. AsLeft /\ DirsJournaled /\ DirsSeen
  BY <1>1, <1>2 DEF AsLeft, DirsJournaled, DirsSeen
<1> QED
  BY <1>3, <1>4 DEF Dirs

(* Where a step neither moves files nor makes or removes directories.      *)
LEMMA DirsStay ==
    ASSUME DInv, UNCHANGED <<tree, dirs, journal, record, aside, loose>>
    PROVE  /\ AsLeft' /\ DirsJournaled' /\ \A d : Holds(d)' <=> Holds(d)
           /\ DOMAIN tree' \subseteq Path /\ DOMAIN aside' \subseteq Path
           /\ loose' \subseteq Path /\ dirs' \subseteq Dir /\ journal'.D \subseteq Dir
  BY DEF DInv, Dirs, Typed, AsLeft, DirsJournaled, Holds, LeftFiles, LeftDirs

LEMMA DirsCalm ==
    ASSUME DInv,
           \/ \E t \in Targets : Begin(t)
           \/ Refuse \/ Built \/ KeepStep \/ AllKept \/ Fail \/ RecordStep \/ Report \/ Exit \/ Kill
           \/ Collect \/ UNCHANGED vars
           \/ \E e \in Edge : Reuse(e) \/ Derive(e)
    PROVE  Dirs'
<1>0. UNCHANGED <<tree, dirs, journal, record, aside, loose, gone>>
  BY DEF Begin, Refuse, Built, KeepStep, Keep, AllKept, Fail, RecordStep, Report, Exit, Kill, Collect, vars,
         Reuse, Derive, diskVars, stateVars, ghosts
<1>1. ASSUME target' \subseteq Path, removed' \subseteq journal.D, at' = "off" => removed' = {},
             at' \in {"keep", "place"} => todo' \subseteq Path
      PROVE  Typed'
  BY <1>0, <1>1, DirsStay DEF DInv, Dirs, Typed
<1>2. CASE \E t \in Targets : Begin(t)
  <2>1. /\ at' = "recover" /\ removed' = gone /\ target' \in Targets
    BY <1>2 DEF Begin
  <2>2. target' \subseteq Path
    BY <2>1, EdgeAssumption
  <2>3. Typed'
    BY <1>1, <2>1, <2>2 DEF DInv, Dirs, Typed
  <2>4. DirsSeen'
    BY <2>1 DEF DirsSeen
  <2> QED
    BY <1>0, <2>3, <2>4, DirsStay DEF Dirs
<1>3. CASE Refuse \/ Collect \/ UNCHANGED vars \/ \E e \in Edge : Reuse(e) \/ Derive(e)
  <2>1. UNCHANGED <<at, todo, target, removed>>
    BY <1>3 DEF Refuse, Collect, vars, Reuse, Derive, rewindVars, passVars
  <2>2. Typed'
    BY <1>1, <2>1 DEF DInv, Dirs, Typed
  <2>3. DirsSeen'
    BY <1>0, <2>1, DirsStay DEF DInv, Dirs, DirsSeen
  <2> QED
    BY <1>0, <2>2, <2>3, DirsStay DEF Dirs
<1>4. CASE Built \/ KeepStep \/ AllKept \/ Fail \/ RecordStep \/ Report
  <2>1. /\ UNCHANGED <<target, removed>>
        /\ at' \in {"keep", "place", "finish", "report", "ended"}
        /\ at' \in {"keep", "place"} => todo' \subseteq target \/ (at = "keep" /\ todo' \subseteq todo)
    BY <1>4 DEF Built, KeepStep, Keep, AllKept, Fail, RecordStep, Report, Ready, passVars, rewindVars
  <2>2. Typed'
    BY <1>1, <2>1 DEF DInv, Dirs, Typed
  <2>3. DirsSeen'
    BY <2>1 DEF DirsSeen
  <2> QED
    BY <1>0, <2>2, <2>3, DirsStay DEF Dirs
<1>5. CASE Exit \/ Kill
  <2>1. at' = "off" /\ target' = {} /\ removed' = {}
    BY <1>5 DEF Exit, Kill, Forget
  <2>2. Typed'
    BY <1>1, <2>1
  <2>3. DirsSeen'
    BY <2>1 DEF DirsSeen
  <2> QED
    BY <1>0, <2>2, <2>3, DirsStay DEF Dirs
<1> QED
  BY <1>2, <1>3, <1>4, <1>5

LEMMA WalkDirs == DInv /\ WalkStep => Dirs'
<1> SUFFICES ASSUME DInv, WalkStep PROVE Dirs'
  OBVIOUS
<1>1. /\ at = "walk" /\ at' = "run"
      /\ UNCHANGED <<tree, dirs, journal, aside, loose, gone, removed, target, todo>>
      /\ IF record = None THEN record' = Seen ELSE record' = record
  BY DEF WalkStep, Walk, Save, diskVars, ghosts, passVars
<1>2. Typed'
  BY <1>1 DEF DInv, Dirs, Typed
<1>3. AsLeft'
  BY <1>1 DEF DInv, Dirs, AsLeft, Seen, LeftFiles, LeftDirs, None
<1>4. DirsJournaled' /\ DirsSeen'
  BY <1>1 DEF DInv, Dirs, DirsJournaled, DirsSeen, Holds
<1> QED
  BY <1>2, <1>3, <1>4 DEF Dirs

(* The Rewind: which directories go, and which come back.                   *)
LEMMA RewindCalmDirs ==
    ASSUME DInv, Recovered \/ Settle \/ Candidates \/ AllRemoved \/ Begun,
           UNCHANGED <<loose, target>>
    PROVE  Dirs'
<1>0. UNCHANGED <<tree, dirs, journal, record, aside, removed>>
  BY DEF Recovered, Settle, Candidates, AllRemoved, Begun, diskVars, stateVars
<1>1. /\ at' \notin {"off", "keep", "place", "run"}
      /\ gone' \in {gone, journal.D \cap dirs, removed}
  BY DEF Recovered, Settle, Candidates, AllRemoved, Begun, stateVars
<1>2. Typed'
  BY <1>0, <1>1 DEF DInv, Dirs, Typed
<1>3. DirsSeen'
  <2>1. CASE Recovered
    <3>1. at' = "walk" => \A d \in dirs \ ConfiguredDirs : \E p \in loose : d \in Above[p]
      BY <2>1 DEF Recovered, DInv, Dirs, AsLeft, DirsJournaled
    <3>2. at' \in {"walk", "note"}
      BY <2>1 DEF Recovered
    <3> QED
      BY <1>0, <3>1, <3>2 DEF DirsSeen, Holds
  <2>2. CASE Settle
    BY <2>2 DEF Settle, DirsSeen
  <2>3. CASE Candidates
    <3>1. at' = "remove" /\ todo' = journal.D
      BY <2>3 DEF Candidates
    <3>2. \A d \in dirs \ (ConfiguredDirs \cup journal.D) : \E p \in loose : d \in Above[p]
      BY DEF DInv, Dirs, DirsJournaled
    <3> QED
      BY <1>0, <3>1, <3>2 DEF DirsSeen, Holds
  <2>4. CASE AllRemoved \/ Begun
    <3>1. \/ at = "remove" /\ todo = {} /\ at' = "put back"
          \/ at = "put back" /\ at' = "walk"
      BY <2>4 DEF AllRemoved, Begun
    <3> QED
      BY <1>0, <3>1, DirsStay DEF DInv, Dirs, DirsSeen
  <2> QED
    BY <2>1, <2>2, <2>3, <2>4
<1> QED
  BY <1>0, <1>2, <1>3, DirsStay DEF Dirs

LEMMA RemoveDirDirs ==
    ASSUME DInv, NEW d \in Dir, RemoveDir(d), UNCHANGED <<loose, target>>
    PROVE  Dirs'
<1>1. /\ at = "remove" /\ at' = "remove" /\ d \in todo /\ todo' = todo \ {d}
      /\ \A c \in todo : d \notin Above[c]
      /\ \/ dirs' = dirs \ {d} /\ removed' = removed \cup {d}
         \/ ~(d \in dirs /\ Empty(d)) /\ UNCHANGED <<dirs, removed>>
      /\ UNCHANGED <<tree, journal, record, aside, gone>>
  BY DEF RemoveDir, stateVars
<1>2. d \in journal.D
  BY <1>1 DEF DInv, Dirs, DirsSeen
<1>3. Typed'
  BY <1>1, <1>2 DEF DInv, Dirs, Typed
<1>4. record # None
  BY <1>1 DEF DInv, SInv, PInv, Records
<1>5. AsLeft' /\ DirsJournaled'
  BY <1>1, <1>4 DEF DInv, Dirs, AsLeft, DirsJournaled, LeftFiles, LeftDirs
<1>6. ASSUME d \in dirs, ~Empty(d) PROVE Holds(d)
  <2>1. CASE \E p \in DOMAIN tree : In[p] = d
    <3>1. PICK p \in DOMAIN tree : In[p] = d
      BY <2>1
    <3>2. d \in Above[p]
      BY <3>1, AboveHas, TreeAssumption DEF DInv, Dirs, Typed
    <3> QED
      BY <3>2 DEF Holds
  <2>2. CASE \E c \in dirs : In[c] = d
    <3>1. PICK c \in dirs : In[c] = d
      BY <2>2
    <3>2. c \in Dir /\ d # Root
      BY <3>1, TreeAssumption DEF DInv, Dirs, Typed
    <3>3. d \in Above[c]
      BY <3>1, <3>2, AboveHas
    <3>4. c \notin ConfiguredDirs
      BY <1>2, <3>1, <3>2, ConfiguredHas DEF DInv, Dirs, DirsJournaled
    <3>5. c \notin todo
      BY <1>1, <3>3
    <3>6. PICK p \in DOMAIN tree \cup loose : c \in Above[p]
      BY <1>1, <3>1, <3>4, <3>5 DEF DInv, Dirs, DirsSeen, Holds
    <3>7. d \in Above[p]
      BY <3>1, <3>2, <3>6, AboveHas DEF DInv, Dirs, Typed
    <3> QED
      BY <3>7 DEF Holds
  <2> QED
    BY <1>6, <2>1, <2>2 DEF Empty
<1>7. DirsSeen'
  <2>1. \A c : Holds(c)' <=> Holds(c)
    BY <1>1 DEF Holds
  <2>2. \A c \in dirs \ (ConfiguredDirs \cup todo) : Holds(c)
    BY <1>1 DEF DInv, Dirs, DirsSeen
  <2>3. d \in dirs' => Holds(d)
    BY <1>1, <1>6
  <2>4. todo \subseteq journal.D
    BY <1>1 DEF DInv, Dirs, DirsSeen
  <2>5. dirs' \subseteq dirs
    BY <1>1
  <2> QED
    BY <1>1, <2>1, <2>2, <2>3, <2>4, <2>5 DEF DirsSeen
<1> QED
  BY <1>3, <1>5, <1>7 DEF Dirs

LEMMA MakeDirsDirs ==
    ASSUME DInv, MakeDirs, UNCHANGED <<loose, target>>
    PROVE  Dirs'
<1>1. /\ dirs' = dirs \cup removed \cup UNION {Above[d] : d \in removed}
      /\ removed' = {} /\ gone' = {} /\ at' \in {"recover files", "finish files"}
      /\ UNCHANGED <<tree, record, journal, aside>>
  BY DEF MakeDirs
<1>2. /\ removed \subseteq journal.D /\ journal.D \subseteq Dir /\ dirs \subseteq Dir
      /\ \A d \in removed : Above[d] \subseteq journal.D \cup ConfiguredDirs
  BY DEF DInv, Dirs, Typed, DirsJournaled
<1>3. dirs' \subseteq dirs \cup journal.D \cup ConfiguredDirs
  BY <1>1, <1>2
<1>4. Typed'
  BY <1>1, <1>2, <1>3, ConfiguredHas DEF DInv, Dirs, Typed
<1>5. AsLeft'
  <2>1. record = None => journal.D = {}
    BY DEF DInv, SInv, PInv, Records, Dirs, AsLeft
  <2>2. record = None => dirs' = dirs
    BY <1>1, <1>2, <2>1
  <2> QED
    BY <1>1, <2>2 DEF DInv, Dirs, AsLeft, LeftFiles, LeftDirs
<1>6. DirsJournaled'
  BY <1>1, <1>3 DEF DInv, Dirs, DirsJournaled
<1>7. DirsSeen'
  BY <1>1 DEF DirsSeen
<1> QED
  BY <1>4, <1>5, <1>6, <1>7 DEF Dirs

(* What a file that comes back may need made.                               *)
LEMMA JournaledAbove ==
    ASSUME DInv, record # None, NEW p, JournaledAt(p)
    PROVE  Above[p] \subseteq journal.D \cup ConfiguredDirs
<1>1. CASE p \in DOMAIN journal.F
  BY <1>1 DEF DInv, Dirs, DirsJournaled
<1>2. CASE p \in DOMAIN journal.O
  <2>1. p \in DOMAIN Configured
    BY <1>2 DEF DInv, SInv, PInv, Records, Dirs, AsLeft
  <2> QED
    BY <2>1, ConfiguredHas
<1> QED
  BY <1>1, <1>2 DEF JournaledAt

LEMMA OverConfigured ==
    DInv => \A p \in DOMAIN journal.O : p \in DOMAIN Configured /\ Above[p] \subseteq ConfiguredDirs
<1> SUFFICES ASSUME DInv, NEW p \in DOMAIN journal.O
             PROVE  p \in DOMAIN Configured /\ Above[p] \subseteq ConfiguredDirs
  OBVIOUS
<1>1. p \in DOMAIN Configured
  BY DEF DInv, SInv, PInv, Records, Nothing, Dirs, AsLeft
<1> QED
  BY <1>1, ConfiguredHas

LEMMA FilesMoveDirs ==
    ASSUME DInv, UNCHANGED <<loose, target>>,
           GiveWay \/ \E p \in Path : Return(p) \/ SetAside(p) \/ Replace(p) \/ PutBack(p)
    PROVE  Dirs'
<1>1. CASE GiveWay
  <2>1. /\ at' \in {"recover dirs", "finish dirs"}
        /\ DOMAIN tree' \subseteq DOMAIN tree
        /\ aside = Nothing => tree' = Less(tree, {})
        /\ UNCHANGED <<dirs, record, journal, aside, gone, removed>>
    BY <1>1 DEF GiveWay, stateVars, Less, Nothing
  <2>2. Typed'
    BY <2>1 DEF DInv, Dirs, Typed
  <2>3. AsLeft'
    <3>1. record = None => DOMAIN tree' = DOMAIN tree
      BY <2>1 DEF DInv, SInv, PInv, Records, Less
    <3> QED
      BY <2>1, <3>1 DEF DInv, Dirs, AsLeft, LeftFiles, LeftDirs
  <2>4. DirsJournaled' /\ DirsSeen'
    BY <2>1 DEF DInv, Dirs, DirsJournaled, DirsSeen
  <2> QED
    BY <2>2, <2>3, <2>4 DEF Dirs
<1>2. ASSUME NEW p \in Path, Return(p) PROVE Dirs'
  <2>1. /\ p \in DOMAIN aside /\ DOMAIN aside' \subseteq DOMAIN aside
        /\ DOMAIN tree' \subseteq DOMAIN tree \cup {p}
        /\ dirs' \subseteq dirs \cup Above[p] /\ dirs \subseteq dirs'
        /\ at' \in {"recover files", "finish files"}
        /\ UNCHANGED <<record, journal, gone, removed>>
    <3>1. CASE p \in DOMAIN tree
      BY <1>2, <3>1 DEF Return, diskVars, rewindVars, Less
    <3>2. CASE p \notin DOMAIN tree
      <4>1. PICK v : tree' = With(tree, p, v)
        BY <1>2, <3>2 DEF Return
      <4> QED
        BY <1>2, <3>2, <4>1 DEF Return, rewindVars, Less, With
    <3> QED
      BY <3>1, <3>2
  <2>2. record # None
    BY <2>1 DEF DInv, SInv, PInv, Records, Nothing
  <2>3. Above[p] \subseteq journal.D \cup ConfiguredDirs
    BY <2>1, <2>2, JournaledAbove DEF DInv, SInv, Sound, Recall
  <2>4. Typed'
    BY <2>1, <2>3, ConfiguredHas DEF DInv, Dirs, Typed
  <2>5. AsLeft'
    BY <2>1, <2>2 DEF DInv, Dirs, AsLeft, LeftFiles, LeftDirs
  <2>6. DirsJournaled'
    BY <2>1, <2>3 DEF DInv, Dirs, DirsJournaled
  <2>7. DirsSeen'
    BY <2>1 DEF DirsSeen
  <2> QED
    BY <2>4, <2>5, <2>6, <2>7 DEF Dirs
<1>3. ASSUME NEW p \in Path, SetAside(p) \/ Replace(p) PROVE Dirs'
  <2>1. /\ at \in {"aside", "put back"} /\ at' = at
        /\ DOMAIN tree \ {p} \subseteq DOMAIN tree' /\ DOMAIN tree' \subseteq DOMAIN tree
        /\ DOMAIN aside' \subseteq DOMAIN aside \cup {p}
        /\ at = "put back" => p \in DOMAIN journal.O
        /\ UNCHANGED <<dirs, record, journal, gone, removed>>
    <3>1. \/ UNCHANGED <<tree, aside>>
          \/ \E v : aside' = With(aside, p, v) /\ tree' = Less(tree, {p})
      BY <1>3 DEF SetAside, Replace, Move
    <3>2. /\ DOMAIN tree \ {p} \subseteq DOMAIN tree' /\ DOMAIN tree' \subseteq DOMAIN tree
          /\ DOMAIN aside' \subseteq DOMAIN aside \cup {p}
      BY <3>1 DEF With, Less
    <3>3. at = "put back" => p \in DOMAIN journal.O
      BY <1>3 DEF SetAside, Replace, DInv, SInv, PInv, Progress
    <3> QED
      BY <1>3, <3>2, <3>3 DEF SetAside, Replace
  <2>2. Typed'
    BY <2>1 DEF DInv, Dirs, Typed
  <2>3. AsLeft'
    BY <2>1 DEF DInv, SInv, PInv, Records, Dirs, AsLeft, LeftFiles, LeftDirs
  <2>4. DirsJournaled'
    BY <2>1 DEF DInv, Dirs, DirsJournaled
  <2>5. DirsSeen'
    <3>1. CASE at = "aside"
      BY <2>1, <3>1 DEF DirsSeen
    <3>2. ASSUME at = "put back", NEW d \in dirs \ ConfiguredDirs PROVE Holds(d)'
      <4>1. PICK q \in DOMAIN tree \cup loose : d \in Above[q]
        BY <3>2 DEF DInv, Dirs, DirsSeen, Holds
      <4>2. q # p
        BY <2>1, <3>2, <4>1, OverConfigured
      <4> QED
        BY <2>1, <4>1, <4>2 DEF Holds
    <3> QED
      BY <2>1, <3>1, <3>2 DEF DirsSeen
  <2> QED
    BY <2>2, <2>3, <2>4, <2>5 DEF Dirs
<1>4. ASSUME NEW p \in Path, PutBack(p) PROVE Dirs'
  <2>1. /\ at = "put back" /\ at' = at /\ p \in DOMAIN journal.O
        /\ \E v : tree' = With(tree, p, v)
        /\ dirs' = dirs \cup Above[p]
        /\ UNCHANGED <<record, journal, aside, gone, removed>>
    BY <1>4 DEF PutBack, stateVars, DInv, SInv, PInv, Progress
  <2>2. DOMAIN tree' = DOMAIN tree \cup {p}
    BY <2>1 DEF With
  <2>3. Above[p] \subseteq ConfiguredDirs
    BY <2>1, OverConfigured
  <2>4. Typed'
    BY <2>1, <2>2, <2>3, ConfiguredHas DEF DInv, Dirs, Typed
  <2>5. AsLeft'
    BY <2>1 DEF DInv, SInv, PInv, Records, Dirs, AsLeft, LeftFiles, LeftDirs
  <2>6. DirsJournaled'
    BY <2>1, <2>3 DEF DInv, Dirs, DirsJournaled
  <2>7. DirsSeen'
    BY <2>1, <2>2, <2>3 DEF DInv, Dirs, DirsSeen, Holds
  <2> QED
    BY <2>4, <2>5, <2>6, <2>7 DEF Dirs
<1> QED
  BY <1>1, <1>2, <1>3, <1>4

LEMMA RewindsDirs == DInv /\ Rewinds => Dirs'
<1> SUFFICES ASSUME DInv, Rewinds PROVE Dirs'
  OBVIOUS
<1>1. /\ RewindStep(ReadThere) /\ UNCHANGED target
      /\ loose' = IF at = "note" THEN loose \cup Mistaken ELSE loose
  BY DEF Rewinds, passVars
<1>2. CASE Note(ReadThere)
  <2>1. /\ at' = "aside" /\ record # None /\ loose \subseteq loose' /\ loose' \subseteq loose \cup DOMAIN tree
        /\ UNCHANGED <<tree, dirs, record, aside, gone, removed>>
        /\ \E kept : journal' = [journal EXCEPT !.F = Mark(@, kept), !.O = Mark(@, kept)]
    BY <1>1, <1>2 DEF Note, DInv, SInv, PInv, Records, Mistaken
  <2>2. /\ journal'.D = journal.D /\ DOMAIN journal'.F = DOMAIN journal.F
        /\ journal'.kept = journal.kept
    BY <2>1 DEF Mark, DInv, SInv, PInv, Records
  <2>3. Typed'
    BY <1>1, <2>1, <2>2 DEF DInv, Dirs, Typed
  <2>4. AsLeft'
    BY <2>1, <2>2 DEF DInv, Dirs, AsLeft, LeftFiles, LeftDirs
  <2>5. DirsJournaled'
    BY <2>1, <2>2 DEF DInv, Dirs, DirsJournaled
  <2> QED
    BY <2>1, <2>3, <2>4, <2>5 DEF Dirs, DirsSeen
<1>3. CASE Recovered \/ Settle \/ Candidates \/ AllRemoved \/ Begun
  <2>1. at # "note"
    BY <1>3 DEF Recovered, Settle, Candidates, AllRemoved, Begun
  <2> QED
    BY <1>1, <1>3, <2>1, RewindCalmDirs
<1>4. CASE MakeDirs \/ \E d \in Dir : RemoveDir(d)
  <2>1. at # "note"
    BY <1>4 DEF MakeDirs, RemoveDir
  <2> QED
    BY <1>1, <1>4, <2>1, MakeDirsDirs, RemoveDirDirs
<1>5. CASE GiveWay \/ \E p \in Path : Return(p) \/ SetAside(p) \/ Replace(p) \/ PutBack(p)
  <2>1. at # "note"
    BY <1>5 DEF GiveWay, Return, SetAside, Replace, PutBack
  <2> QED
    BY <1>1, <1>5, <2>1, FilesMoveDirs
<1> QED
  BY <1>1, <1>2, <1>3, <1>4, <1>5 DEF RewindStep

(* A pass places files, journals them, and hooks come between passes.       *)
LEMMA PlaceDirs == DInv /\ PlaceStep => Dirs'
<1> SUFFICES ASSUME DInv, NEW p \in todo, NEW bytes, Place(p, bytes),
                    loose' = loose \cup {p}, UNCHANGED target
             PROVE  Dirs'
  BY DEF PlaceStep, passVars
<1>1. /\ at = "place" /\ at' = "place" /\ todo' = todo \ {p} /\ record # None
      /\ dirs' = dirs \cup Above[p] /\ \E v : tree' = With(tree, p, v)
      /\ UNCHANGED <<record, journal, aside, gone, removed>>
  BY DEF Place, stateVars, DInv, SInv, PInv, Records
<1>2. DOMAIN tree' = DOMAIN tree \cup {p} /\ p \in Path
  BY <1>1 DEF With, DInv, Dirs, Typed
<1>3. Above[p] \subseteq Dir
  BY <1>2, AboveHas
<1>4. Typed'
  BY <1>1, <1>2, <1>3 DEF DInv, Dirs, Typed
<1>5. AsLeft' /\ DirsJournaled' /\ DirsSeen'
  BY <1>1 DEF DInv, Dirs, AsLeft, DirsJournaled, DirsSeen, LeftFiles, LeftDirs
<1> QED
  BY <1>4, <1>5 DEF Dirs

LEMMA JournalDirs == DInv /\ JournalStep => Dirs'
<1> SUFFICES ASSUME DInv, JournalStep PROVE Dirs'
  OBVIOUS
<1> DEFINE there == Listed \cap DOMAIN tree
           made  == (UNION {Above[p] : p \in there}) \ LeftDirs
           over  == {p \in there \cap DOMAIN originals : Bytes(p) # originals[p]}
           stamps(S) == [p \in S |-> tree[p].stamp]
<1>1. /\ at = "place" /\ at' \in {"finish", "report"} /\ record # None
      /\ journal' = [kept |-> TRUE,
                     F |-> Over(stamps(there \ LeftFiles), journal.F),
                     D |-> journal.D \cup made,
                     O |-> Over(stamps(over), journal.O)]
      /\ UNCHANGED <<tree, dirs, record, aside, gone, removed, target>>
      /\ loose' = loose \ there
  BY DEF JournalStep, Journal, passVars, DInv, SInv, PInv, Records
<1>2. /\ journal'.kept = TRUE /\ journal'.D = journal.D \cup made
      /\ DOMAIN journal'.F = (there \ LeftFiles) \cup DOMAIN journal.F
  BY <1>1 DEF Over
<1>3. LeftDirs = ConfiguredDirs
  BY <1>1 DEF DInv, Dirs, AsLeft
<1>4. /\ there \subseteq Path /\ there \subseteq DOMAIN tree
      /\ \A p \in there : Above[p] \subseteq made \cup ConfiguredDirs
      /\ \A d \in made : d \notin ConfiguredDirs /\ \E p \in there : d \in Above[p]
  <2>1. there \subseteq DOMAIN tree /\ DOMAIN tree \subseteq Path
    BY DEF DInv, Dirs, Typed
  <2> HIDE DEF there
  <2>2. ASSUME NEW d, NEW p \in there, d \in Above[p], d \notin ConfiguredDirs PROVE d \in made
    BY <1>3, <2>2
  <2>3. ASSUME NEW d \in made PROVE d \notin ConfiguredDirs /\ \E p \in there : d \in Above[p]
    BY <1>3
  <2> HIDE DEF made
  <2>4. \A p \in there : Above[p] \subseteq made \cup ConfiguredDirs
    BY <2>2
  <2> QED
    BY <2>1, <2>3, <2>4
<1> HIDE DEF there, made, over, stamps
<1>5. \A d \in made : d \in Dir /\ Above[d] \subseteq made \cup ConfiguredDirs
  <2> SUFFICES ASSUME NEW d \in made
               PROVE  d \in Dir /\ Above[d] \subseteq made \cup ConfiguredDirs
    OBVIOUS
  <2>1. PICK p \in there : d \in Above[p]
    BY <1>4
  <2>2. p \in Path /\ Above[p] \subseteq made \cup ConfiguredDirs
    BY <1>4
  <2>3. Above[p] \subseteq Dir /\ Above[d] \subseteq Above[p]
    BY <2>1, <2>2, AboveHas
  <2> QED
    BY <2>1, <2>2, <2>3
<1>6. Typed'
  BY <1>1, <1>2, <1>5 DEF DInv, Dirs, Typed
<1>7. AsLeft'
  BY <1>1, <1>2 DEF DInv, Dirs, AsLeft, LeftFiles, LeftDirs
<1>8. DirsJournaled'
  <2>1. journal'.D \cap ConfiguredDirs = {}
    BY <1>2, <1>4 DEF DInv, Dirs, DirsJournaled
  <2>2. \A d \in journal'.D : Above[d] \subseteq journal'.D \cup ConfiguredDirs
    BY <1>2, <1>5 DEF DInv, Dirs, DirsJournaled
  <2>3. \A p \in DOMAIN journal'.F : Above[p] \subseteq journal'.D \cup ConfiguredDirs
    BY <1>2, <1>4 DEF DInv, Dirs, DirsJournaled
  <2>4. ASSUME NEW d \in dirs \ ConfiguredDirs
        PROVE  d \in journal'.D \/ \E p \in loose' : d \in Above[p]
    <3>1. CASE d \in journal.D
      BY <1>2, <3>1
    <3>2. CASE \E p \in loose : d \in Above[p]
      BY <1>1, <1>2, <1>4, <2>4, <3>2
    <3> QED
      BY <2>4, <3>1, <3>2 DEF DInv, Dirs, DirsJournaled
  <2> QED
    BY <1>1, <2>1, <2>2, <2>3, <2>4 DEF DirsJournaled
<1>9. DirsSeen'
  BY <1>1 DEF DirsSeen
<1> QED
  BY <1>6, <1>7, <1>8, <1>9 DEF Dirs

LEMMA HookDirs ==
    ASSUME DInv, NEW p \in Path, Write(p) \/ Delete(p)
    PROVE  Dirs'
<1>1. /\ at = "off" /\ record # None
      /\ (\E v : tree' = With(tree, p, v)) \/ tree' = Less(tree, {p})
      /\ loose \subseteq loose' /\ loose' \subseteq loose \cup {p}
      /\ UNCHANGED <<at, dirs, record, journal, aside, gone, removed, target>>
  BY DEF Write, Delete, Hook, Later, stateVars, rewindVars, passVars
<1>2. DOMAIN tree' \subseteq DOMAIN tree \cup {p}
  BY <1>1 DEF With, Less
<1>3. Typed'
  BY <1>1, <1>2 DEF DInv, Dirs, Typed
<1>4. AsLeft' /\ DirsJournaled' /\ DirsSeen'
  BY <1>1 DEF DInv, Dirs, AsLeft, DirsJournaled, DirsSeen, LeftFiles, LeftDirs
<1> QED
  BY <1>3, <1>4 DEF Dirs

LEMMA RetryDirs == DInv /\ Retry => Dirs'
<1> SUFFICES ASSUME DInv, Retry PROVE Dirs'
  OBVIOUS
<1>1. /\ DOMAIN tree' = DOMAIN Configured /\ dirs' = ConfiguredDirs /\ record' = None
      /\ aside' = Nothing /\ loose' = {} /\ gone' = {} /\ journal' = NoJournal
      /\ at = "off" /\ UNCHANGED <<at, removed, target>>
  BY DEF Retry, Dated, rewindVars, passVars
<1>2. journal'.D = {} /\ DOMAIN journal'.F = {}
  BY <1>1 DEF NoJournal, Nothing
<1>3. Typed'
  BY <1>1, <1>2, ConfiguredHas DEF DInv, Dirs, Typed, Nothing
<1>4. AsLeft' /\ DirsJournaled' /\ DirsSeen'
  BY <1>1, <1>2 DEF AsLeft, DirsJournaled, DirsSeen
<1> QED
  BY <1>3, <1>4 DEF Dirs

LEMMA DirsStep == DInv /\ [Next]_vars => DInv'
<1> SUFFICES ASSUME DInv, [Next]_vars PROVE DInv'
  OBVIOUS
<1>1. SInv'
  BY SoundStep DEF DInv
<1>2. CASE \/ \E t \in Targets : Begin(t)
           \/ Refuse \/ Built \/ KeepStep \/ AllKept \/ Fail \/ RecordStep \/ Report \/ Exit \/ Kill
           \/ Collect \/ UNCHANGED vars
           \/ \E e \in Edge : Reuse(e) \/ Derive(e)
  BY <1>1, <1>2, DirsCalm DEF DInv
<1>3. CASE Rewinds \/ WalkStep \/ PlaceStep \/ JournalStep \/ Retry
  BY <1>1, <1>3, RewindsDirs, WalkDirs, PlaceDirs, JournalDirs, RetryDirs DEF DInv
<1>4. CASE \E p \in Path : Write(p) \/ Delete(p)
  BY <1>1, <1>4, HookDirs DEF DInv
<1> QED
  BY <1>2, <1>3, <1>4 DEF Next, PassStep, Stopped

(* A pass that reads the directory reads what configure and hooks left in  *)
(* it, however the passes before it ended.                                  *)
THEOREM ReadsAsConfigured == Spec => []SeesConfigure
<1>1. DInv => SeesConfigure
  BY DEF DInv, SInv, Sound, Seeing, Dirs, DirsSeen, Holds, SeesConfigure
<1>2. Init => DInv
  BY InitSound, InitDirs DEF DInv
<1> QED
  BY <1>1, <1>2, DirsStep, PTL DEF Spec

-----------------------------------------------------------------------------
(* What a derivation that is reused was given.  Files no edge makes stand  *)
(* as they are during a pass, with bytes a hash can tell from no hash.     *)
MadeOnly ==
    /\ DOMAIN journal.F \cup DOMAIN journal.O \subseteq Made
    /\ target \subseteq Made
    /\ at \in {"keep", "place"} => todo \subseteq Made
    /\ want \subseteq Edge /\ DOMAIN used \subseteq Edge
Hashed == \A p \in DOMAIN tree \ Made : Bytes(p) # Unknown

(* A record of derivations and the record of what they read agree on every *)
(* declared file that no edge makes; and two such records on every edge    *)
(* outside T.                                                               *)
Agree(drv, read, e) ==
    /\ Declared[e] \subseteq DOMAIN read
    /\ \A p \in Declared[e] \ Made : read[p] = drv[2][p] /\ read[p] # Unknown
AgreeOff(drvs, ins, T) ==
    \A e \in DOMAIN drvs \ T : e \in DOMAIN ins /\ Agree(drvs[e], ins[e], e)
Paired(drvs, ins, T) ==
    DOMAIN ins \subseteq DOMAIN drvs \cup T /\ AgreeOff(drvs, ins, T)

(* The directory's records agree but over the edges a pass died over, and  *)
(* while one half is written.                                               *)
StateAgrees == merged.done # "inputs" => Paired(emitted.drv, inputs, torn)
EarlierAgrees ==
    /\ AgreeOff(earlier.drv, earlier.inputs, torn)
    /\ DOMAIN earlier.drv # {} => earlier.kept

(* What is about to be written agrees, and differs from what is there only *)
(* in what the pass derived.                                                *)
Backing == {"attempt emitted", "attempt files", "attempt inputs"}
MergedAgrees ==
    /\ DOMAIN merged = {"done", "drv", "inputs", "files"}
    /\ merged.done # "nothing" =>
          /\ at = "report" \/ (at = "ended" /\ merged.done = "all")
          /\ Paired(merged.drv, merged.inputs, torn)
          /\ DOMAIN emitted.drv \subseteq DOMAIN merged.drv
          /\ \A e \in DOMAIN merged.drv \ DOMAIN derived :
                e \in DOMAIN emitted.drv /\ merged.drv[e] = emitted.drv[e]
    /\ merged.done \notin {"nothing", "files"} => inputs = merged.inputs
    /\ merged.done \notin {"nothing", "files", "inputs"} => emitted.drv = merged.drv
    /\ merged.done \in Backing => attempt.drv = merged.drv
    /\ merged.done \in Backing \cup {"emitted"} => attempt.kept
    /\ merged.done = "attempt inputs" =>
          attempt.inputs = merged.inputs /\ attempt.dir = retries

(* The attempt's records agree with the journal over them.  Its inputs     *)
(* agree with the directory's derivations too, so that those can be written *)
(* first; where they are another directory's, the journal has every edge.  *)
AttemptAgrees ==
    /\ DOMAIN attempt = {"kept", "drv", "inputs", "files", "log", "dir"}
    /\ \A e \in DOMAIN attempt.log : Agree(attempt.log[e].drv, attempt.log[e].inputs, e)
    /\ AgreeOff(attempt.drv, attempt.inputs, DOMAIN attempt.log \cup torn)
    /\ attempt.kept =>
          /\ AgreeOff(emitted.drv, attempt.inputs, DOMAIN attempt.log \cup torn)
          /\ merged.done # "all" => DOMAIN derived \subseteq DOMAIN attempt.log
          /\ attempt.dir # retries => DOMAIN emitted.drv \subseteq DOMAIN attempt.log

RecordsAgree == StateAgrees /\ EarlierAgrees /\ MergedAgrees /\ AttemptAgrees

(* So do what this pass derived and the hashes it took with the directory. *)
ThisPass ==
    /\ \A e \in DOMAIN derived :
          /\ Declared[e] \subseteq derived[e].inputs
          /\ \A p \in Declared[e] \ Made :
                p \in DOMAIN tree /\ derived[e].drv[2][p] = Bytes(p)
    /\ \A p \in DOMAIN now \ Made : p \in DOMAIN tree /\ now[p] = Bytes(p)
    /\ at = "off" => /\ derived = Nothing /\ now = Nothing
                     /\ used = Nothing /\ reused = {}

(* The makers of an edge come before it, and one of them has its recorded  *)
(* derivation, or the readers of its outputs are derived anew.             *)
Carried(m) == m \in DOMAIN earlier.drv => used[m] = earlier.drv[m] \/ fallback # {}
MakersFirst ==
    /\ want \cap DOMAIN used = {}
    /\ \A e \in want \cup DOMAIN used : Makers(e) \subseteq want \cup DOMAIN used
    /\ \A m \in DOMAIN used : Carried(m) \/ Outs[m] \subseteq replacedOutputs
AsRecorded(e) ==
    /\ e \in DOMAIN used /\ e \in DOMAIN earlier.drv /\ used[e] = earlier.drv[e]
    /\ e \notin torn => \A m \in Makers(e) : m \in DOMAIN used /\ Carried(m)
Counted ==
    at = "ended" => \A e \in reused \ (stale \cup torn) :
        \A p \in Declared[e] \ Made : used[e][2][p] = Bytes(p)

RInv == /\ SInv
        /\ MadeOnly /\ Hashed /\ RecordsAgree /\ ThisPass /\ MakersFirst
        /\ (\A e \in reused : AsRecorded(e)) /\ Counted

LEMMA MakersMake ==
    /\ \A p \in Made : Maker(p) \in Edge /\ p \in Outs[Maker(p)]
    /\ \A e : Makers(e) \subseteq Edge
<1>1. \A p \in Made : Maker(p) \in Edge /\ p \in Outs[Maker(p)]
  BY DEF Made, Maker
<1> QED
  BY <1>1 DEF Makers

LEMMA NeededClosed ==
    ASSUME NEW t
    PROVE  /\ Needed(t) \subseteq Edge
           /\ \A e \in Needed(t) : Makers(e) \subseteq Needed(t)
<1>1. Needed(t) \subseteq Edge
  BY DEF Needed
<1>2. ASSUME NEW e \in Needed(t), NEW m \in Makers(e) PROVE m \in Needed(t)
  <2>1. m \in Edge
    BY MakersMake
  <2> SUFFICES ASSUME NEW S \in SUBSET Edge,
                      {f \in Edge : Outs[f] \cap t # {}} \subseteq S,
                      \A f \in S : Makers(f) \subseteq S
               PROVE  m \in S
    BY <2>1 DEF Needed
  <2> QED
    BY <1>2 DEF Needed
<1> QED
  BY <1>1, <1>2

(* Bytes that a hash is not taken for missing from.                         *)
LEMMA BytesKnown ==
    /\ \A p \in DOMAIN Configured : Configured[p] # Unknown
    /\ \A c : <<"hook", c>> # Unknown
    /\ \A a : <<"patched", a>> # Unknown
<1>1. Unknown[1] = "-" /\ (\A c : <<"hook", c>>[1] = "hook") /\ (\A a : <<"patched", a>>[1] = "patched")
  BY DEF Unknown
<1> QED
  BY <1>1, BytesAssumption

LEMMA InitReuse == Init => RInv
<1> SUFFICES ASSUME Init PROVE RInv
  OBVIOUS
<1>1. SInv
  BY InitSound
<1>2. /\ DOMAIN tree = DOMAIN Configured /\ \A p \in DOMAIN tree : Bytes(p) = Configured[p]
      /\ DOMAIN journal.F = {} /\ DOMAIN journal.O = {}
      /\ at = "off" /\ target = {} /\ want = {} /\ used = Nothing /\ reused = {}
      /\ derived = Nothing /\ now = Nothing
  BY DEF Init, Bare, Idle, Dated, File, Bytes, NoJournal, Nothing
<1>3. /\ emitted.drv = Nothing /\ inputs = Nothing /\ attempt.drv = Nothing
      /\ attempt.log = Nothing /\ merged.done = "nothing"
      /\ DOMAIN merged = {"done", "drv", "inputs", "files"}
      /\ earlier.drv = Nothing
      /\ DOMAIN attempt = {"kept", "drv", "inputs", "files", "log", "dir"}
  BY DEF Init, Bare, Idle, NoRecord, NoAttempt, EmptyAttempt, NoEarlier, NotMerged
<1>4. DOMAIN Nothing = {}
  BY DEF Nothing
<1>5. MadeOnly /\ Hashed
  BY <1>2, <1>4, BytesKnown DEF MadeOnly, Hashed
<1>6. RecordsAgree
  BY <1>2, <1>3, <1>4 DEF RecordsAgree, StateAgrees, EarlierAgrees, MergedAgrees,
                          AttemptAgrees, Paired, AgreeOff, Backing
<1>7. ThisPass /\ MakersFirst /\ (\A e \in reused : AsRecorded(e)) /\ Counted
  BY <1>2, <1>4 DEF ThisPass, MakersFirst, Counted
<1> QED
  BY <1>1, <1>5, <1>6, <1>7 DEF RInv

(* A pass moves and writes no other files than those the edges make.        *)
SameOutside == \A p : p \notin Made =>
                  (p \in DOMAIN tree' <=> p \in DOMAIN tree) /\ Bytes(p)' = Bytes(p)

LEMMA WritesOutside ==
    /\ \A p \in Made : \A v : tree' = With(tree, p, v) => SameOutside
    /\ \A S \in SUBSET Made : tree' = Less(tree, S) => SameOutside
    /\ tree' = tree => SameOutside
<1>1. ASSUME NEW p \in Made, NEW v, tree' = With(tree, p, v) PROVE SameOutside
  BY <1>1 DEF SameOutside, With, Bytes
<1>2. ASSUME NEW S \in SUBSET Made, tree' = Less(tree, S) PROVE SameOutside
  BY <1>2 DEF SameOutside, Less, Bytes
<1>3. tree' = tree => SameOutside
  BY DEF SameOutside, Bytes
<1> QED
  BY <1>1, <1>2, <1>3

LEMMA AsideMade == RInv => DOMAIN aside \subseteq Made
  BY DEF RInv, SInv, Sound, Recall, JournaledAt, MadeOnly

LEMMA RewindsOutside == RInv /\ Rewinds => MadeOnly' /\ SameOutside
<1> SUFFICES ASSUME RInv, Rewinds PROVE MadeOnly' /\ SameOutside
  OBVIOUS
<1>1. RewindStep(ReadThere) /\ UNCHANGED <<target, want, used>>
  BY DEF Rewinds, passVars
<1>2. DOMAIN aside \subseteq Made /\ DOMAIN journal.F \subseteq Made /\ DOMAIN journal.O \subseteq Made
  BY AsideMade DEF RInv, MadeOnly
<1>3. CASE GiveWay \/ MakeDirs \/ Recovered \/ Settle \/ Candidates \/ AllRemoved \/ Begun
  <2>1. UNCHANGED journal /\ at' \notin {"keep", "place"}
    BY <1>3 DEF GiveWay, MakeDirs, Recovered, Settle, Candidates, AllRemoved, Begun, stateVars
  <2>2. MadeOnly'
    BY <1>1, <2>1 DEF RInv, MadeOnly
  <2>3. tree' = tree \/ \E S \in SUBSET Made : tree' = Less(tree, S)
    BY <1>2, <1>3 DEF GiveWay, MakeDirs, Recovered, Settle, Candidates, AllRemoved, Begun, diskVars
  <2> QED
    BY <2>2, <2>3, WritesOutside
<1>4. CASE Note(ReadThere)
  <2>1. /\ UNCHANGED tree /\ at' = "aside"
        /\ \E kept : journal' = [journal EXCEPT !.F = Mark(@, kept), !.O = Mark(@, kept)]
    BY <1>4 DEF Note
  <2>2. DOMAIN journal'.F = DOMAIN journal.F /\ DOMAIN journal'.O = DOMAIN journal.O
    BY <2>1 DEF Mark, RInv, SInv, PInv, Records
  <2> QED
    BY <1>1, <2>1, <2>2, WritesOutside DEF RInv, MadeOnly
<1>5. CASE \E p \in Path : Return(p) \/ SetAside(p) \/ Replace(p) \/ PutBack(p)
  <2> PICK p \in Path : Return(p) \/ SetAside(p) \/ Replace(p) \/ PutBack(p)
    BY <1>5
  <2>1. UNCHANGED journal /\ at' \notin {"keep", "place"}
    BY DEF Return, SetAside, Replace, PutBack, Move, stateVars, rewindVars
  <2>2. MadeOnly'
    BY <1>1, <2>1 DEF RInv, MadeOnly
  <2>3. p \in Made
    BY <1>2 DEF Return, SetAside, Replace, PutBack, RInv, SInv, PInv, Progress
  <2>4. tree' = tree \/ (\E v : tree' = With(tree, p, v)) \/ tree' = Less(tree, {p})
    BY DEF Return, SetAside, Replace, PutBack, Move, diskVars
  <2>5. {p} \in SUBSET Made
    BY <2>3
  <2> QED
    BY <2>2, <2>3, <2>4, <2>5, WritesOutside
<1>6. CASE \E d \in Dir : RemoveDir(d)
  <2>1. UNCHANGED <<tree, journal>> /\ at' \notin {"keep", "place"}
    BY <1>6 DEF RemoveDir, stateVars
  <2> QED
    BY <1>1, <2>1, WritesOutside DEF RInv, MadeOnly
<1> QED
  BY <1>1, <1>3, <1>4, <1>5, <1>6 DEF RewindStep

LEMMA PlacesOutside ==
    RInv /\ (Built \/ KeepStep \/ AllKept \/ PlaceStep \/ JournalStep) => MadeOnly' /\ SameOutside
<1>1. ASSUME RInv, Built \/ KeepStep \/ AllKept PROVE MadeOnly' /\ SameOutside
  <2>1. /\ UNCHANGED <<tree, journal, target, want, used>>
        /\ todo' \subseteq target \/ (at \in {"keep", "place"} /\ todo' \subseteq todo)
    BY <1>1 DEF Built, KeepStep, Keep, AllKept, diskVars, stateVars, passVars
  <2> QED
    BY <1>1, <2>1, WritesOutside DEF RInv, MadeOnly
<1>2. ASSUME RInv, PlaceStep PROVE MadeOnly' /\ SameOutside
  <2>1. PICK p, b : p \in todo /\ Place(p, b) /\ UNCHANGED <<target, want, used>>
    BY <1>2 DEF PlaceStep, passVars
  <2>2. /\ at = "place" /\ UNCHANGED <<at, journal>> /\ todo' = todo \ {p}
        /\ \E v : tree' = With(tree, p, v)
    BY <2>1 DEF Place, stateVars
  <2>3. p \in Made
    BY <1>2, <2>1, <2>2 DEF RInv, MadeOnly
  <2> QED
    BY <1>2, <2>1, <2>2, <2>3, WritesOutside DEF RInv, MadeOnly
<1>3. ASSUME RInv, JournalStep PROVE MadeOnly' /\ SameOutside
  <2>1. /\ UNCHANGED <<tree, target, want, used>> /\ at' \in {"finish", "report"}
        /\ DOMAIN journal'.F \subseteq Listed \cup DOMAIN journal.F
        /\ DOMAIN journal'.O \subseteq Listed \cup DOMAIN journal.O
    BY <1>3 DEF JournalStep, Journal, Over, Less, passVars
  <2>2. Listed \subseteq Made
    BY <1>3 DEF Listed, Made, RInv, MadeOnly
  <2> QED
    BY <1>3, <2>1, <2>2, WritesOutside DEF RInv, MadeOnly
<1> QED
  BY <1>1, <1>2, <1>3

(* What holds of the files no edge makes goes on holding.                   *)
LEMMA OutsideStays ==
    ASSUME RInv, SameOutside
    PROVE  Hashed' /\ \A p : p \notin Made => (p \in DOMAIN tree => p \in DOMAIN tree') /\ Bytes(p)' = Bytes(p)
  BY DEF RInv, Hashed, SameOutside

(* The records agree while none is written.                                 *)
LEMMA RecordsStay ==
    ASSUME RInv, UNCHANGED <<emitted, inputs, attempt, earlier, derived, merged, torn, retries>>,
           merged.done # "nothing" => at' = at \/ (at' = "ended" /\ merged.done = "all")
    PROVE  RecordsAgree'
<1>1. StateAgrees' /\ EarlierAgrees'
  BY DEF RInv, RecordsAgree, StateAgrees, EarlierAgrees, Paired, AgreeOff, Agree
<1>2. MergedAgrees'
  <2>1. (Paired(merged.drv, merged.inputs, torn))' <=> Paired(merged.drv, merged.inputs, torn)
    BY DEF Paired, AgreeOff, Agree
  <2> QED
    BY <2>1 DEF RInv, RecordsAgree, MergedAgrees, Backing
<1>3. AttemptAgrees'
  BY DEF RInv, RecordsAgree, AttemptAgrees, AgreeOff, Agree
<1> QED
  BY <1>1, <1>2, <1>3 DEF RecordsAgree

LEMMA NothingMerged ==
    RInv /\ at \notin {"report", "ended"} => merged.done = "nothing"
  BY DEF RInv, RecordsAgree, MergedAgrees

(* The steps that only the directory knows of.                              *)
LEMMA RestReuse ==
    ASSUME RInv, SInv', MadeOnly', SameOutside,
           UNCHANGED <<recordVars, passVars, torn, retries>>,
           at' # "off" \/ at = "off", at' # "ended" \/ at = "ended",
           at \in {"report", "ended"} => at' = at
    PROVE  RInv'
<1>1. /\ Hashed'
      /\ \A p : p \notin Made => (p \in DOMAIN tree => p \in DOMAIN tree') /\ Bytes(p)' = Bytes(p)
  BY OutsideStays
<1>2. UNCHANGED <<emitted, inputs, attempt, earlier, want, used, reused, derived,
                  replacedOutputs, fallback, now, stale, merged, torn>>
  BY DEF recordVars, passVars
<1>3. RecordsAgree'
  BY <1>2, RecordsStay, NothingMerged
<1>4. ThisPass'
  BY <1>1, <1>2 DEF RInv, ThisPass
<1>5. MakersFirst' /\ \A e \in reused' : AsRecorded(e)'
  BY <1>2 DEF RInv, MakersFirst, AsRecorded, Carried
<1>6. Counted'
  BY <1>1, <1>2 DEF RInv, Counted
<1> QED
  BY <1>1, <1>3, <1>4, <1>5, <1>6 DEF RInv

LEMMA DirectoryReuse ==
    ASSUME RInv, SInv',
           \/ Refuse \/ Rewinds \/ WalkStep \/ Built \/ KeepStep \/ AllKept
           \/ PlaceStep \/ JournalStep \/ Fail \/ Collect \/ UNCHANGED vars
    PROVE  RInv'
<1>1. CASE Refuse \/ WalkStep \/ Fail \/ Collect \/ UNCHANGED vars
  <2>1. /\ UNCHANGED <<tree, journal, target, want, used>>
        /\ at' \notin {"keep", "place"} \/ UNCHANGED <<at, todo>>
    BY <1>1 DEF Refuse, WalkStep, Walk, Fail, Collect, vars, diskVars, stateVars, rewindVars, passVars
  <2>2. MadeOnly' /\ SameOutside
    BY <2>1, WritesOutside DEF RInv, MadeOnly
  <2>3. /\ UNCHANGED <<recordVars, passVars, torn, retries>>
        /\ at' \notin {"off", "ended"} \/ UNCHANGED at
        /\ at \in {"report", "ended"} => at' = at
    BY <1>1 DEF Refuse, WalkStep, Walk, Fail, Ready, Collect, vars, rewindVars, counters, ghosts
  <2> QED
    BY <2>2, <2>3, RestReuse
<1>2. CASE Rewinds
  <2>1. UNCHANGED <<recordVars, passVars, torn, retries>> /\ RewindStep(ReadThere)
    BY <1>2 DEF Rewinds, counters
  <2>3. /\ at' \notin {"off", "ended"} \/ UNCHANGED at
        /\ at \notin {"report", "ended"}
    BY <2>1 DEF RewindStep, GiveWay, MakeDirs, Recovered, Settle, Candidates,
                AllRemoved, Begun, Note, Return, SetAside, Replace, PutBack, RemoveDir, rewindVars
  <2> QED
    BY <1>2, <2>1, <2>3, RewindsOutside, RestReuse
<1>3. CASE Built \/ KeepStep \/ AllKept \/ PlaceStep \/ JournalStep
  <2>1. /\ UNCHANGED <<recordVars, passVars, torn, retries>>
        /\ at' \notin {"off", "ended"} \/ UNCHANGED at
        /\ at \notin {"report", "ended"}
    BY <1>3 DEF Built, KeepStep, Keep, AllKept, PlaceStep, Place, JournalStep, Journal,
                counters, ghosts
  <2> QED
    BY <1>3, <2>1, PlacesOutside, RestReuse
<1> QED
  BY <1>1, <1>2, <1>3

(* Records that agree written over records that do elsewhere agree.         *)
LEMMA OverAgrees ==
    ASSUME NEW d1, NEW i1, NEW d2, NEW i2, NEW T, DOMAIN i1 = DOMAIN d1,
           AgreeOff(d1, i1, T), AgreeOff(d2, i2, DOMAIN d1 \cup T)
    PROVE  AgreeOff(Over(d1, d2), Over(i1, i2), T)
<1>1. /\ DOMAIN Over(d1, d2) = DOMAIN d1 \cup DOMAIN d2
      /\ DOMAIN Over(i1, i2) = DOMAIN d1 \cup DOMAIN i2
  BY DEF Over
<1>2. ASSUME NEW e \in (DOMAIN d1 \cup DOMAIN d2) \ T
      PROVE  e \in DOMAIN Over(i1, i2) /\ Agree(Over(d1, d2)[e], Over(i1, i2)[e], e)
  <2>1. CASE e \in DOMAIN d1
    <3>1. Over(d1, d2)[e] = d1[e] /\ Over(i1, i2)[e] = i1[e]
      BY <2>1 DEF Over
    <3> QED
      BY <1>1, <1>2, <2>1, <3>1 DEF AgreeOff
  <2>2. CASE e \notin DOMAIN d1
    <3>1. e \in DOMAIN i2 /\ Agree(d2[e], i2[e], e)
      BY <1>2, <2>2 DEF AgreeOff
    <3>2. Over(d1, d2)[e] = d2[e] /\ Over(i1, i2)[e] = i2[e]
      BY <1>2, <2>2, <3>1 DEF Over
    <3> QED
      BY <1>1, <3>1, <3>2
  <2> QED
    BY <2>1, <2>2
<1> QED
  BY <1>1, <1>2 DEF AgreeOff

(* What a pass begins with agrees: the state, or the record outside.        *)
LEMMA LoadedAgrees ==
    RInv /\ at = "off" => /\ AgreeOff(Loaded.drv, Loaded.inputs, torn)
                          /\ DOMAIN Loaded.drv # {} => Loaded.kept
<1> SUFFICES ASSUME RInv, at = "off"
             PROVE  /\ AgreeOff(Loaded.drv, Loaded.inputs, torn)
                    /\ DOMAIN Loaded.drv # {} => Loaded.kept
  OBVIOUS
<1>1. /\ FromState.drv = emitted.drv /\ FromState.inputs = inputs /\ FromState.kept = TRUE
  BY DEF FromState
<1>2. AgreeOff(FromState.drv, FromState.inputs, torn)
  BY <1>1, NothingMerged DEF RInv, RecordsAgree, StateAgrees, Paired
<1>3. /\ NoEarlier.drv = Nothing /\ NoEarlier.inputs = Nothing
      /\ DOMAIN Nothing = {}
  BY DEF NoEarlier, Nothing
<1>4. AgreeOff(NoEarlier.drv, NoEarlier.inputs, torn)
  BY <1>3 DEF AgreeOff
<1> DEFINE d == [e \in DOMAIN attempt.log |-> attempt.log[e].drv]
           i == [e \in DOMAIN attempt.log |-> attempt.log[e].inputs]
<1>5. /\ FromAttempt.drv = Over(d, attempt.drv) /\ FromAttempt.kept = TRUE
      /\ FromAttempt.inputs = Over(i, attempt.inputs)
  BY DEF FromAttempt
<1>6. AgreeOff(d, i, torn) /\ DOMAIN i = DOMAIN d /\ DOMAIN d = DOMAIN attempt.log
  BY DEF RInv, RecordsAgree, AttemptAgrees, AgreeOff
<1> HIDE DEF d, i
<1>7. AgreeOff(FromAttempt.drv, FromAttempt.inputs, torn)
  BY <1>5, <1>6, OverAgrees DEF RInv, RecordsAgree, AttemptAgrees
<1> QED
  BY <1>1, <1>2, <1>3, <1>4, <1>5, <1>7 DEF Loaded

(* A pass begins with nothing derived, and ends in nothing.                 *)
LEMMA BeginReuse == ASSUME RInv, SInv', NEW t \in Targets, Begin(t) PROVE RInv'
<1>1. /\ earlier' = Loaded /\ target' = t /\ want' = Needed(t) /\ at = "off" /\ at' = "recover"
      /\ UNCHANGED <<tree, journal, recordVars, used, reused, derived, replacedOutputs,
                     fallback, now, merged, torn, retries>>
  BY DEF Begin, diskVars, stateVars, ghosts
<1>2. derived = Nothing /\ now = Nothing /\ used = Nothing /\ reused = {} /\ DOMAIN Nothing = {}
  BY <1>1 DEF RInv, ThisPass, Nothing
<1>3. MadeOnly'
  <2>1. t \subseteq Made
    BY EdgeAssumption DEF Made
  <2> QED
    BY <1>1, <1>2, <2>1, NeededClosed DEF RInv, MadeOnly
<1>4. SameOutside
  BY <1>1, WritesOutside
<1>5. RecordsAgree'
  <2>1. EarlierAgrees'
    <3>1. AgreeOff(Loaded.drv, Loaded.inputs, torn)
      BY <1>1, LoadedAgrees
    <3>2. AgreeOff(earlier.drv, earlier.inputs, torn)'
      BY <1>1, <3>1 DEF AgreeOff, Agree
    <3>3. (DOMAIN earlier.drv # {} => earlier.kept)'
      BY <1>1, LoadedAgrees, Zenon
    <3> QED
      BY <3>2, <3>3 DEF EarlierAgrees
  <2>2. StateAgrees' /\ MergedAgrees' /\ AttemptAgrees'
    <3>1. merged.done = "nothing" /\ UNCHANGED <<emitted, inputs, attempt>>
      BY <1>1, NothingMerged DEF recordVars
    <3>2. StateAgrees' /\ MergedAgrees'
      BY <1>1, <3>1 DEF RInv, RecordsAgree, StateAgrees, MergedAgrees, Backing, Paired, AgreeOff, Agree
    <3> QED
      BY <1>1, <3>1, <3>2 DEF RInv, RecordsAgree, AttemptAgrees, AgreeOff, Agree
  <2> QED
    BY <2>1, <2>2 DEF RecordsAgree
<1>6. ThisPass' /\ (\A e \in reused' : AsRecorded(e)') /\ Counted'
  BY <1>1, <1>2 DEF ThisPass, Counted
<1>7. MakersFirst'
  <2>1. used' = Nothing
    BY <1>1, <1>2
  <2> QED
    BY <1>1, <1>2, <2>1, NeededClosed DEF MakersFirst
<1> QED
  BY <1>3, <1>4, <1>5, <1>6, <1>7, OutsideStays DEF RInv

(* A pass that dies with one half of its record written leaves the edges   *)
(* it replaced torn, and the others agreeing.                               *)
LEMMA ForgetAgrees ==
    ASSUME RInv, Exit \/ Kill
    PROVE  StateAgrees' /\ AttemptAgrees'
<1>1. /\ UNCHANGED <<emitted, inputs, attempt, retries>>
      /\ derived' = Nothing /\ merged' = NotMerged /\ DOMAIN Nothing = {}
      /\ torn' = torn \/ torn' = torn \cup Halves
      /\ merged.done = "inputs" => torn' = torn \cup Halves
  <2>1. merged.done = "inputs" /\ Exit => torn' = torn \cup Halves
    <3> SUFFICES ASSUME merged.done = "inputs", Exit PROVE FALSE
      OBVIOUS
    <3> QED
      BY DEF RInv, RecordsAgree, MergedAgrees, Exit
  <2> QED
    BY <2>1 DEF Exit, Kill, Forget, recordVars, counters, ghosts, Nothing
<1>2. AttemptAgrees'
  BY <1>1 DEF RInv, RecordsAgree, AttemptAgrees, AgreeOff, Agree
<1>3. Paired(emitted.drv, inputs, torn')
  <2>1. CASE merged.done # "inputs"
    BY <1>1, <2>1 DEF RInv, RecordsAgree, StateAgrees, Paired, AgreeOff
  <2>2. CASE merged.done = "inputs"
    <3>1. /\ inputs = merged.inputs /\ Paired(merged.drv, merged.inputs, torn)
          /\ DOMAIN emitted.drv \subseteq DOMAIN merged.drv
      BY <2>2 DEF RInv, RecordsAgree, MergedAgrees
    <3>2. \A e \in DOMAIN merged.drv \ torn' :
             e \in DOMAIN emitted.drv /\ emitted.drv[e] = merged.drv[e] /\ e \notin torn
      BY <1>1, <2>2 DEF Halves
    <3>3. torn \subseteq torn'
      BY <1>1
    <3> QED
      BY <3>1, <3>2, <3>3 DEF Paired, AgreeOff
  <2> QED
    BY <2>1, <2>2
<1>4. StateAgrees'
  BY <1>1, <1>3 DEF StateAgrees, Paired, AgreeOff, Agree
<1> QED
  BY <1>2, <1>4

LEMMA ForgetReuse == ASSUME RInv, SInv', Exit \/ Kill PROVE RInv'
<1>1. Forget /\ UNCHANGED <<tree, journal, recordVars>>
  BY DEF Exit, Kill, diskVars, stateVars
<1>2. /\ at' = "off" /\ target' = {} /\ want' = {} /\ used' = Nothing /\ reused' = {}
      /\ derived' = Nothing /\ now' = Nothing /\ earlier' = NoEarlier /\ merged' = NotMerged
  BY <1>1 DEF Forget
<1>3. /\ DOMAIN Nothing = {} /\ NoEarlier.drv = Nothing /\ NotMerged.done = "nothing"
      /\ DOMAIN NotMerged = {"done", "drv", "inputs", "files"}
  BY DEF Nothing, NoEarlier, NotMerged
<1>4. MadeOnly' /\ SameOutside
  BY <1>1, <1>2, <1>3, WritesOutside DEF RInv, MadeOnly
<1>5. EarlierAgrees' /\ MergedAgrees'
  BY <1>2, <1>3 DEF EarlierAgrees, MergedAgrees, AgreeOff, Backing
<1>6. ThisPass' /\ MakersFirst' /\ (\A e \in reused' : AsRecorded(e)') /\ Counted'
  BY <1>2, <1>3 DEF ThisPass, MakersFirst, Counted
<1> QED
  BY <1>4, <1>5, <1>6, ForgetAgrees, OutsideStays DEF RInv, RecordsAgree

(* Hooks change files between passes, when no pass has derived anything.    *)
LEMMA BetweenReuse ==
    ASSUME RInv, SInv', UNCHANGED <<rewindVars, passVars>>,
           at = "off", Hashed', MadeOnly', RecordsAgree'
    PROVE  RInv'
<1>1. /\ derived = Nothing /\ now = Nothing /\ used = Nothing /\ reused = {}
      /\ UNCHANGED <<at, derived, now, used, reused, want, earlier, replacedOutputs, fallback>>
      /\ DOMAIN Nothing = {}
  BY DEF RInv, ThisPass, Nothing, rewindVars, passVars
<1>2. derived' = Nothing /\ now' = Nothing /\ used' = Nothing /\ reused' = {} /\ at' = "off"
  BY <1>1
<1>3. MakersFirst'
  BY <1>1 DEF RInv, MakersFirst, Carried
<1>4. ThisPass' /\ (\A e \in reused' : AsRecorded(e)') /\ Counted'
  BY <1>1, <1>2 DEF ThisPass, Counted
<1> QED
  BY <1>3, <1>4 DEF RInv

LEMMA HookReuse == ASSUME RInv, SInv', NEW p \in Path, Write(p) \/ Delete(p) PROVE RInv'
<1>1. /\ at = "off" /\ UNCHANGED <<emitted, inputs, attempt, rewindVars, passVars, journal, torn, retries>>
      /\ \/ \E s : tree' = With(tree, p, File(<<"hook", clock>>, s))
         \/ tree' = Less(tree, {p})
  BY DEF Write, Delete, Hook, recordVars, stateVars
<1>2. Hashed'
  <2>1. ASSUME NEW s, tree' = With(tree, p, File(<<"hook", clock>>, s)) PROVE Hashed'
    <3>1. PICK v : tree' = With(tree, p, v) /\ v.bytes = <<"hook", clock>>
      BY <2>1 DEF File
    <3> QED
      BY <3>1, BytesKnown DEF RInv, Hashed, With, Bytes
  <2>2. ASSUME tree' = Less(tree, {p}) PROVE Hashed'
    BY <2>2 DEF RInv, Hashed, Less, Bytes
  <2> QED
    BY <1>1, <2>1, <2>2
<1>3. MadeOnly'
  BY <1>1 DEF RInv, MadeOnly, rewindVars, passVars
<1>4. RecordsAgree'
  BY <1>1, NothingMerged, RecordsStay DEF passVars
<1> QED
  BY <1>1, <1>2, <1>3, <1>4, BetweenReuse

LEMMA RetryReuse == ASSUME RInv, SInv', Retry PROVE RInv'
<1>1. PICK S \in SUBSET Patched : outside' = [p \in DOMAIN Configured |->
                IF p \in S THEN <<"patched", p>> ELSE Configured[p]]
  BY DEF Retry
<1>2. /\ at = "off" /\ tree' = Dated(outside') /\ journal' = NoJournal
      /\ emitted' = NoRecord /\ inputs' = Nothing
      /\ UNCHANGED <<attempt, rewindVars, passVars, torn>>
  BY DEF Retry
<1>3. ASSUME NEW p \in DOMAIN tree' PROVE Bytes(p)' # Unknown
  <2>1. p \in DOMAIN Configured /\ Bytes(p)' = outside'[p]
    BY <1>1, <1>2, <1>3 DEF Dated, File, Bytes
  <2> QED
    BY <1>1, <2>1, BytesKnown
<1>4. DOMAIN Nothing = {} /\ NoRecord.drv = Nothing /\ NoJournal.F = Nothing /\ NoJournal.O = Nothing
  BY DEF Nothing, NoRecord, NoJournal
<1>5. MadeOnly'
  BY <1>2, <1>4 DEF RInv, MadeOnly, rewindVars, passVars
<1>6. /\ merged.done = "nothing" /\ DOMAIN derived = {} /\ UNCHANGED <<merged, derived, earlier>>
      /\ emitted'.drv = Nothing /\ inputs' = Nothing
  BY <1>2, <1>4, NothingMerged DEF RInv, ThisPass, passVars
<1>7. StateAgrees' /\ EarlierAgrees' /\ MergedAgrees'
  <2>1. StateAgrees'
    BY <1>4, <1>6 DEF StateAgrees, Paired, AgreeOff
  <2>2. EarlierAgrees'
    BY <1>2, <1>6 DEF RInv, RecordsAgree, EarlierAgrees, AgreeOff, Agree
  <2>3. MergedAgrees'
    BY <1>6 DEF RInv, RecordsAgree, MergedAgrees, Backing
  <2> QED
    BY <2>1, <2>2, <2>3
<1>8. AttemptAgrees'
  BY <1>2, <1>4, <1>6 DEF RInv, RecordsAgree, AttemptAgrees, AgreeOff, Agree
<1> QED
  BY <1>2, <1>3, <1>5, <1>7, <1>8, BetweenReuse DEF Hashed, RecordsAgree

(* An edge is reused: the derivations of its makers are the recorded ones, *)
(* for it does not read what a replaced one wrote.                          *)
LEMMA ReuseReuse == ASSUME RInv, SInv', NEW e \in Edge, Reuse(e) PROVE RInv'
<1>1. /\ at = "run" /\ e \in want /\ Makers(e) \cap want = {}
      /\ e \in DOMAIN earlier.drv /\ ~ConsumesReplaced(e)
      /\ used' = With(used, e, earlier.drv[e])
      /\ reused' = reused \cup {e} /\ want' = want \ {e}
      /\ UNCHANGED <<tree, journal, at, todo, emitted, inputs, attempt, earlier, target,
                     derived, replacedOutputs, fallback, now, merged, torn, retries>>
  BY DEF Reuse, Ready, Refused, diskVars, stateVars, rewindVars, recordVars, counters, ghosts
<1>2. /\ DOMAIN used' = DOMAIN used \cup {e} /\ used'[e] = earlier.drv[e]
      /\ \A m \in DOMAIN used : m # e /\ used'[m] = used[m]
  BY <1>1 DEF With, RInv, MakersFirst
<1>3. \A m \in DOMAIN used : Carried(m) => Carried(m)'
  BY <1>1, <1>2 DEF Carried
<1>4. MadeOnly' /\ Hashed'
  BY <1>1, <1>2 DEF RInv, MadeOnly, Hashed, Bytes
<1>5. RecordsAgree'
  BY <1>1, NothingMerged, RecordsStay
<1>6. ThisPass' /\ Counted'
  BY <1>1 DEF RInv, ThisPass, Counted, Bytes
<1>7. MakersFirst'
  <2>1. Carried(e)'
    BY <1>1, <1>2 DEF Carried
  <2>2. \A m \in DOMAIN used' : Carried(m)' \/ Outs[m] \subseteq replacedOutputs'
    BY <1>1, <1>2, <1>3, <2>1 DEF RInv, MakersFirst
  <2>3. want' \cup DOMAIN used' = want \cup DOMAIN used
    BY <1>1, <1>2
  <2>4. want' \cap DOMAIN used' = {}
    BY <1>1, <1>2 DEF RInv, MakersFirst
  <2> QED
    BY <2>2, <2>3, <2>4 DEF RInv, MakersFirst
<1>8. ASSUME e \notin torn, NEW m \in Makers(e) PROVE m \in DOMAIN used /\ Carried(m)
  <2>1. m \in DOMAIN used
    BY <1>1, <1>8 DEF RInv, MakersFirst
  <2>2. PICK p \in Declared[e] \cap Made : m = Maker(p)
    BY <1>8 DEF Makers
  <2>3. p \in Outs[m]
    BY <2>2, MakersMake
  <2>4. p \in DOMAIN InputsOf(e)
    BY <1>1, <1>8, <2>2 DEF InputsOf, RInv, RecordsAgree, EarlierAgrees, AgreeOff, Agree
  <2>5. ~(Outs[m] \subseteq replacedOutputs)
    BY <1>1, <2>3, <2>4 DEF ConsumesReplaced
  <2> QED
    BY <2>1, <2>5 DEF RInv, MakersFirst
<1>9. ASSUME NEW r \in reused' PROVE AsRecorded(r)'
  <2>1. CASE r = e
    BY <1>1, <1>2, <1>3, <1>8, <2>1 DEF AsRecorded
  <2>2. CASE r # e
    <3>1. r \in reused /\ AsRecorded(r)
      BY <1>1, <1>9, <2>2 DEF RInv
    <3> QED
      BY <1>1, <1>2, <1>3, <3>1 DEF AsRecorded
  <2> QED
    BY <2>1, <2>2
<1> QED
  BY <1>4, <1>5, <1>6, <1>7, <1>9 DEF RInv

(* The hash of a file no edge makes is of its bytes, memo or not.           *)
LEMMA HashIs ==
    ASSUME RInv, NEW p, p \notin Made
    PROVE  /\ p \in DOMAIN tree => Hash(p) = Bytes(p) /\ Hash(p) # Unknown
           /\ p \notin DOMAIN tree => Hash(p) = Unknown
  BY DEF RInv, ThisPass, Hashed, Hash

(* An edge is derived: it is given the directory's bytes.                   *)
LEMMA DeriveReuse == ASSUME RInv, SInv', NEW e \in Edge, Derive(e) PROVE RInv'
<1> DEFINE drv  == Derivation(e)
           read == [p \in Given(e) |-> Hash(p)]
<1>1. /\ at = "run" /\ e \in want
      /\ Declared[e] \ Made \subseteq DOMAIN tree
      /\ used' = With(used, e, drv)
      /\ derived' = With(derived, e, [drv |-> drv, inputs |-> Given(e)])
      /\ want' = want \ {e}
      /\ UNCHANGED <<tree, journal, at, todo, emitted, inputs, earlier, target, reused,
                     merged, torn, retries>>
      /\ fallback \subseteq fallback' /\ replacedOutputs \subseteq replacedOutputs'
      /\ e \in DOMAIN earlier.drv => fallback' # {} \/ Outs[e] \subseteq replacedOutputs'
      /\ \/ attempt' = [attempt EXCEPT !.log = With(@, e, [drv |-> drv, inputs |-> read])]
            /\ now' = Over(now, read)
         \/ ~attempt.kept /\ UNCHANGED <<attempt, now>>
  BY DEF Derive, Ready, Resolves, JournalEdge, diskVars, stateVars, rewindVars, counters, ghosts
<1>2. /\ Declared[e] \subseteq Given(e)
      /\ \A p \in Given(e) : p \notin Made => p \in DOMAIN tree
      /\ \A p \in Declared[e] \ Made : drv[2][p] = Bytes(p)
  BY <1>1 DEF Given, Derivation
<1>3. Agree(drv, read, e)
  BY <1>1, <1>2, HashIs DEF Agree
<1> HIDE DEF drv
<1>4. /\ DOMAIN used' = DOMAIN used \cup {e}
      /\ \A m \in DOMAIN used : m # e /\ used'[m] = used[m]
  BY <1>1 DEF With, RInv, MakersFirst
<1>5. \A m \in DOMAIN used : Carried(m) => Carried(m)'
  BY <1>1, <1>4 DEF Carried
<1>6. MadeOnly' /\ Hashed'
  BY <1>1, <1>4 DEF RInv, MadeOnly, Hashed, Bytes
<1>7. RecordsAgree'
  <2>1. merged.done = "nothing" /\ DOMAIN derived' = DOMAIN derived \cup {e}
    BY <1>1, NothingMerged DEF With
  <2>2. StateAgrees' /\ EarlierAgrees' /\ MergedAgrees'
    BY <1>1, <2>1 DEF RInv, RecordsAgree, StateAgrees, EarlierAgrees, MergedAgrees, Backing,
                      Paired, AgreeOff, Agree
  <2>3. CASE ~attempt.kept /\ UNCHANGED attempt
    <3>1. AttemptAgrees'
      BY <1>1, <2>3 DEF RInv, RecordsAgree, AttemptAgrees, AgreeOff, Agree
    <3> QED
      BY <2>2, <3>1 DEF RecordsAgree
  <2>4. CASE attempt' = [attempt EXCEPT !.log = With(@, e, [drv |-> drv, inputs |-> read])]
    <3>1. PICK v : v.drv = drv /\ v.inputs = read /\ attempt' = [attempt EXCEPT !.log = With(@, e, v)]
      BY <2>4
    <3> HIDE DEF read
    <3>2. /\ attempt'.drv = attempt.drv /\ attempt'.inputs = attempt.inputs
          /\ attempt'.dir = attempt.dir /\ attempt'.kept = attempt.kept
          /\ attempt'.log = With(attempt.log, e, v)
          /\ DOMAIN attempt' = DOMAIN attempt
      BY <3>1 DEF RInv, RecordsAgree, AttemptAgrees
    <3>3. ASSUME NEW f \in DOMAIN attempt'.log
          PROVE  Agree(attempt'.log[f].drv, attempt'.log[f].inputs, f)
      <4>1. CASE f = e
        <5>1. attempt'.log[f] = v
          BY <3>2, <4>1 DEF With
        <5> QED
          BY <1>3, <3>1, <4>1, <5>1
      <4>2. CASE f # e
        <5>1. f \in DOMAIN attempt.log /\ attempt'.log[f] = attempt.log[f]
          BY <3>2, <3>3, <4>2 DEF With
        <5> QED
          BY <5>1 DEF RInv, RecordsAgree, AttemptAgrees
      <4> QED
        BY <4>1, <4>2
    <3>4. DOMAIN attempt'.log = DOMAIN attempt.log \cup {e}
      BY <3>2 DEF With
    <3>5. DOMAIN attempt' = {"kept", "drv", "inputs", "files", "log", "dir"}
      BY <3>2 DEF RInv, RecordsAgree, AttemptAgrees
    <3>6. \A f \in DOMAIN attempt'.log : Agree(attempt.log[f].drv, attempt.log[f].inputs, f)'
      BY <3>3 DEF Agree
    <3>7. AgreeOff(attempt.drv, attempt.inputs, DOMAIN attempt.log \cup torn)'
      BY <1>1, <3>2, <3>4 DEF RInv, RecordsAgree, AttemptAgrees, AgreeOff, Agree
    <3>8. (attempt.kept =>
             /\ AgreeOff(emitted.drv, attempt.inputs, DOMAIN attempt.log \cup torn)
             /\ merged.done # "all" => DOMAIN derived \subseteq DOMAIN attempt.log
             /\ attempt.dir # retries => DOMAIN emitted.drv \subseteq DOMAIN attempt.log)'
      BY <1>1, <2>1, <3>2, <3>4 DEF RInv, RecordsAgree, AttemptAgrees, AgreeOff, Agree
    <3>9. AttemptAgrees'
      BY <3>5, <3>6, <3>7, <3>8 DEF AttemptAgrees
    <3> QED
      BY <2>2, <3>9 DEF RecordsAgree
  <2> QED
    BY <1>1, <2>3, <2>4
<1>8. ThisPass'
  <2>1. ASSUME NEW f \in DOMAIN derived'
        PROVE  /\ Declared[f] \subseteq derived'[f].inputs
               /\ \A p \in Declared[f] \ Made :
                     p \in DOMAIN tree' /\ derived'[f].drv[2][p] = Bytes(p)'
    <3>1. PICK v : v.drv = drv /\ v.inputs = Given(e) /\ derived' = With(derived, e, v)
      BY <1>1
    <3>2. CASE f = e
      <4>1. derived'[f] = v
        BY <3>1, <3>2 DEF With
      <4> QED
        BY <1>1, <1>2, <3>1, <3>2, <4>1 DEF Bytes
    <3>3. CASE f # e
      <4>1. f \in DOMAIN derived /\ derived'[f] = derived[f]
        BY <2>1, <3>1, <3>3 DEF With
      <4> QED
        BY <1>1, <4>1 DEF RInv, ThisPass, Bytes
    <3> QED
      BY <3>2, <3>3
  <2>2. ASSUME NEW p \in DOMAIN now' \ Made PROVE p \in DOMAIN tree' /\ now'[p] = Bytes(p)'
    <3>1. CASE UNCHANGED now
      BY <1>1, <2>2, <3>1 DEF RInv, ThisPass, Bytes
    <3>2. CASE now' = Over(now, read)
      <4>1. CASE p \in DOMAIN now
        BY <1>1, <2>2, <3>2, <4>1 DEF RInv, ThisPass, Bytes, Over
      <4>2. CASE p \notin DOMAIN now
        <5>1. p \in Given(e) /\ now'[p] = Hash(p)
          BY <2>2, <3>2, <4>2 DEF Over
        <5> QED
          BY <1>1, <1>2, <2>2, <5>1, HashIs DEF Bytes
      <4> QED
        BY <4>1, <4>2
    <3> QED
      BY <1>1, <3>1, <3>2
  <2> QED
    BY <1>1, <2>1, <2>2 DEF ThisPass
<1>9. MakersFirst'
  <2>1. Carried(e)' \/ Outs[e] \subseteq replacedOutputs'
    BY <1>1 DEF Carried
  <2>2. \A m \in DOMAIN used' : Carried(m)' \/ Outs[m] \subseteq replacedOutputs'
    BY <1>1, <1>4, <1>5, <2>1 DEF RInv, MakersFirst
  <2>3. want' \cup DOMAIN used' = want \cup DOMAIN used
    BY <1>1, <1>4
  <2>4. want' \cap DOMAIN used' = {}
    BY <1>1, <1>4 DEF RInv, MakersFirst
  <2> QED
    BY <2>2, <2>3, <2>4 DEF RInv, MakersFirst
<1>10. (\A r \in reused' : AsRecorded(r)') /\ Counted'
  BY <1>1, <1>4, <1>5 DEF RInv, AsRecorded, Counted
<1> QED
  BY <1>6, <1>7, <1>8, <1>9, <1>10 DEF RInv

(* The report has what the pass derived beside what it read for it.         *)
LEMMA NewPaired ==
    ASSUME RInv, at # "off", merged.done # "inputs"
    PROVE  Paired(NewDrv, Filled(Recorded), torn)
<1> DEFINE wd == {e \in DOMAIN derived : e \in replaced \/ e \notin DOMAIN emitted.drv}
           wi == {e \in DOMAIN derived : e \in replaced \/ e \notin DOMAIN inputs}
<1>1. Paired(emitted.drv, inputs, torn)
  BY DEF RInv, RecordsAgree, StateAgrees
<1>2. /\ DOMAIN NewDrv = wd \cup DOMAIN emitted.drv
      /\ \A e \in wd : NewDrv[e] = derived[e].drv
      /\ \A e \in DOMAIN emitted.drv \ wd : NewDrv[e] = emitted.drv[e]
  BY DEF NewDrv, Over
<1>3. /\ DOMAIN Recorded = wi \cup DOMAIN inputs
      /\ \A e \in wi : Recorded[e] = NewRead(e)
      /\ \A e \in DOMAIN inputs \ wi : Recorded[e] = inputs[e]
  BY DEF Recorded, Over
<1>4. DOMAIN Recorded \subseteq DOMAIN NewDrv \cup torn
  BY <1>1, <1>2, <1>3 DEF Paired
<1>5. ASSUME NEW e \in DOMAIN NewDrv \ torn
      PROVE  e \in DOMAIN Recorded /\ Agree(NewDrv[e], Recorded[e], e)
  <2>1. CASE e \in wd
    <3>1. e \in wi
      BY <1>1, <1>5, <2>1 DEF Paired
    <3>2. Agree(derived[e].drv, NewRead(e), e)
      BY <2>1, HashIs DEF Agree, NewRead, RInv, ThisPass
    <3> QED
      BY <1>2, <1>3, <2>1, <3>1, <3>2
  <2>2. CASE e \notin wd
    <3>1. e \in DOMAIN emitted.drv /\ e \in DOMAIN inputs /\ Agree(emitted.drv[e], inputs[e], e)
      BY <1>1, <1>2, <1>5, <2>2 DEF Paired, AgreeOff
    <3>2. e \notin wi
      BY <2>2, <3>1
    <3> QED
      BY <1>2, <1>3, <2>2, <3>1, <3>2
  <2> QED
    BY <2>1, <2>2
<1>6. /\ DOMAIN Filled(Recorded) = DOMAIN Recorded
      /\ \A e \in DOMAIN Recorded :
            /\ DOMAIN Filled(Recorded)[e] = DOMAIN Recorded[e]
            /\ \A p \in DOMAIN Recorded[e] :
                  Recorded[e][p] # Unknown => Filled(Recorded)[e][p] = Recorded[e][p]
  BY DEF Filled
<1>7. ASSUME NEW e \in DOMAIN NewDrv \ torn
      PROVE  e \in DOMAIN Filled(Recorded) /\ Agree(NewDrv[e], Filled(Recorded)[e], e)
  BY <1>5, <1>6 DEF Agree
<1> QED
  BY <1>4, <1>6, <1>7 DEF Paired, AgreeOff

(* A reused edge it does not count reads what it read.                      *)
LEMMA ReportCounts ==
    ASSUME RInv, NEW e \in reused \ torn, ~InputMoved(e), NEW p \in Declared[e] \ Made
    PROVE  used[e][2][p] = Bytes(p)
<1>1. e \in DOMAIN earlier.drv /\ used[e] = earlier.drv[e]
  BY DEF RInv, AsRecorded
<1>2. /\ InputsOf(e) = earlier.inputs[e] /\ p \in DOMAIN InputsOf(e)
      /\ InputsOf(e)[p] = earlier.drv[e][2][p] /\ InputsOf(e)[p] # Unknown
  BY <1>1 DEF InputsOf, RInv, RecordsAgree, EarlierAgrees, AgreeOff, Agree
<1>3. InputsOf(e)[p] = Hash(p)
  BY <1>2 DEF InputMoved
<1> QED
  BY <1>1, <1>2, <1>3, HashIs

(* The files are written one after the other: up to the first, the records *)
(* that are there agree; between the first and the second, what is being   *)
(* written does.                                                            *)
LEMMA MergeAgrees ==
    ASSUME RInv, at = "report", UNCHANGED <<at, derived, torn, retries>>, Merge
    PROVE  StateAgrees' /\ MergedAgrees' /\ AttemptAgrees'
<1>1. /\ merged.done = "nothing" /\ merged'.done = "files" /\ merged'.drv = NewDrv
      /\ merged'.inputs = Filled(Recorded) /\ UNCHANGED <<emitted, inputs, attempt>>
      /\ DOMAIN merged' = {"done", "drv", "inputs", "files"}
  BY DEF Merge, NotMerged
<1>2. /\ DOMAIN emitted.drv \subseteq DOMAIN NewDrv
      /\ \A e \in DOMAIN NewDrv \ DOMAIN derived :
            e \in DOMAIN emitted.drv /\ NewDrv[e] = emitted.drv[e]
  BY DEF NewDrv, Over
<1>3. Paired(merged'.drv, merged'.inputs, torn)
  BY <1>1, NewPaired
<1>4. MergedAgrees'
  BY <1>1, <1>2, <1>3 DEF MergedAgrees, Paired, AgreeOff, Agree, Backing
<1>5. StateAgrees'
  BY <1>1 DEF RInv, RecordsAgree, StateAgrees, Paired, AgreeOff, Agree
<1>6. AttemptAgrees'
  BY <1>1 DEF RInv, RecordsAgree, AttemptAgrees, AgreeOff, Agree
<1> QED
  BY <1>4, <1>5, <1>6

LEMMA AfterIs ==
    ASSUME RInv, NEW done, NEW next, After(done, next)
    PROVE  /\ merged.done = done /\ merged'.done = next
           /\ merged'.drv = merged.drv /\ merged'.inputs = merged.inputs
           /\ merged'.files = merged.files
           /\ DOMAIN merged' = {"done", "drv", "inputs", "files"}
  BY DEF After, RInv, RecordsAgree, MergedAgrees

LEMMA WriteInputsAgrees ==
    ASSUME RInv, at = "report", UNCHANGED <<at, derived, torn, retries>>, WriteInputs
    PROVE  StateAgrees' /\ MergedAgrees' /\ AttemptAgrees'
<1>1. /\ merged.done = "files" /\ merged'.done = "inputs" /\ merged'.drv = merged.drv
      /\ merged'.inputs = merged.inputs /\ inputs' = merged.inputs
      /\ UNCHANGED <<emitted, attempt>>
      /\ DOMAIN merged' = {"done", "drv", "inputs", "files"}
  BY AfterIs DEF WriteInputs
<1>2. MergedAgrees'
  BY <1>1 DEF RInv, RecordsAgree, MergedAgrees, Paired, AgreeOff, Agree, Backing
<1>3. AttemptAgrees'
  BY <1>1 DEF RInv, RecordsAgree, AttemptAgrees, AgreeOff, Agree
<1> QED
  BY <1>1, <1>2, <1>3 DEF StateAgrees

LEMMA WriteEmittedAgrees ==
    ASSUME RInv, at = "report", UNCHANGED <<at, derived, torn, retries>>, WriteEmitted
    PROVE  StateAgrees' /\ MergedAgrees' /\ AttemptAgrees'
<1>1. \/ attempt.kept /\ After("inputs", "emitted")
      \/ ~attempt.kept /\ After("inputs", "all")
  BY DEF WriteEmitted
<1>2. /\ merged.done = "inputs" /\ merged'.drv = merged.drv /\ merged'.inputs = merged.inputs
      /\ \/ attempt.kept /\ merged'.done = "emitted"
         \/ ~attempt.kept /\ merged'.done = "all"
      /\ DOMAIN merged' = {"done", "drv", "inputs", "files"}
  BY <1>1, AfterIs
<1>3. emitted'.drv = merged.drv /\ UNCHANGED <<inputs, attempt>>
  BY DEF WriteEmitted
<1>4. /\ inputs = merged.inputs /\ Paired(merged.drv, merged.inputs, torn)
      /\ \A e \in DOMAIN merged.drv \ DOMAIN derived :
            e \in DOMAIN emitted.drv /\ merged.drv[e] = emitted.drv[e]
  BY <1>2 DEF RInv, RecordsAgree, MergedAgrees
<1>5. StateAgrees'
  BY <1>2, <1>3, <1>4 DEF StateAgrees, Paired, AgreeOff, Agree
<1>6. MergedAgrees'
  <2>1. (merged.done # "nothing" =>
           /\ at = "report" \/ (at = "ended" /\ merged.done = "all")
           /\ Paired(merged.drv, merged.inputs, torn)
           /\ DOMAIN emitted.drv \subseteq DOMAIN merged.drv
           /\ \A e \in DOMAIN merged.drv \ DOMAIN derived :
                 e \in DOMAIN emitted.drv /\ merged.drv[e] = emitted.drv[e])'
    BY <1>2, <1>3, <1>4 DEF Paired, AgreeOff, Agree
  <2> QED
    BY <1>2, <1>3, <1>4, <2>1 DEF MergedAgrees, Backing
<1>7. ASSUME attempt.kept
      PROVE  /\ DOMAIN derived \subseteq DOMAIN attempt.log
             /\ AgreeOff(emitted.drv, attempt.inputs, DOMAIN attempt.log \cup torn)
             /\ attempt.dir # retries => DOMAIN emitted.drv \subseteq DOMAIN attempt.log
  BY <1>2, <1>7 DEF RInv, RecordsAgree, AttemptAgrees
<1>8. ASSUME attempt.kept
      PROVE  /\ AgreeOff(merged.drv, attempt.inputs, DOMAIN attempt.log \cup torn)
             /\ attempt.dir # retries => DOMAIN merged.drv \subseteq DOMAIN attempt.log
  BY <1>4, <1>7, <1>8 DEF AgreeOff
<1>9. AttemptAgrees'
  <2>1. /\ DOMAIN attempt = {"kept", "drv", "inputs", "files", "log", "dir"}
        /\ \A e \in DOMAIN attempt.log : Agree(attempt.log[e].drv, attempt.log[e].inputs, e)
        /\ AgreeOff(attempt.drv, attempt.inputs, DOMAIN attempt.log \cup torn)
    BY DEF RInv, RecordsAgree, AttemptAgrees
  <2> QED
    BY <1>3, <1>7, <1>8, <2>1 DEF AttemptAgrees, AgreeOff, Agree
<1> QED
  BY <1>5, <1>6, <1>9

(* The attempt's files: its derivations first, which its old inputs agree   *)
(* with or the journal is over; the journal last.                           *)
LEMMA BackAgrees ==
    ASSUME RInv, at = "report", UNCHANGED <<at, derived, torn, retries>>,
           BackEmitted \/ BackFiles \/ BackInputs \/ DropJournal
    PROVE  StateAgrees' /\ MergedAgrees' /\ AttemptAgrees'
<1>1. /\ UNCHANGED <<emitted, inputs>>
      /\ merged'.drv = merged.drv /\ merged'.inputs = merged.inputs
      /\ DOMAIN merged' = {"done", "drv", "inputs", "files"}
      /\ BackEmitted => merged.done = "emitted" /\ merged'.done = "attempt emitted"
      /\ BackFiles => merged.done = "attempt emitted" /\ merged'.done = "attempt files"
      /\ BackInputs => merged.done = "attempt files" /\ merged'.done = "attempt inputs"
      /\ DropJournal => merged.done = "attempt inputs" /\ merged'.done = "all"
  BY AfterIs DEF BackEmitted, BackFiles, BackInputs, DropJournal
<1> DEFINE Order == <<merged.done, merged'.done>> \in
              {<<"emitted", "attempt emitted">>, <<"attempt emitted", "attempt files">>,
               <<"attempt files", "attempt inputs">>, <<"attempt inputs", "all">>}
<1>0. Order
  BY <1>1
<1> HIDE DEF Order
<1>2. /\ inputs = merged.inputs /\ emitted.drv = merged.drv /\ attempt.kept
      /\ Paired(merged.drv, merged.inputs, torn)
      /\ merged.done \in Backing => attempt.drv = merged.drv
      /\ merged.done = "attempt inputs" => attempt.inputs = merged.inputs /\ attempt.dir = retries
  BY <1>0 DEF RInv, RecordsAgree, MergedAgrees, Backing, Order
<1>3. /\ DOMAIN attempt = {"kept", "drv", "inputs", "files", "log", "dir"}
      /\ \A e \in DOMAIN attempt.log : Agree(attempt.log[e].drv, attempt.log[e].inputs, e)
      /\ DOMAIN derived \subseteq DOMAIN attempt.log
      /\ AgreeOff(emitted.drv, attempt.inputs, DOMAIN attempt.log \cup torn)
      /\ attempt.dir # retries => DOMAIN emitted.drv \subseteq DOMAIN attempt.log
  BY <1>0, <1>2 DEF RInv, RecordsAgree, AttemptAgrees, Order
<1>4. /\ DOMAIN attempt' = DOMAIN attempt /\ attempt'.kept /\ attempt'.drv = merged.drv
      /\ merged'.done # "all" => attempt'.log = attempt.log
      /\ merged'.done = "all" => attempt'.log = Nothing
      /\ merged'.done \in {"attempt inputs", "all"} =>
            attempt'.inputs = merged.inputs /\ attempt'.dir = retries
      /\ merged'.done \notin {"attempt inputs", "all"} =>
            /\ attempt'.dir = attempt.dir
            /\ attempt.dir = retries => attempt'.inputs = attempt.inputs
  <2>1. CASE BackEmitted
    <3>1. /\ merged'.done = "attempt emitted"
          /\ attempt' = [attempt EXCEPT !.drv = merged.drv]
      BY <1>1, <2>1 DEF BackEmitted
    <3> QED
      BY <1>2, <1>3, <3>1
  <2>2. CASE BackFiles
    <3>1. PICK r \in Readings :
             attempt' = [attempt EXCEPT !.inputs = r.inputs, !.files = r.files]
      BY <2>2 DEF BackFiles
    <3>2. attempt.dir = retries => r.inputs = attempt.inputs
      BY <3>1 DEF Readings
    <3>3. merged.done = "attempt emitted" /\ merged'.done = "attempt files"
      BY <1>1, <2>2
    <3> QED
      BY <1>2, <1>3, <3>1, <3>2, <3>3 DEF Backing
  <2>3. CASE BackInputs
    <3>1. /\ merged.done = "attempt files" /\ merged'.done = "attempt inputs"
          /\ attempt' = [attempt EXCEPT !.inputs = merged.inputs, !.files = merged.files,
                                        !.dir = retries]
      BY <1>1, <2>3 DEF BackInputs
    <3> QED
      BY <1>2, <1>3, <3>1 DEF Backing
  <2>4. CASE DropJournal
    <3>1. /\ merged.done = "attempt inputs" /\ merged'.done = "all"
          /\ attempt' = [attempt EXCEPT !.log = Nothing]
      BY <1>1, <2>4 DEF DropJournal
    <3> QED
      BY <1>2, <1>3, <3>1 DEF Backing
  <2> QED
    BY <2>1, <2>2, <2>3, <2>4
<1>5. StateAgrees'
  <2>1. Paired(emitted.drv, inputs, torn)
    BY <1>2
  <2> QED
    BY <1>1, <2>1 DEF StateAgrees, Paired, AgreeOff, Agree
<1>6. MergedAgrees'
  <2>1. (merged.done # "nothing" =>
           /\ at = "report" \/ (at = "ended" /\ merged.done = "all")
           /\ Paired(merged.drv, merged.inputs, torn)
           /\ DOMAIN emitted.drv \subseteq DOMAIN merged.drv
           /\ \A e \in DOMAIN merged.drv \ DOMAIN derived :
                 e \in DOMAIN emitted.drv /\ merged.drv[e] = emitted.drv[e])'
    <3>1. at' = "report" /\ emitted'.drv = merged.drv
      BY <1>1, <1>2
    <3>2. UNCHANGED <<merged.drv, merged.inputs, torn>>
      BY <1>1
    <3>3. Paired(merged.drv, merged.inputs, torn)
      BY <1>2
    <3>4. Paired(merged.drv, merged.inputs, torn)'
      BY <3>2, <3>3 DEF Paired, AgreeOff, Agree
    <3> QED
      BY <1>1, <3>1, <3>4
  <2> QED
    BY <1>0, <1>1, <1>2, <1>4, <2>1 DEF MergedAgrees, Backing, Order
<1>7. AgreeOff(merged.drv, attempt'.inputs, DOMAIN attempt'.log \cup torn)
  <2>1. CASE merged'.done \in {"attempt inputs", "all"}
    BY <1>2, <1>4, <2>1 DEF Paired, AgreeOff
  <2>2. CASE merged'.done \notin {"attempt inputs", "all"}
    BY <1>2, <1>3, <1>4, <2>2 DEF AgreeOff
  <2> QED
    BY <2>1, <2>2
<1>8. \A e \in DOMAIN attempt'.log : Agree(attempt'.log[e].drv, attempt'.log[e].inputs, e)
  BY <1>3, <1>4 DEF Nothing
<1>9. /\ merged'.done # "all" => DOMAIN derived \subseteq DOMAIN attempt'.log
      /\ attempt'.dir # retries => DOMAIN merged.drv \subseteq DOMAIN attempt'.log
  BY <1>2, <1>3, <1>4
<1>10. AttemptAgrees'
  <2>1. /\ DOMAIN attempt' = {"kept", "drv", "inputs", "files", "log", "dir"}
        /\ attempt'.drv = merged.drv /\ emitted'.drv = merged.drv
        /\ UNCHANGED <<derived, torn, retries>>
    BY <1>1, <1>2, <1>3, <1>4
  <2> QED
    BY <1>7, <1>8, <1>9, <2>1 DEF AttemptAgrees, AgreeOff, Agree
<1> QED
  BY <1>5, <1>6, <1>10

LEMMA RecordReuse == ASSUME RInv, SInv', RecordStep PROVE RInv'
<1>1. /\ at = "report"
      /\ UNCHANGED <<tree, journal, at, todo, earlier, target, want, used, reused, derived,
                     replacedOutputs, fallback, now, torn, retries>>
      /\ \/ Merge \/ WriteInputs \/ WriteEmitted
         \/ BackEmitted \/ BackFiles \/ BackInputs \/ DropJournal
  BY DEF RecordStep, diskVars, stateVars, rewindVars, counters, ghosts
<1>2. StateAgrees' /\ MergedAgrees' /\ AttemptAgrees'
  BY <1>1, MergeAgrees, WriteInputsAgrees, WriteEmittedAgrees, BackAgrees
<1>3. EarlierAgrees'
  BY <1>1 DEF RInv, RecordsAgree, EarlierAgrees, AgreeOff, Agree
<1>4. MadeOnly' /\ Hashed'
  BY <1>1 DEF RInv, MadeOnly, Hashed, Bytes
<1>5. ThisPass' /\ Counted'
  BY <1>1 DEF RInv, ThisPass, Counted, Bytes
<1>6. MakersFirst' /\ \A e \in reused' : AsRecorded(e)'
  BY <1>1 DEF RInv, MakersFirst, AsRecorded, Carried
<1> QED
  BY <1>2, <1>3, <1>4, <1>5, <1>6 DEF RInv, RecordsAgree

LEMMA ReportReuse == ASSUME RInv, SInv', Report PROVE RInv'
<1>1. /\ at = "report" /\ at' = "ended" /\ merged.done = "all"
      /\ stale' = IF earlier.kept THEN Stale ELSE {}
      /\ UNCHANGED <<tree, journal, todo, emitted, inputs, attempt, earlier, target, want, used,
                     reused, derived, replacedOutputs, fallback, now, merged, torn, retries>>
  BY DEF Report, diskVars, stateVars, recordVars, counters, ghosts
<1>2. MadeOnly' /\ Hashed'
  BY <1>1 DEF RInv, MadeOnly, Hashed, Bytes
<1>3. RecordsAgree'
  BY <1>1, RecordsStay
<1>4. ThisPass'
  BY <1>1 DEF RInv, ThisPass, Bytes
<1>5. MakersFirst' /\ \A e \in reused' : AsRecorded(e)'
  BY <1>1 DEF RInv, MakersFirst, AsRecorded, Carried
<1>6. Counted'
  <2> SUFFICES ASSUME NEW e \in reused \ (stale' \cup torn), NEW p \in Declared[e] \ Made
               PROVE  used[e][2][p] = Bytes(p)
    BY <1>1 DEF Counted, Bytes
  <2>1. earlier.kept
    BY DEF RInv, AsRecorded, RecordsAgree, EarlierAgrees
  <2>2. ~InputMoved(e)
    BY <1>1, <2>1 DEF Stale
  <2> QED
    BY <2>2, ReportCounts
<1> QED
  BY <1>2, <1>3, <1>4, <1>5, <1>6 DEF RInv

LEMMA ReuseStep == RInv /\ [Next]_vars => RInv'
<1> SUFFICES ASSUME RInv, [Next]_vars PROVE RInv'
  OBVIOUS
<1>1. SInv'
  BY SoundStep DEF RInv
<1>2. CASE \/ Refuse \/ Rewinds \/ WalkStep \/ Built \/ KeepStep \/ AllKept
           \/ PlaceStep \/ JournalStep \/ Fail \/ Collect \/ UNCHANGED vars
  BY <1>1, <1>2, DirectoryReuse
<1>3. CASE \E t \in Targets : Begin(t)
  BY <1>1, <1>3, BeginReuse
<1>4. CASE \E e \in Edge : Reuse(e) \/ Derive(e)
  BY <1>1, <1>4, ReuseReuse, DeriveReuse
<1>5. CASE RecordStep \/ Report \/ Exit \/ Kill
  BY <1>1, <1>5, RecordReuse, ReportReuse, ForgetReuse
<1>6. CASE (\E p \in Path : Write(p) \/ Delete(p)) \/ Retry
  BY <1>1, <1>6, HookReuse, RetryReuse
<1> QED
  BY <1>2, <1>3, <1>4, <1>5, <1>6 DEF Next, PassStep, Stopped

(* A derivation a pass reused and did not count was given what a new one   *)
(* would be: its makers' derivations, and the bytes its other inputs have; *)
(* whatever passes died, but for the edges one died over between           *)
(* inputs.v1 and emitted.v1.                                                *)
THEOREM ReusedAsDerived == Spec => []ReuseSound
<1>1. RInv => ReuseSound
  <2> SUFFICES ASSUME RInv, at = "ended", fallback = {},
                      NEW e \in reused \ (stale \cup torn), ~Split(e),
                      NEW p \in Declared[e]
               PROVE  used[e][2][p] = IF p \in Made THEN used[Maker(p)] ELSE Bytes(p)
    BY DEF ReuseSound, AsDerivedNow
  <2>1. CASE p \in Made
    <3>1. Maker(p) \in Makers(e)
      BY <2>1 DEF Makers
    <3>2. AsRecorded(e)
      BY DEF RInv
    <3>3. Maker(p) \in DOMAIN earlier.drv /\ earlier.drv[e][2][p] = earlier.drv[Maker(p)]
      BY <2>1 DEF Split
    <3> QED
      BY <2>1, <3>1, <3>2, <3>3 DEF AsRecorded, Carried
  <2>2. CASE p \notin Made
    BY <2>2 DEF RInv, Counted
  <2> QED
    BY <2>1, <2>2
<1> QED
  BY <1>1, InitReuse, ReuseStep, PTL DEF Spec
================================================================================
