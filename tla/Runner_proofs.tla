---------------------------- MODULE Runner_proofs ----------------------------
(***************************************************************************)
(* Proofs about Runner, for any builds, edges, paths and rewrites.         *)
(***************************************************************************)
EXTENDS Runner, FiniteSetTheorems, SequenceTheorems, TLAPS

-----------------------------------------------------------------------------
(* A derivation while it is assembled *)

IsDrv(d) ==
    d = [entries |-> d.entries, refs |-> d.refs, found |-> d.found, store |-> d.store,
         outs |-> d.outs, defer |-> d.defer, err |-> d.err]
Live_(d) == d.err = "" /\ d.defer = {}

OneContent(F)  == \A f, g \in F : f.path = g.path => f.obj = g.obj
Placings(e)    == {File(s.to, Upload(s.from)) : s \in world.staged[e]}
Raws           == {File(p, Raw(p)) : p \in world.disk}

(* What a discovery may list: what lies on disk, and what was banked.      *)
BankedPaths(e) == UNION {b.deps : b \in world.banked[e]}
Findable(e)    == world.disk \cup BankedPaths(e)

(* The headers that are staged for a command have places of their own.     *)
Apart(e, t) ==
    /\ OneContent(Placings(e))
    /\ \A s \in world.staged[e] : s.to \notin DOMAIN t.inputs /\ ~OnDisk(s.to)
Clear(e, t) == Apart(e, t) /\ BankedPaths(e) \subseteq world.disk
(* A task that must see the outer paths as they are has no such headers.   *)
Unmixed(e) == Says(e, "lto") => world.staged[e] = {}

Parted(t, d) == \A f, g \in Known(t, d) : f.path = g.path /\ IsBuilt(f.obj) => IsBuilt(g.obj)

(* What holds of the derivation of e when the stages T are done.           *)
Sofar(e, t, T, d) ==
    /\ d.found \subseteq UploadsOf(Findable(e))
    /\ 5 \notin T => d.entries = Known(t, d)
    /\ 4 \in T => Parted(t, d)
    /\ 5 \in T /\ 6 \notin T => d.entries \subseteq Known(t, d) /\ OneContent(d.entries)
    /\ 6 \in T /\ 7 \notin T => d.entries \subseteq Known(t, d) \cup Placings(e)
    /\ 7 \in T => d.entries \subseteq Known(t, d) \cup Placings(e) \cup Raws
    /\ 6 \in T /\ Clear(e, t) => OneContent(d.entries)
    /\ 6 \in T /\ Unmixed(e) => \A f \in d.entries \ Known(t, d) : f.obj \in d.refs
    /\ 9 \in T /\ Unmixed(e) => \A f \in d.entries : f.obj \in d.refs
Assembled(e, t, T, d) == IsDrv(d) /\ (Live_(d) => Sofar(e, t, T, d))

(* One stage and the next. *)
LEMMA Numbers ==
    /\ \A n \in 1..3 : 1..n \cap {4, 5, 6, 7, 9} = {}
    /\ 1..0 = {}
    /\ 1..4 \cap {4, 5, 6, 7, 9} = {4}
    /\ 1..5 \cap {4, 5, 6, 7, 9} = {4, 5}
    /\ 1..6 \cap {4, 5, 6, 7, 9} = {4, 5, 6}
    /\ \A n \in 7..8 : 1..n \cap {4, 5, 6, 7, 9} = {4, 5, 6, 7}
    /\ \A n \in 9..10 : 1..n \cap {4, 5, 6, 7, 9} = {4, 5, 6, 7, 9}
OBVIOUS

(* What EXCEPT makes of a derivation. *)
LEMMA DrvErr ==
    ASSUME NEW d, IsDrv(d), NEW why
    PROVE  Refused(d, why) = [entries |-> d.entries, refs |-> d.refs, found |-> d.found,
                              store |-> d.store, outs |-> d.outs, defer |-> d.defer, err |-> why]
BY DEF Refused, IsDrv

(* A refusal leaves nothing to say. *)
LEMMA RefusedIs ==
    ASSUME NEW d, NEW why, IsDrv(d), why # ""
    PROVE  IsDrv(Refused(d, why)) /\ ~Live_(Refused(d, why))
<1>1. PICK r : r = Refused(d, why)
  OBVIOUS
<1>2. r = [entries |-> d.entries, refs |-> d.refs, found |-> d.found,
           store |-> d.store, outs |-> d.outs, defer |-> d.defer, err |-> why]
  BY <1>1, DrvErr
<1>3. r.err = why
  BY <1>2
<1>4. IsDrv(r)
  BY <1>2 DEF IsDrv
<1> QED BY <1>1, <1>3, <1>4 DEF Live_

(* What is discovered lies on disk, or was banked.  An answer that is      *)
(* given again holds one of what was banked; any other is found.           *)
LEMMA AnswerIs ==
    ASSUME NEW e, NEW v, NEW trees, NEW inputs, NEW seeds, NEW index, NEW got,
           got = Discovered(e, v, trees, inputs, seeds, index)
    PROVE  \/ \E b \in world.banked[e] : got = Replayed(b)
           \/ \E files, forced : got = Found(e, v, trees, inputs, files, forced, index)
<1> DEFINE forced == Forced(e)
           files  == AddAll(seeds, forced)
           hits   == Banked(e, v, trees, files)
<1>1. got = IF hits # {} THEN Replayed(CHOOSE b \in hits : TRUE)
            ELSE Found(e, v, trees, inputs, files, forced, index)
  BY DEF Discovered
<1>2. hits \subseteq world.banked[e]
  BY DEF Banked
<1>3. CASE hits # {}
  <2>1. PICK b : b = CHOOSE x \in hits : TRUE
    OBVIOUS
  <2>2. b \in hits
    BY <1>3, <2>1
  <2> HIDE DEF hits
  <2> QED BY <1>1, <1>2, <1>3, <2>1, <2>2
<1>4. CASE hits = {}
  <2> HIDE DEF files, forced
  <2>1. got = Found(e, v, trees, inputs, files, forced, index)
    BY <1>1, <1>4
  <2> QED BY <2>1
<1> QED BY <1>3, <1>4

LEMMA FoundFindable ==
    ASSUME NEW e, NEW v, NEW trees, NEW inputs, NEW seeds, NEW index, NEW got,
           got = Discovered(e, v, trees, inputs, seeds, index), got.absent = {}
    PROVE  got.deps \subseteq UploadsOf(Findable(e))
<1>1. ASSUME NEW b \in world.banked[e], got = Replayed(b)
      PROVE  got.deps \subseteq UploadsOf(Findable(e))
  <2>1. got.deps = UploadsOf(b.deps)
    BY <1>1 DEF Replayed
  <2>2. b.deps \subseteq Findable(e)
    BY DEF Findable, BankedPaths
  <2> QED BY <2>1, <2>2 DEF UploadsOf
<1>2. ASSUME NEW files, NEW forced, got = Found(e, v, trees, inputs, files, forced, index)
      PROVE  got.deps \subseteq UploadsOf(Findable(e))
  <2> DEFINE found   == Includes(e, v, files)
             uploads == Among(found, LAMBDA p : Carries(v, files, forced, p))
             U       == Elems(uploads)
             H(x, y) == got = [deps |-> UploadsOf(U), store |-> x, defer |-> y, absent |-> U \ world.disk]
  <2>1. got.deps = UploadsOf(U) /\ got.absent = U \ world.disk
    <3>1. H({p \in Elems(found) : Is(p, "store")} \ Elems(files),
            IF index THEN Defers(e, v, trees, inputs, files, found) ELSE {})
      BY <1>2, Zenon DEF Found
    <3>2. PICK x, y : H(x, y)
      BY <3>1, Zenon
    <3> HIDE DEF U
    <3> QED BY <3>2
  <2> HIDE DEF U, H
  <2>2. U \subseteq Findable(e)
    BY <2>1 DEF Findable
  <2> QED BY <2>1, <2>2 DEF UploadsOf
<1> QED BY <1>1, <1>2, AnswerIs

LEMMA WithIs ==
    ASSUME NEW d, IsDrv(d), NEW F, NEW r, r = With(d, F)
    PROVE  /\ IsDrv(r)
           /\ r.entries = d.entries \cup F /\ r.refs = d.refs \cup Objects(F)
           /\ r.found = d.found /\ r.store = d.store /\ r.outs = d.outs
           /\ r.defer = d.defer /\ r.err = d.err
<1>1. r = [entries |-> d.entries \cup F, refs |-> d.refs \cup Objects(F), found |-> d.found,
           store |-> d.store, outs |-> d.outs, defer |-> d.defer, err |-> d.err]
  BY DEF With, IsDrv
<1> QED BY <1>1 DEF IsDrv

LEMMA WithoutIs ==
    ASSUME NEW d, IsDrv(d), NEW F, NEW r, r = Without(d, F)
    PROVE  /\ IsDrv(r)
           /\ r.entries = d.entries \ F /\ r.refs = d.refs \ Objects(F)
           /\ r.found = d.found /\ r.store = d.store /\ r.outs = d.outs
           /\ r.defer = d.defer /\ r.err = d.err
<1>1. r = [entries |-> d.entries \ F, refs |-> d.refs \ Objects(F), found |-> d.found,
           store |-> d.store, outs |-> d.outs, defer |-> d.defer, err |-> d.err]
  BY DEF Without, IsDrv
<1> QED BY <1>1 DEF IsDrv

LEMMA ReplacedIs ==
    ASSUME NEW d, IsDrv(d), NEW F, NEW G, NEW r, r = Replaced(d, F, G)
    PROVE  /\ IsDrv(r)
           /\ r.entries = (d.entries \ F) \cup G
           /\ r.refs = (d.refs \ Objects(F)) \cup Objects(G)
           /\ r.found = d.found /\ r.store = d.store /\ r.outs = d.outs
           /\ r.defer = d.defer /\ r.err = d.err
<1>1. PICK q : q = Without(d, F)
  OBVIOUS
<1>2. r = With(q, G)
  BY <1>1 DEF Replaced
<1>3. /\ IsDrv(q)
      /\ q.entries = d.entries \ F /\ q.refs = d.refs \ Objects(F)
      /\ q.found = d.found /\ q.store = d.store /\ q.outs = d.outs
      /\ q.defer = d.defer /\ q.err = d.err
  BY <1>1, WithoutIs
<1>4. /\ IsDrv(r)
      /\ r.entries = q.entries \cup G /\ r.refs = q.refs \cup Objects(G)
      /\ r.found = q.found /\ r.store = q.store /\ r.outs = q.outs
      /\ r.defer = q.defer /\ r.err = q.err
  BY <1>2, <1>3, WithIs
<1> QED BY <1>3, <1>4

LEMMA AddsIs ==
    ASSUME NEW d, IsDrv(d), NEW F, NEW r, r = Adds(d, F)
    PROVE  /\ IsDrv(r)
           /\ r.entries = d.entries \cup F
           /\ r.found = d.found \cup (F \ d.entries)
           /\ r.defer = d.defer /\ r.err = d.err
<1> DEFINE G == F \ d.entries
<1>1. PICK q : q = With(d, G)
  OBVIOUS
<1>2. r = [q EXCEPT !.found = @ \cup G]
  BY <1>1 DEF Adds
<1>3. /\ IsDrv(q) /\ q.entries = d.entries \cup G
      /\ q.found = d.found /\ q.defer = d.defer /\ q.err = d.err
  BY <1>1, WithIs
<1>4. r = [entries |-> q.entries, refs |-> q.refs, found |-> q.found \cup G,
           store |-> q.store, outs |-> q.outs, defer |-> q.defer, err |-> q.err]
  BY <1>2, <1>3 DEF IsDrv
<1>5. IsDrv(r) /\ r.entries = q.entries /\ r.found = q.found \cup G
      /\ r.defer = q.defer /\ r.err = q.err
  BY <1>4 DEF IsDrv
<1> QED BY <1>3, <1>5

LEMMA StoreIs ==
    ASSUME NEW d, IsDrv(d), NEW S, NEW r, r = [d EXCEPT !.store = @ \cup S]
    PROVE  /\ IsDrv(r)
           /\ r.entries = d.entries /\ r.refs = d.refs /\ r.found = d.found /\ r.outs = d.outs
           /\ r.defer = d.defer /\ r.err = d.err
<1>1. r = [entries |-> d.entries, refs |-> d.refs, found |-> d.found, store |-> d.store \cup S,
           outs |-> d.outs, defer |-> d.defer, err |-> d.err]
  BY DEF IsDrv
<1> QED BY <1>1 DEF IsDrv

LEMMA DeferIs ==
    ASSUME NEW d, IsDrv(d), NEW S, S # {}, NEW r, r = [d EXCEPT !.defer = S]
    PROVE  IsDrv(r) /\ ~Live_(r)
<1>1. r = [entries |-> d.entries, refs |-> d.refs, found |-> d.found, store |-> d.store,
           outs |-> d.outs, defer |-> S, err |-> d.err]
  BY DEF IsDrv
<1> QED BY <1>1 DEF IsDrv, Live_

(* A discovery adds to what is found, and to the entries the same.         *)
LEMMA FoundKept ==
    ASSUME NEW e, NEW t, NEW k \in 1..3, NEW d, IsDrv(d), Live_(d), Sofar(e, t, 1..(k - 1), d),
           NEW got, NEW other, got.absent = {} => got.deps \subseteq UploadsOf(Findable(e)),
           Assembled(e, t, 1..k, other), NEW r, r = WithFound(d, got, other)
    PROVE  Assembled(e, t, 1..k, r)
<1>1. 1..k \cap {4, 5, 6, 7, 9} = {} /\ 1..(k - 1) \cap {4, 5, 6, 7, 9} = {}
  BY Numbers
<1>2. CASE got.absent # {}
  BY <1>2 DEF WithFound
<1>3. CASE got.absent = {} /\ got.defer # {}
  <2>1. PICK q : q = [d EXCEPT !.store = @ \cup got.store]
    OBVIOUS
  <2>2. r = [d EXCEPT !.store = @ \cup got.store, !.defer = got.defer]
    BY <1>3 DEF WithFound
  <2>3. r = [q EXCEPT !.defer = got.defer]
    BY <2>1, <2>2
  <2>4. IsDrv(q)
    BY <2>1, StoreIs
  <2> QED BY <1>3, <2>3, <2>4, DeferIs DEF Assembled
<1>4. CASE got.absent = {} /\ got.defer = {}
  <2>1. PICK q : q = [d EXCEPT !.store = @ \cup got.store]
    OBVIOUS
  <2>2. r = Adds(q, got.deps)
    BY <1>4, <2>1 DEF WithFound
  <2>3. IsDrv(q) /\ q.entries = d.entries /\ q.found = d.found
    BY <2>1, StoreIs
  <2>4. IsDrv(r) /\ r.entries = d.entries \cup got.deps
        /\ r.found = d.found \cup (got.deps \ d.entries)
    BY <2>2, <2>3, AddsIs
  <2>5. d.entries = Inputs(t) \cup d.found /\ d.found \subseteq UploadsOf(Findable(e))
    BY <1>1 DEF Sofar, Known
  <2>6. Sofar(e, t, 1..k, r)
    <3>1. r.found \subseteq UploadsOf(Findable(e))
      BY <1>4, <2>4, <2>5
    <3>2. r.entries = Known(t, r)
      BY <2>4, <2>5 DEF Known
    <3> QED BY <1>1, <3>1, <3>2 DEF Sofar
  <2> QED BY <2>4, <2>6 DEF Assembled
<1> QED BY <1>2, <1>3, <1>4

LEMMA FileIs ==
    ASSUME NEW p, NEW o
    PROVE  File(p, o).path = p /\ File(p, o).obj = o
BY DEF File

LEMMA UploadIs ==
    ASSUME NEW p
    PROVE  ~IsBuilt(Upload(p))
<1>1. \A a, b, c, x : [by |-> a, what |-> b, rev |-> c, raw |-> x].by = a
  BY Zenon
<1>2. Upload(p).by = Disk
  BY <1>1, Zenon DEF Upload
<1> QED BY <1>2 DEF IsBuilt

(* What is on disk has a known path, and no edge wrote it.                 *)
LEMMA UploadsOfIs ==
    ASSUME NEW P, NEW f \in UploadsOf(P)
    PROVE  f.path \in P /\ f.obj = Upload(f.path) /\ ~IsBuilt(f.obj) /\ f = File(f.path, f.obj)
<1>1. PICK p \in P : f = File(p, Upload(p))
  BY DEF UploadsOf
<1>2. f.path = p /\ f.obj = Upload(p)
  BY <1>1, FileIs
<1> QED BY <1>1, <1>2, UploadIs

LEMMA InputsIs ==
    ASSUME NEW t, NEW f \in Inputs(t)
    PROVE  f.path \in DOMAIN t.inputs /\ f.obj = t.inputs[f.path] /\ f = File(f.path, f.obj)
<1>1. PICK p \in DOMAIN t.inputs : f = File(p, t.inputs[p])
  BY DEF Inputs
<1>2. f.path = p /\ f.obj = t.inputs[p]
  BY <1>1, FileIs
<1> QED BY <1>1, <1>2

LEMMA ShadowedStage ==
    ASSUME NEW e, NEW t, NEW d, IsDrv(d), Sofar(e, t, 1..3, d), NEW r, r = Unshadowed(t, d)
    PROVE  IsDrv(r) /\ Sofar(e, t, 1..4, r)
<1> DEFINE writ  == {f.path : f \in {g \in Known(t, d) : IsBuilt(g.obj)}}
           up    == {f \in Uploads(t, d) : f.path \in writ}
<1>1. /\ d.entries = Known(t, d) /\ Known(t, d) = Inputs(t) \cup d.found
      /\ d.found \subseteq UploadsOf(Findable(e))
  BY Numbers DEF Sofar, Known
<1>2. PICK q : q = Without(d, up)
  OBVIOUS
<1>3. r = [q EXCEPT !.found = @ \ up]
  BY <1>2 DEF Unshadowed
<1>4. IsDrv(q) /\ q.entries = d.entries \ up /\ q.found = d.found
  BY <1>2, WithoutIs
<1>5. IsDrv(r) /\ r.entries = d.entries \ up /\ r.found = d.found \ up
  <2>1. r = [entries |-> q.entries, refs |-> q.refs, found |-> q.found \ up, store |-> q.store,
             outs |-> q.outs, defer |-> q.defer, err |-> q.err]
    BY <1>3, <1>4 DEF IsDrv
  <2>2. IsDrv(r) /\ r.entries = q.entries /\ r.found = q.found \ up
    BY <2>1 DEF IsDrv
  <2> QED BY <1>4, <2>2
<1>6. \A f, g \in Known(t, d) : f.path = g.path /\ IsBuilt(f.obj) => f \in Inputs(t)
  BY <1>1, UploadsOfIs
<1>7. Inputs(t) \cap up = {}
  <2> SUFFICES ASSUME NEW f \in Inputs(t), f \in up PROVE FALSE
    OBVIOUS
  <2>1. PICK g \in Known(t, d) : IsBuilt(g.obj) /\ g.path = f.path
    OBVIOUS
  <2>2. g \in Inputs(t)
    BY <1>6, <2>1
  <2>3. f.obj = g.obj
    BY <2>1, <2>2, InputsIs
  <2> QED BY <2>1, <2>3 DEF Uploads
<1>8. r.entries = Known(t, r)
  BY <1>1, <1>5, <1>7 DEF Known
<1>9. Parted(t, r)
  <2> SUFFICES ASSUME NEW f \in Known(t, r), NEW g \in Known(t, r),
                      f.path = g.path, IsBuilt(f.obj), ~IsBuilt(g.obj)
               PROVE  FALSE
    BY DEF Parted
  <2>1. f \in Known(t, d) /\ g \in Known(t, d) /\ g \notin up
    BY <1>1, <1>5, <1>8
  <2> QED BY <2>1 DEF Uploads
<1> HIDE DEF up, writ
<1>10. r.found \subseteq UploadsOf(Findable(e))
  BY <1>1, <1>5
<1> QED BY <1>5, <1>8, <1>9, <1>10, Numbers DEF Sofar

LEMMA CollidedStage ==
    ASSUME NEW e, NEW t, NEW d, IsDrv(d), Sofar(e, t, 1..4, d), NEW r, r = Uncollided(t, d)
    PROVE  IsDrv(r) /\ Sofar(e, t, 1..5, r)
<1> DEFINE C  == Collided(t, d)
           Up == {File(f.path, Upload(f.path)) : f \in C}
<1>1. /\ d.entries = Known(t, d) /\ Known(t, d) = Inputs(t) \cup d.found
      /\ d.found \subseteq UploadsOf(Findable(e)) /\ Parted(t, d)
  BY Numbers DEF Sofar, Known
<1>2. /\ IsDrv(r) /\ r.entries = (d.entries \ C) \cup Up /\ r.found = d.found
  BY ReplacedIs DEF Uncollided
<1>3. Known(t, r) = Known(t, d)
  BY <1>2 DEF Known
<1>4. Up \subseteq d.found
  <2> SUFFICES ASSUME NEW f \in C PROVE File(f.path, Upload(f.path)) \in d.found
    OBVIOUS
  <2>1. f \in Known(t, d)
    BY DEF Collided, Uploads
  <2>2. PICK g \in Known(t, d) : g.path = f.path /\ g.obj # f.obj
    BY DEF Collided, Uploads
  <2>3. f \in d.found \/ g \in d.found
    <3>1. ~(f \in Inputs(t) /\ g \in Inputs(t))
      BY <2>2, InputsIs
    <3> QED BY <1>1, <2>1, <3>1
  <2>4. \A h \in d.found : h = File(h.path, Upload(h.path))
    BY <1>1, UploadsOfIs
  <2> QED BY <2>2, <2>3, <2>4
<1>5. \A g \in Up : g.obj = Upload(g.path) /\ \E f \in C : f.path = g.path
  BY FileIs
<1>6. OneContent(r.entries)
  <2>1. \A f, g \in Known(t, d) \ C : f.path = g.path => f.obj = g.obj
    <3> SUFFICES ASSUME NEW f \in Known(t, d) \ C, NEW g \in Known(t, d) \ C,
                        f.path = g.path, f.obj # g.obj
                 PROVE  FALSE
      OBVIOUS
    <3>1. CASE IsBuilt(f.obj)
      <4>1. IsBuilt(g.obj)
        BY <1>1, <3>1 DEF Parted
      <4>2. f \in Inputs(t) /\ g \in Inputs(t)
        BY <1>1, <3>1, <4>1, UploadsOfIs
      <4> QED BY <4>2, InputsIs
    <3>2. CASE ~IsBuilt(f.obj)
      <4>1. ~IsBuilt(g.obj)
        BY <1>1, <3>2 DEF Parted
      <4> QED BY <3>2, <4>1 DEF Collided, Uploads
    <3> QED BY <3>1, <3>2
  <2>2. \A f \in Known(t, d) \ C, g \in Up : f.path # g.path
    <3> SUFFICES ASSUME NEW f \in Known(t, d) \ C, NEW c \in C, f.path = c.path
                 PROVE  FALSE
      BY <1>5
    <3>1. c \in Known(t, d) /\ ~IsBuilt(c.obj)
      BY DEF Collided, Uploads
    <3>2. PICK b \in Uploads(t, d) : b.path = c.path /\ b.obj # c.obj
      BY DEF Collided
    <3>3. ~IsBuilt(f.obj)
      BY <1>1, <3>1 DEF Parted
    <3>4. f \in Uploads(t, d) /\ c \in Uploads(t, d)
      BY <3>1, <3>3 DEF Uploads
    <3>5. f.obj # b.obj \/ f.obj # c.obj
      BY <3>2
    <3> QED BY <3>2, <3>4, <3>5 DEF Collided
  <2>3. \A f, g \in Up : f.path = g.path => f.obj = g.obj
    BY <1>5
  <2> HIDE DEF C, Up
  <2> QED BY <1>1, <1>2, <2>1, <2>2, <2>3 DEF OneContent
<1> HIDE DEF C, Up
<1>7. Parted(t, r)
  BY <1>1, <1>3 DEF Parted
<1>8. r.entries \subseteq Known(t, r)
  BY <1>1, <1>2, <1>3, <1>4
<1>9. r.found \subseteq UploadsOf(Findable(e))
  BY <1>1, <1>2
<1>10. 1..5 \cap {4, 5, 6, 7, 9} = {4, 5}
  BY Numbers
<1> QED BY <1>2, <1>6, <1>7, <1>8, <1>9, <1>10 DEF Sofar

LEMMA StagedStage ==
    ASSUME NEW e, NEW t, NEW d, IsDrv(d), Sofar(e, t, 1..5, d), NEW r, r = Staged(e, d)
    PROVE  IsDrv(r) /\ Sofar(e, t, 1..6, r)
<1>1. 1..5 \cap {4, 5, 6, 7, 9} = {4, 5} /\ 1..6 \cap {4, 5, 6, 7, 9} = {4, 5, 6}
  BY Numbers
<1>2. /\ d.found \subseteq UploadsOf(Findable(e)) /\ Parted(t, d)
      /\ d.entries \subseteq Known(t, d) /\ OneContent(d.entries)
  BY <1>1 DEF Sofar
<1>3. /\ IsDrv(r) /\ r.entries = d.entries \cup Placings(e)
      /\ r.refs = d.refs \cup Objects(Placings(e)) /\ r.found = d.found
  <2>1. r = With(d, Placings(e))
    BY DEF Staged, Placings
  <2> QED BY <2>1, WithIs
<1>4. Known(t, r) = Known(t, d)
  BY <1>3 DEF Known
<1>5. Parted(t, r)
  BY <1>2, <1>4 DEF Parted
<1>6. ASSUME Clear(e, t) PROVE OneContent(r.entries)
  <2>1. \A f \in Known(t, d) : f.path \in DOMAIN t.inputs \/ OnDisk(f.path)
    BY <1>2, <1>6, InputsIs, UploadsOfIs DEF Known, OnDisk, Clear, Findable
  <2>2. \A g \in Placings(e) : g.path \notin DOMAIN t.inputs /\ ~OnDisk(g.path)
    BY <1>6, FileIs DEF Apart, Clear, Placings
  <2>3. OneContent(Placings(e))
    BY <1>6 DEF Apart, Clear
  <2> QED BY <1>2, <1>3, <2>1, <2>2, <2>3 DEF OneContent
<1>7. \A f \in r.entries \ Known(t, r) : f.obj \in r.refs
  BY <1>2, <1>3, <1>4 DEF Objects
<1> QED BY <1>1, <1>2, <1>3, <1>4, <1>5, <1>6, <1>7 DEF Sofar

LEMMA RawStage ==
    ASSUME NEW e, NEW t, NEW d, IsDrv(d), Sofar(e, t, 1..6, d), NEW r, r = Unrewritten(e, t, d)
    PROVE  IsDrv(r) /\ Sofar(e, t, 1..7, r)
<1> DEFINE old == {f \in Uploads(t, d) : f.path \in world.outer /\ OnDisk(f.path)}
           R   == {File(f.path, Raw(f.path)) : f \in old}
<1>1. /\ 1..6 \cap {4, 5, 6, 7, 9} = {4, 5, 6}
      /\ 1..7 \cap {4, 5, 6, 7, 9} = {4, 5, 6, 7}
  BY Numbers
<1>2. /\ d.found \subseteq UploadsOf(Findable(e)) /\ Parted(t, d)
      /\ d.entries \subseteq Known(t, d) \cup Placings(e)
      /\ Clear(e, t) => OneContent(d.entries)
      /\ Unmixed(e) => \A f \in d.entries \ Known(t, d) : f.obj \in d.refs
  BY <1>1 DEF Sofar
<1>3. CASE ~Says(e, "lto")
  <2>1. r = d
    BY <1>3 DEF Unrewritten
  <2> QED BY <1>1, <1>2, <2>1 DEF Sofar
<1>4. CASE Says(e, "lto")
  <2>1. /\ IsDrv(r) /\ r.entries = (d.entries \ old) \cup R
        /\ r.refs = (d.refs \ Objects(old)) \cup Objects(R) /\ r.found = d.found
    <3>1. r = Replaced(d, old, R)
      BY <1>4 DEF Unrewritten
    <3> HIDE DEF old, R
    <3> QED BY <3>1, ReplacedIs
  <2>2. Known(t, r) = Known(t, d)
    BY <2>1 DEF Known
  <2>3. Parted(t, r)
    BY <1>2, <2>2 DEF Parted
  <2>4. R \subseteq Raws
    BY DEF Raws, OnDisk
  <2>5. \A g \in R : g.obj = Raw(g.path) /\ \E h \in old : h.path = g.path
    BY FileIs
  <2>6. ASSUME Clear(e, t) PROVE OneContent(r.entries)
    <3>1. \A f \in d.entries \ old, g \in R : f.path # g.path
      <4> SUFFICES ASSUME NEW f \in d.entries \ old, NEW h \in old, f.path = h.path
                   PROVE  FALSE
        BY <2>5
      <4>1. h \in Known(t, d) /\ ~IsBuilt(h.obj) /\ OnDisk(f.path) /\ f.path \in world.outer
        BY DEF Uploads
      <4>2. f \notin Placings(e)
        BY <2>6, <4>1, FileIs DEF Apart, Clear, Placings
      <4>3. f \in Known(t, d) /\ ~IsBuilt(f.obj)
        BY <1>2, <4>1, <4>2 DEF Parted
      <4> QED BY <4>1, <4>3 DEF Uploads
    <3>2. OneContent(d.entries)
      BY <1>2, <2>6
    <3>3. \A f, g \in R : f.path = g.path => f.obj = g.obj
      BY <2>5
    <3> HIDE DEF old, R
    <3> QED BY <2>1, <3>1, <3>2, <3>3 DEF OneContent
  <2> HIDE DEF old, R
  <2>7. ASSUME Unmixed(e), NEW f \in r.entries \ Known(t, r) PROVE f.obj \in r.refs
    <3>1. Placings(e) = {}
      BY <1>4, <2>7 DEF Unmixed, Placings
    <3>2. f \in R
      BY <1>2, <2>1, <2>2, <2>7, <3>1
    <3> QED BY <2>1, <3>2 DEF Objects
  <2>8. r.entries \subseteq Known(t, r) \cup Placings(e) \cup Raws
    BY <1>2, <2>1, <2>2, <2>4
  <2> QED BY <1>1, <1>2, <2>1, <2>3, <2>6, <2>7, <2>8 DEF Sofar
<1> QED BY <1>3, <1>4

LEMMA ReferStage ==
    ASSUME NEW e, NEW t, NEW d, IsDrv(d), Sofar(e, t, 1..8, d), NEW r, r = Rereferenced(t, d)
    PROVE  IsDrv(r) /\ Sofar(e, t, 1..9, r)
<1>1. /\ 1..8 \cap {4, 5, 6, 7, 9} = {4, 5, 6, 7}
      /\ 1..9 \cap {4, 5, 6, 7, 9} = {4, 5, 6, 7, 9}
  BY Numbers
<1>2. r = [entries |-> d.entries, refs |-> d.refs \cup Objects(Known(t, d) \cap d.entries),
           found |-> d.found, store |-> d.store, outs |-> d.outs, defer |-> d.defer, err |-> d.err]
  BY DEF Rereferenced, IsDrv
<1>3. /\ IsDrv(r) /\ r.entries = d.entries /\ r.found = d.found
      /\ r.refs = d.refs \cup Objects(Known(t, d) \cap d.entries)
  BY <1>2 DEF IsDrv
<1>4. Known(t, r) = Known(t, d)
  BY <1>3 DEF Known
<1>5. Parted(t, r)
  BY <1>1, <1>4 DEF Parted, Sofar
<1>6. ASSUME Unmixed(e), NEW f \in r.entries PROVE f.obj \in r.refs
  <2>1. CASE f \in Known(t, d)
    BY <1>3, <1>6, <2>1 DEF Objects
  <2>2. CASE f \notin Known(t, d)
    BY <1>1, <1>3, <1>6, <2>2 DEF Sofar
  <2> QED BY <2>1, <2>2
<1> QED BY <1>1, <1>3, <1>4, <1>5, <1>6 DEF Sofar

LEMMA OutputsStage ==
    ASSUME NEW e, NEW t, NEW d, IsDrv(d), Sofar(e, t, 1..9, d), NEW r, r = WithOutputs(e, t, d)
    PROVE  /\ Assembled(e, t, 1..10, r)
           /\ Live_(r) => r.outs = Writes(e, t) \cup world.depfile[e]
<1> DEFINE P == Writes(e, t) \cup world.depfile[e]
<1>1. CASE \E p \in P, q \in P : p # q /\ StoreName(p) = StoreName(q)
  <2>1. r = Refused(d, "output name")
    BY <1>1 DEF WithOutputs, Declares
  <2> QED BY <2>1, RefusedIs DEF Assembled
<1>2. CASE ~\E p \in P, q \in P : p # q /\ StoreName(p) = StoreName(q)
  <2>1. r = [d EXCEPT !.outs = P]
    BY <1>2 DEF WithOutputs, Declares
  <2> HIDE DEF P
  <2>2. r = [entries |-> d.entries, refs |-> d.refs, found |-> d.found, store |-> d.store,
             outs |-> P, defer |-> d.defer, err |-> d.err]
    BY <2>1 DEF IsDrv
  <2>3. /\ IsDrv(r) /\ r.entries = d.entries /\ r.found = d.found /\ r.refs = d.refs
        /\ r.outs = P
    BY <2>2 DEF IsDrv
  <2>4. Known(t, r) = Known(t, d)
    BY <2>3 DEF Known
  <2>5. Parted(t, r)
    BY <2>4, Numbers DEF Parted, Sofar
  <2>6. /\ 1..9 \cap {4, 5, 6, 7, 9} = {4, 5, 6, 7, 9}
        /\ 1..10 \cap {4, 5, 6, 7, 9} = {4, 5, 6, 7, 9}
    BY Numbers
  <2>7. Assembled(e, t, 1..10, r)
    BY <2>3, <2>4, <2>5, <2>6 DEF Sofar, Assembled
  <2> QED BY <2>3, <2>7 DEF P
<1> QED BY <1>1, <1>2

(* A stage that neither adds nor drops anything.                           *)
LEMMA EarlyKept ==
    ASSUME NEW e, NEW t, NEW k \in 1..3, NEW d, IsDrv(d), Sofar(e, t, 1..(k - 1), d)
    PROVE  Sofar(e, t, 1..k, d)
<1>1. 1..k \cap {4, 5, 6, 7, 9} = {} /\ 1..(k - 1) \cap {4, 5, 6, 7, 9} = {}
  BY Numbers
<1> QED BY <1>1 DEF Sofar

LEMMA MocStage ==
    ASSUME NEW e, NEW t, NEW d, IsDrv(d), Live_(d), Sofar(e, t, 1..1, d), NEW r,
           r = MocWalked(e, t, d)
    PROVE  Assembled(e, t, 1..2, r)
<1>1. Assembled(e, t, 1..2, d)
  <2>1. Sofar(e, t, 1..2, d)
    BY EarlyKept
  <2> QED BY <2>1 DEF Assembled
<1>2. r = d \/ \E v, seeds : r = WithFound(d, Discovered(e, v, {}, t.inputs, seeds, FALSE), d)
  <2> DEFINE H(v, seeds) == r = WithFound(d, Discovered(e, v, {}, t.inputs, seeds, FALSE), d)
  <2>1. r = d \/ \E v, seeds : H(v, seeds)
    BY Zenon DEF MocWalked
  <2> QED BY <2>1
<1>3. CASE r = d
  BY <1>1, <1>3
<1>4. ASSUME NEW v, NEW seeds, r = WithFound(d, Discovered(e, v, {}, t.inputs, seeds, FALSE), d)
      PROVE  Assembled(e, t, 1..2, r)
  <2>1. PICK got : got = Discovered(e, v, {}, t.inputs, seeds, FALSE)
    OBVIOUS
  <2>2. got.absent = {} => got.deps \subseteq UploadsOf(Findable(e))
    BY <2>1, FoundFindable
  <2>3. r = WithFound(d, got, d)
    BY <1>4, <2>1
  <2>4. Sofar(e, t, 1..(2 - 1), d)
    OBVIOUS
  <2> QED BY <1>1, <2>2, <2>3, <2>4, FoundKept
<1> QED BY <1>2, <1>3, <1>4

LEMMA DiscoverStage ==
    ASSUME NEW e, NEW t, NEW indexed, NEW d, IsDrv(d), Live_(d), Sofar(e, t, 1..2, d), NEW r,
           r = DiscoveredIn(e, t, indexed, d)
    PROVE  Assembled(e, t, 1..3, r)
<1> DEFINE got == Discovered(e, StaticView(e, t), Modules(t.inputs), t.inputs, Seeds(t),
                             indexed /\ Says(e, "gcc") /\ world.local)
<1>1. CASE ~Wanted(e)
  <2>1. r = d
    BY <1>1 DEF DiscoveredIn
  <2>2. Sofar(e, t, 1..3, d)
    BY EarlyKept
  <2> QED BY <2>1, <2>2 DEF Assembled
<1>2. CASE Wanted(e)
  <2>1. r = WithFound(d, got, Refused(d, "upload"))
    BY <1>2, Zenon DEF DiscoveredIn
  <2>2. PICK g : g = got
    OBVIOUS
  <2>3. g.absent = {} => g.deps \subseteq UploadsOf(Findable(e))
    BY <2>2, FoundFindable
  <2>4. Assembled(e, t, 1..3, Refused(d, "upload"))
    BY RefusedIs DEF Assembled
  <2>5. r = WithFound(d, g, Refused(d, "upload"))
    BY <2>1, <2>2, Zenon
  <2>6. Sofar(e, t, 1..(3 - 1), d)
    OBVIOUS
  <2> HIDE DEF got
  <2> QED BY <2>3, <2>4, <2>5, <2>6, FoundKept
<1> QED BY <1>1, <1>2

(* The stages together. *)
BuildStep(c, d, stage) == Then(d, LAMBDA x : BuildStage(c.e, c.t, c.indexed, x, stage))
BuildOk(c, T, d)       ==
    /\ Assembled(c.e, c.t, T, d)
    /\ 10 \in T /\ Live_(d) => d.outs = Writes(c.e, c.t) \cup world.depfile[c.e]
Building == INSTANCE Folding WITH Op <- BuildStep, Ok <- BuildOk

LEMMA StageNames ==
    /\ DOMAIN BuildStages = 1..10
    /\ BuildStages[1] = "tool" /\ BuildStages[2] = "moc" /\ BuildStages[3] = "discover"
    /\ BuildStages[4] = "shadowed" /\ BuildStages[5] = "collisions" /\ BuildStages[6] = "staged"
    /\ BuildStages[7] = "raw" /\ BuildStages[8] = "climb" /\ BuildStages[9] = "refer"
    /\ BuildStages[10] = "outputs"
BY DEF BuildStages

LEMMA StageKept ==
    ASSUME NEW e, NEW t, NEW indexed, NEW k \in 1..10, NEW d, IsDrv(d), Live_(d),
           Sofar(e, t, 1..(k - 1), d), NEW r, r = BuildStage(e, t, indexed, d, BuildStages[k])
    PROVE  Assembled(e, t, 1..k, r)
<1>1. CASE k = 1
  <2>1. r = Tooled(e, d)
    BY <1>1, StageNames DEF BuildStage
  <2>2. Sofar(e, t, 1..1, d)
    BY <1>1, EarlyKept
  <2>3. r = d \/ r = Refused(d, "tool")
    BY <2>1 DEF Tooled
  <2> QED BY <1>1, <2>2, <2>3, RefusedIs DEF Assembled
<1>2. CASE k = 2
  <2>1. r = MocWalked(e, t, d)
    BY <1>2, StageNames DEF BuildStage
  <2> QED BY <1>2, <2>1, MocStage
<1>3. CASE k = 3
  <2>1. r = DiscoveredIn(e, t, indexed, d)
    BY <1>3, StageNames DEF BuildStage
  <2> QED BY <1>3, <2>1, DiscoverStage
<1>4. CASE k = 4
  <2>1. r = Unshadowed(t, d)
    BY <1>4, StageNames DEF BuildStage
  <2> QED BY <1>4, <2>1, ShadowedStage DEF Assembled
<1>5. CASE k = 5
  <2>1. r = Uncollided(t, d)
    BY <1>5, StageNames DEF BuildStage
  <2> QED BY <1>5, <2>1, CollidedStage DEF Assembled
<1>6. CASE k = 6
  <2>1. r = Staged(e, d)
    BY <1>6, StageNames DEF BuildStage
  <2> QED BY <1>6, <2>1, StagedStage DEF Assembled
<1>7. CASE k = 7
  <2>1. r = Unrewritten(e, t, d)
    BY <1>7, StageNames DEF BuildStage
  <2> QED BY <1>7, <2>1, RawStage DEF Assembled
<1>8. CASE k = 8
  <2>1. r = Climbed(e, d)
    BY <1>8, StageNames DEF BuildStage
  <2>2. Sofar(e, t, 1..8, d)
    BY <1>8, Numbers DEF Sofar
  <2>3. r = d \/ r = Refused(d, "climb")
    BY <2>1 DEF Climbed
  <2> QED BY <1>8, <2>2, <2>3, RefusedIs DEF Assembled
<1>9. CASE k = 9
  <2>1. r = Rereferenced(t, d)
    BY <1>9, StageNames DEF BuildStage
  <2> QED BY <1>9, <2>1, ReferStage DEF Assembled
<1>10. CASE k = 10
  <2>1. r = WithOutputs(e, t, d)
    BY <1>10, StageNames DEF BuildStage
  <2> QED BY <1>10, <2>1, OutputsStage
<1> QED BY <1>1, <1>2, <1>3, <1>4, <1>5, <1>6, <1>7, <1>8, <1>9, <1>10

LEMMA LastStageKept ==
    ASSUME NEW e, NEW t, NEW indexed, NEW d, IsDrv(d), Sofar(e, t, 1..9, d),
           NEW r, r = BuildStage(e, t, indexed, d, BuildStages[10]), Live_(r)
    PROVE  r.outs = Writes(e, t) \cup world.depfile[e]
<1>1. r = WithOutputs(e, t, d)
  BY StageNames DEF BuildStage
<1> QED BY <1>1, OutputsStage

LEMMA BuildTaskKeeps ==
    ASSUME NEW e, NEW t, NEW indexed
    PROVE  /\ Assembled(e, t, 1..10, BuildTask(e, t, indexed))
           /\ Live_(BuildTask(e, t, indexed))
                => BuildTask(e, t, indexed).outs = Writes(e, t) \cup world.depfile[e]
<1>1. PICK c : c = [e |-> e, t |-> t, indexed |-> indexed]
  OBVIOUS
<1>2. c.e = e /\ c.t = t /\ c.indexed = indexed
  BY <1>1, Zenon
<1>3. PICK base : base = Declared(c.t, c.indexed)
  OBVIOUS
<1>4. Building!OverSeq(c, base, BuildStages) = BuildTask(c.e, c.t, c.indexed)
  BY <1>3 DEF BuildTask, BuildStep, Building!OverSeq, FoldLeft, MapThenFoldSet,
              Building!MapThenFoldSet, Max, Building!Greatest
<1>5. BuildOk(c, {}, base)
  <2>1. PICK x, y : base = [entries |-> Inputs(c.t), refs |-> Objects(Inputs(c.t)), found |-> {},
                            store |-> c.t.store, outs |-> {}, defer |-> x, err |-> y]
    <3> DEFINE H(x, y) == base = [entries |-> Inputs(c.t), refs |-> Objects(Inputs(c.t)),
                                  found |-> {}, store |-> c.t.store, outs |-> {}, defer |-> x,
                                  err |-> y]
    <3>1. H(IF c.indexed THEN c.t.defer ELSE {}, "")
      BY <1>3, Zenon DEF Declared
    <3> QED BY <3>1, Zenon
  <2>2. IsDrv(base) /\ base.entries = Inputs(c.t) /\ base.found = {}
    BY <2>1 DEF IsDrv
  <2>3. Sofar(c.e, c.t, {}, base)
    BY <2>2 DEF Sofar, Known
  <2> QED BY <2>2, <2>3 DEF BuildOk, Assembled
<1>6. ASSUME NEW k \in 1..10, NEW d, BuildOk(c, 1..(k - 1), d)
      PROVE  BuildOk(c, 1..k, BuildStep(c, d, BuildStages[k]))
  <2>1. IsDrv(d) /\ (Live_(d) => Sofar(c.e, c.t, 1..(k - 1), d))
    BY <1>6 DEF BuildOk, Assembled
  <2>2. PICK r : r = BuildStep(c, d, BuildStages[k])
    OBVIOUS
  <2>3. CASE Live_(d)
    <3>1. r = BuildStage(c.e, c.t, c.indexed, d, BuildStages[k])
      BY <2>2, <2>3, Zenon DEF BuildStep, Then, Live_
    <3>2. /\ Assembled(c.e, c.t, 1..k, r)
          /\ k = 10 /\ Live_(r) => r.outs = Writes(c.e, c.t) \cup world.depfile[c.e]
      <4>1. Assembled(c.e, c.t, 1..k, r)
        BY <2>1, <2>3, <3>1, StageKept
      <4>2. ASSUME k = 10, Live_(r)
            PROVE  r.outs = Writes(c.e, c.t) \cup world.depfile[c.e]
        <5>1. Sofar(c.e, c.t, 1..9, d) /\ r = BuildStage(c.e, c.t, c.indexed, d, BuildStages[10])
          BY <2>1, <2>3, <3>1, <4>2
        <5> QED BY <2>1, <4>2, <5>1, LastStageKept
      <4> QED BY <4>1, <4>2
    <3>3. 10 \in 1..k => k = 10
      OBVIOUS
    <3> QED BY <2>2, <3>2, <3>3, Zenon DEF BuildOk
  <2>4. CASE ~Live_(d)
    <3>1. r = d
      BY <2>2, <2>4, Zenon DEF BuildStep, Then, Live_
    <3> QED BY <2>1, <2>2, <2>4, <3>1 DEF BuildOk, Assembled
  <2> QED BY <2>3, <2>4
<1>7. BuildOk(c, 1..10, Building!OverSeq(c, base, BuildStages))
  <2>1. DOMAIN BuildStages = 1..10
    BY StageNames
  <2>2. 10 \in Nat
    OBVIOUS
  <2> QED BY <1>5, <1>6, <2>1, <2>2, Building!SeqKeeps, Zenon
<1>8. 10 \in 1..10
  OBVIOUS
<1>9. /\ Assembled(c.e, c.t, 1..10, BuildTask(c.e, c.t, c.indexed))
      /\ Live_(BuildTask(c.e, c.t, c.indexed))
           => BuildTask(c.e, c.t, c.indexed).outs = Writes(c.e, c.t) \cup world.depfile[c.e]
  BY <1>4, <1>7, <1>8, Zenon DEF BuildOk
<1> QED BY <1>2, <1>9, Zenon

-----------------------------------------------------------------------------
(* A derivation once its discovered inputs are handled *)

Referred(d) == \A f \in d.entries : f.obj \in d.refs
Extended(d, r) ==
    /\ IsDrv(r) /\ r.outs = d.outs
    /\ OneContent(d.entries) => OneContent(r.entries)
    /\ Referred(d) => Referred(r)

LEMMA RefusedExtends ==
    ASSUME NEW d, NEW why, IsDrv(d)
    PROVE  Extended(d, Refused(d, why))
<1>1. PICK r : r = Refused(d, why)
  OBVIOUS
<1>2. r = [entries |-> d.entries, refs |-> d.refs, found |-> d.found,
           store |-> d.store, outs |-> d.outs, defer |-> d.defer, err |-> why]
  BY <1>1, DrvErr
<1>3. IsDrv(r) /\ r.entries = d.entries /\ r.refs = d.refs /\ r.outs = d.outs
  BY <1>2 DEF IsDrv
<1> QED BY <1>1, <1>3 DEF Extended, Referred

(* What is offered for a path nothing claims, and each path once. *)
LEMMA UpdatesExtends ==
    ASSUME NEW d, IsDrv(d), NEW deps, NEW store,
           \A f \in deps : f.obj = Upload(f.path)
    PROVE  Extended(d, Updates(d, deps, store))
<1>1. PICK q : q = [d EXCEPT !.store = @ \cup store]
  OBVIOUS
<1>2. /\ IsDrv(q) /\ q.entries = d.entries /\ q.refs = d.refs /\ q.outs = d.outs
  BY <1>1, StoreIs
<1>3. PICK F : F = {f \in deps : f.path \notin Claimed(d)}
  OBVIOUS
<1>4. PICK r : r = Updates(d, deps, store)
  OBVIOUS
<1>5. r = With(q, F)
  BY <1>1, <1>3, <1>4 DEF Updates
<1>6. /\ IsDrv(r) /\ r.entries = d.entries \cup F /\ r.refs = d.refs \cup Objects(F)
      /\ r.outs = d.outs
  BY <1>2, <1>5, WithIs
<1>7. \A f \in F : f.obj = Upload(f.path) /\ \A g \in d.entries : g.path # f.path
  BY <1>3 DEF Claimed
<1>8. OneContent(d.entries) => OneContent(r.entries)
  BY <1>6, <1>7 DEF OneContent
<1>9. Referred(d) => Referred(r)
  BY <1>6 DEF Referred, Objects
<1> QED BY <1>4, <1>6, <1>8, <1>9 DEF Extended

LEMMA UploadedAs ==
    ASSUME NEW P, NEW f \in UploadsOf(P)
    PROVE  f.obj = Upload(f.path)
BY UploadsOfIs

LEMMA DiscoveredAs ==
    ASSUME NEW e, NEW v, NEW trees, NEW inputs, NEW seeds, NEW index, NEW got,
           got = Discovered(e, v, trees, inputs, seeds, index), NEW f \in got.deps
    PROVE  f.obj = Upload(f.path)
<1>1. \E U : got.deps = UploadsOf(U)
  <2>1. ASSUME NEW b \in world.banked[e], got = Replayed(b) PROVE got.deps = UploadsOf(b.deps)
    BY <2>1 DEF Replayed
  <2>2. ASSUME NEW files, NEW forced, got = Found(e, v, trees, inputs, files, forced, index)
        PROVE  \E U : got.deps = UploadsOf(U)
    <3> DEFINE found == Includes(e, v, files)
               U     == Elems(Among(found, LAMBDA p : Carries(v, files, forced, p)))
               H(x, y, z) == got = [deps |-> UploadsOf(U), store |-> x, defer |-> y, absent |-> z]
    <3>1. H({p \in Elems(found) : Is(p, "store")} \ Elems(files),
            IF index THEN Defers(e, v, trees, inputs, files, found) ELSE {}, U \ world.disk)
      BY <2>2, Zenon DEF Found
    <3>2. PICK x, y, z : H(x, y, z)
      BY <3>1, Zenon
    <3> HIDE DEF U
    <3> QED BY <3>2
  <2> QED BY <2>1, <2>2, AnswerIs
<1> QED BY <1>1, UploadedAs

LEMMA ListedExtends ==
    ASSUME NEW e, NEW t, NEW d, IsDrv(d)
    PROVE  Extended(d, WithListed(e, t, d))
<1> DEFINE named   == {QrcMembersOf(e, p) : p \in ProducedLists(e, t)}
           members == UNION {q.files : q \in named}
           stores  == UNION {q.store : q \in named}
<1>1. Extended(d, d)
  BY DEF Extended
<1>2. \/ WithListed(e, t, d) = d
      \/ WithListed(e, t, d) = Refused(d, "build")
      \/ WithListed(e, t, d) = Updates(d, UploadsOf(members), stores)
  BY DEF WithListed
<1> HIDE DEF members, stores
<1>3. \A f \in UploadsOf(members) : f.obj = Upload(f.path)
  BY UploadedAs
<1>4. Extended(d, Updates(d, UploadsOf(members), stores))
  BY <1>3, UpdatesExtends
<1> QED BY <1>1, <1>2, <1>4, RefusedExtends

LEMMA DynamicExtends ==
    ASSUME NEW e, NEW t, NEW indexed, NEW d, IsDrv(d)
    PROVE  Extended(d, WithDynamic(e, t, indexed, d))
<1> DEFINE built_ == BuiltIn(t.inputs)
           seeds  == SetToSeq({p \in built_ : ~IsTree(p)})
           gcc    == indexed /\ Says(e, "gcc")
           disc   == Discovered(e, DynamicView(t), Modules(t.inputs), t.inputs, seeds, gcc)
<1>1. Extended(d, d)
  BY DEF Extended
<1>2. PICK got : got = disc
  OBVIOUS
<1>3. \/ WithDynamic(e, t, indexed, d) = d
      \/ WithDynamic(e, t, indexed, d) = Refused(d, "build")
      \/ WithDynamic(e, t, indexed, d) = WithUpdates(t, d, disc)
  BY Zenon DEF WithDynamic
<1>4. \A f \in got.deps : f.obj = Upload(f.path)
  BY <1>2, DiscoveredAs
<1> HIDE DEF disc
<1>5. Extended(d, WithUpdates(t, d, got))
  <2> DEFINE carried == {f.path : f \in d.entries}
             within  == UNION {world.inside[p] : p \in Trees(t.inputs)}
             through == ThroughTrees(carried, within)
  <2>1. CASE got.absent # {}
    <3>1. WithUpdates(t, d, got) = Refused(d, "upload")
      BY <2>1 DEF WithUpdates
    <3> QED BY <3>1, RefusedExtends
  <2>2. CASE got.absent = {} /\ got.defer # {}
    <3>1. PICK r : r = WithUpdates(t, d, got)
      OBVIOUS
    <3>2. r = [d EXCEPT !.defer = got.defer]
      BY <2>2, <3>1 DEF WithUpdates
    <3>3. r = [entries |-> d.entries, refs |-> d.refs, found |-> d.found, store |-> d.store,
               outs |-> d.outs, defer |-> got.defer, err |-> d.err]
      BY <3>2 DEF IsDrv
    <3>4. IsDrv(r) /\ r.entries = d.entries /\ r.refs = d.refs /\ r.outs = d.outs
      BY <3>3 DEF IsDrv
    <3> QED BY <3>1, <3>4 DEF Extended, Referred
  <2>3. CASE got.absent = {} /\ got.defer = {}
    <3>1. WithUpdates(t, d, got) = Updates(d, got.deps \cup UploadsOf(through), got.store)
      BY <2>3 DEF WithUpdates
    <3> HIDE DEF through
    <3>2. \A f \in got.deps \cup UploadsOf(through) : f.obj = Upload(f.path)
      BY <1>4, UploadedAs
    <3> QED BY <3>1, <3>2, UpdatesExtends
  <2> QED BY <2>1, <2>2, <2>3
<1> QED BY <1>1, <1>2, <1>3, <1>5, RefusedExtends

LEMMA HandledExtends ==
    ASSUME NEW e, NEW t, NEW indexed, NEW d, IsDrv(d)
    PROVE  Extended(d, Handled(e, t, indexed, d))
<1>1. Extended(d, d)
  BY DEF Extended
<1>2. \A q, r : Extended(d, q) /\ Extended(q, r) => Extended(d, r)
  BY DEF Extended
<1>3. PICK q : q = Then(d, LAMBDA x : WithListed(e, t, x))
  OBVIOUS
<1>4. q = d \/ q = WithListed(e, t, d)
  BY <1>3, Zenon DEF Then
<1>5. Extended(d, q)
  BY <1>1, <1>4, ListedExtends
<1>6. IsDrv(q)
  BY <1>5 DEF Extended
<1>7. \/ Handled(e, t, indexed, d) = q
      \/ Handled(e, t, indexed, d) = WithDynamic(e, t, indexed, q)
      \/ Handled(e, t, indexed, d) = d
      \/ Handled(e, t, indexed, d) = WithDynamic(e, t, FALSE, d)
  BY <1>3, Zenon DEF Handled, Then
<1>8. Extended(q, WithDynamic(e, t, indexed, q)) /\ Extended(d, WithDynamic(e, t, FALSE, d))
  BY <1>6, DynamicExtends
<1> QED BY <1>1, <1>2, <1>5, <1>7, <1>8

-----------------------------------------------------------------------------
(* The build a run is of *)

(* A run changes only what lies on disk and what an edge waits for.        *)
SameWorld == \E w \in Worlds : DOMAIN world = DOMAIN w /\ \A x \in Fixed : world[x] = w[x]

LEMMA WorldKept ==
    ASSUME SameWorld, [Next]_vars
    PROVE  /\ SameWorld' /\ \A x \in Fixed : world'[x] = world[x]
           /\ world.disk \subseteq world'.disk
<1>1. PICK w \in Worlds : DOMAIN world = DOMAIN w /\ \A x \in Fixed : world[x] = w[x]
  BY DEF SameWorld
<1>2. Fixed \cup {"disk"} \subseteq DOMAIN world
  BY <1>1, WorldsAssumption
<1>3. ASSUME DOMAIN world' = DOMAIN world, \A x \in Fixed : world'[x] = world[x]
      PROVE  SameWorld'
  <2>1. \A x \in Fixed : world'[x] = w[x]
    BY <1>1, <1>3
  <2>2. Fixed' = Fixed
    BY DEF Fixed
  <2> QED BY <1>1, <1>3, <2>1, <2>2 DEF SameWorld
<1> DEFINE Widens(D) == world.disk \subseteq D /\ world' = [world EXCEPT !.disk = D]
           Ordered(e, O, D) == world' = [world EXCEPT !.ordering[e] = O, !.dirtying[e] = D]
<1>4. \/ world' = world
      \/ \E D : Widens(D)
      \/ \E e, O, D : Ordered(e, O, D)
  <2>1. CASE UNCHANGED vars
    BY <2>1 DEF vars
  <2>2. CASE Main
    <3>1. world' = world \/ \E r : Defer(r)
      BY <2>2 DEF Main, Receive, ReceiveDeferred, ReceiveFailed, Return
    <3>2. ASSUME NEW r, Defer(r)
          PROVE  world' = world \/ \E e, O, D : Ordered(e, O, D)
      <4> DEFINE new == r.defer \ Elems(world.ordering[r.edge])
      <4>1. world' = world
            \/ Ordered(r.edge, world.ordering[r.edge] \o SetToSeq(new),
                              world.dirtying[r.edge] \o SetToSeq(new))
        BY <3>2, Zenon DEF Defer
      <4> HIDE DEF Ordered
      <4> QED BY <4>1
    <3> HIDE DEF Ordered
    <3> QED BY <3>1, <3>2
  <2>3. ASSUME NEW e \in Edge, StartPhony(e) \/ StartTask(e) \/ StartLocal(e) \/ Unresolved(e)
                               \/ Assemble(e)
        PROVE  world' = world
    BY <2>3 DEF StartPhony, StartTask, StartLocal, Unresolved, Assemble
  <2>4. ASSUME NEW e \in Edge, Reuse(e) \/ Emit(e) \/ RunLocal(e)
        PROVE  world' = world \/ \E D : Widens(D)
    BY <2>4 DEF Reuse, Emit, RunLocal, PlacesOuter
  <2>5. ASSUME NEW p, Rewrite(p) PROVE \E D : Widens(D)
    BY <2>5 DEF Rewrite
  <2>6. CASE Stopped
    BY <2>6 DEF Stopped, vars
  <2> HIDE DEF Ordered
  <2> QED BY <2>1, <2>2, <2>3, <2>4, <2>5, <2>6 DEF Next
<1>5. "disk" \notin Fixed /\ "ordering" \notin Fixed /\ "dirtying" \notin Fixed
  BY DEF Fixed
<1> HIDE DEF Fixed
<1>6. DOMAIN world' = DOMAIN world /\ \A x \in Fixed : world'[x] = world[x]
  <2>1. CASE \E D : Widens(D)
    BY <1>2, <1>5, <2>1
  <2>2. CASE \E e, O, D : Ordered(e, O, D)
    BY <1>2, <1>5, <2>2
  <2> QED BY <1>4, <2>1, <2>2
<1>7. world.disk \subseteq world'.disk
  <2>1. CASE \E D : Widens(D)
    BY <1>2, <2>1
  <2>2. CASE \E e, O, D : Ordered(e, O, D)
    BY <1>2, <2>2
  <2> QED BY <1>4, <2>1, <2>2
<1> QED BY <1>3, <1>6, <1>7

(* In every state the graph and what its commands say are those of a world  *)
(* a run may begin in: a run only adds to what edges are ordered after.    *)
THEOREM WorldStays == Spec => []SameWorld
<1>1. Init => SameWorld
  BY DEF Init, SameWorld
<1>2. SameWorld /\ [Next]_vars => SameWorld'
  BY WorldKept
<1> QED BY <1>1, <1>2, PTL DEF Spec

-----------------------------------------------------------------------------
(* What a derivation carries, and refers to *)

Drafts ==
    /\ DOMAIN phase = Edge /\ DOMAIN built = Edge /\ DOMAIN emitted = Edge
    /\ \A e \in Edge : phase[e] = "assembled" => IsDrv(built[e])

(* What a step makes of the drafts and of what is emitted: at most one     *)
(* edge's, from what the stages made of its task, from its own draft, or   *)
(* from an earlier pass's record.                                          *)
Assembles(e) ==
    /\ phase[e] = "running" /\ emitted' = emitted
    /\ \E indexed : Live_(BuildTask(e, tasks[e], indexed))
                     /\ built' = [built EXCEPT ![e] = BuildTask(e, tasks[e], indexed)]
Emits(e) ==
    /\ phase[e] = "assembled" /\ built' = built
    /\ \E indexed : emitted' = [emitted EXCEPT ![e] = Handled(e, tasks[e], indexed, built[e])]
Reuses(e) ==
    /\ built' = built /\ emitted' = [emitted EXCEPT ![e] = world.emitted[e]]

LEMMA DraftSteps ==
    ASSUME Drafts, [Next]_vars
    PROVE  /\ DOMAIN phase' = Edge
           /\ \/ /\ built' = built /\ emitted' = emitted
                 /\ \A e \in Edge : phase'[e] = "assembled" => phase[e] = "assembled"
              \/ \E e \in Edge : /\ Assembles(e) \/ Emits(e) \/ Reuses(e)
                                 /\ \A f \in Edge : f # e /\ phase'[f] = "assembled"
                                                         => phase[f] = "assembled"
                                 /\ phase'[e] = "assembled" => Assembles(e)
<1> DEFINE Quietly == /\ built' = built /\ emitted' = emitted
                      /\ \A e \in Edge : phase'[e] = "assembled" => phase[e] = "assembled"
           Others(e) == \A f \in Edge : f # e /\ phase'[f] = "assembled" => phase[f] = "assembled"
           Marked == /\ DOMAIN phase' = Edge
                     /\ \A e \in Edge : phase'[e] = "assembled" => phase[e] = "assembled"
<1> USE DEF Drafts
<1>0. ASSUME Marked, built' = built, emitted' = emitted
      PROVE  DOMAIN phase' = Edge /\ Quietly
  BY <1>0
<1>1. ASSUME UNCHANGED vars PROVE DOMAIN phase' = Edge /\ Quietly
  BY <1>1 DEF vars
<1>2. ASSUME Main PROVE DOMAIN phase' = Edge /\ Quietly
  <2>1. CASE Receive
    <3>1. Marked
      <4>1. phase' = [phase EXCEPT ![Head(channel).edge] = "done"]
        BY <2>1 DEF Receive
      <4> QED BY <4>1
    <3> QED BY <1>0, <2>1, <3>1 DEF Receive, Untouched
  <2>2. CASE ReceiveDeferred
    <3>1. ASSUME NEW r, Defer(r) PROVE Marked
      <4>1. phase' = [phase EXCEPT ![r.edge] = "want"] \/ phase' = [phase EXCEPT ![r.edge] = "failed"]
        BY <3>1, Zenon DEF Defer
      <4> QED BY <4>1
    <3>2. Defer(Head(channel)) /\ built' = built /\ emitted' = emitted
      BY <2>2 DEF ReceiveDeferred, Untouched
    <3> HIDE DEF Marked, Quietly
    <3> QED BY <1>0, <3>1, <3>2
  <2>3. CASE ReceiveFailed
    <3>1. Marked
      <4>1. phase' = [phase EXCEPT ![Head(channel).edge] = "failed"]
        BY <2>3 DEF ReceiveFailed
      <4> QED BY <4>1
    <3> QED BY <1>0, <2>3, <3>1 DEF ReceiveFailed, Untouched
  <2>4. CASE Return
    <3>1. Marked
      BY <2>4 DEF Return
    <3> QED BY <1>0, <2>4, <3>1 DEF Return, Untouched
  <2> QED BY <1>2, <2>1, <2>2, <2>3, <2>4 DEF Main
<1>3. ASSUME NEW e \in Edge, StartPhony(e) \/ StartTask(e) \/ StartLocal(e)
      PROVE  DOMAIN phase' = Edge /\ Quietly
  <2>1. phase' = [phase EXCEPT ![e] = "answered"] \/ phase' = [phase EXCEPT ![e] = "running"]
        \/ phase' = phase
    BY <1>3 DEF StartPhony, StartTask, StartLocal, LeftUnresolved, Resolved
  <2>2. built' = built /\ emitted' = emitted
    BY <1>3 DEF StartPhony, StartTask, StartLocal
  <2>3. Marked
    BY <2>1
  <2> HIDE DEF Marked, Quietly
  <2> QED BY <1>0, <2>2, <2>3
<1>4. ASSUME NEW e \in Edge, Unresolved(e) \/ RunLocal(e)
      PROVE  DOMAIN phase' = Edge /\ Quietly
  <2>1. phase' = [phase EXCEPT ![e] = "answered"]
    BY <1>4 DEF Unresolved, RunLocal, Ends
  <2>2. built' = built /\ emitted' = emitted
    BY <1>4 DEF Unresolved, RunLocal, Quiet
  <2>3. Marked
    BY <2>1
  <2> QED BY <1>0, <2>2, <2>3
<1>5. ASSUME NEW e \in Edge, Reuse(e)
      PROVE  DOMAIN phase' = Edge /\ Reuses(e) /\ Others(e) /\ phase'[e] # "assembled"
  <2>1. phase' = [phase EXCEPT ![e] = "answered"]
    BY <1>5 DEF Reuse, Ends
  <2>2. Reuses(e)
    BY <1>5 DEF Reuse, Reuses, Quiet
  <2> QED BY <2>1, <2>2
<1>6. ASSUME NEW e \in Edge, Assemble(e)
      PROVE  /\ DOMAIN phase' = Edge
             /\ Quietly \/ (Assembles(e) /\ Others(e))
  <2>1. PICK d : /\ d = BuildTask(e, tasks[e], e \notin no_defer)
                 /\ IF d.err # "" \/ d.defer # {}
                    THEN Stops(e, d) /\ UNCHANGED built
                    ELSE /\ built' = [built EXCEPT ![e] = d]
                         /\ phase' = [phase EXCEPT ![e] = "assembled"]
                         /\ UNCHANGED channel
    BY <1>6 DEF Assemble
  <2>2. emitted' = emitted /\ phase[e] = "running"
    BY <1>6 DEF Assemble, Working
  <2>3. CASE d.err # "" \/ d.defer # {}
    <3>1. phase' = [phase EXCEPT ![e] = "answered"] /\ built' = built
      BY <2>1, <2>3 DEF Stops, Ends
    <3>2. Marked
      BY <3>1
    <3> QED BY <1>0, <2>2, <3>1, <3>2
  <2>4. CASE ~(d.err # "" \/ d.defer # {})
    <3>1. Live_(d)
      BY <2>4 DEF Live_
    <3>2. Assembles(e)
      BY <2>1, <2>2, <2>4, <3>1, Zenon DEF Assembles
    <3>3. phase' = [phase EXCEPT ![e] = "assembled"]
      BY <2>1, <2>4
    <3> QED BY <3>2, <3>3
  <2> QED BY <2>3, <2>4
<1>7. ASSUME NEW e \in Edge, Emit(e)
      PROVE  /\ DOMAIN phase' = Edge
             /\ Quietly \/ (Emits(e) /\ Others(e) /\ phase'[e] # "assembled")
  <2>1. PICK d : /\ d = Handled(e, tasks[e], e \notin no_defer, built[e])
                 /\ phase' = [phase EXCEPT ![e] = "answered"]
                 /\ emitted' = emitted \/ emitted' = [emitted EXCEPT ![e] = d]
    BY <1>7 DEF Emit, Stops, Ends
  <2>2. phase[e] = "assembled" /\ built' = built
    BY <1>7 DEF Emit, Quiet
  <2>3. CASE emitted' = emitted
    <3>1. Marked
      BY <2>1
    <3> QED BY <1>0, <2>2, <2>3, <3>1
  <2>4. CASE emitted' = [emitted EXCEPT ![e] = d]
    <3>1. Emits(e)
      BY <2>1, <2>2, <2>4, Zenon DEF Emits
    <3> QED BY <2>1, <3>1
  <2> QED BY <2>1, <2>3, <2>4
<1>8. ASSUME NEW p, Rewrite(p) PROVE DOMAIN phase' = Edge /\ Quietly
  BY <1>8 DEF Rewrite
<1>9. ASSUME Stopped PROVE DOMAIN phase' = Edge /\ Quietly
  BY <1>9 DEF Stopped, vars
<1> HIDE DEF Marked
<1> QED
  <2>1. CASE DOMAIN phase' = Edge /\ Quietly
    BY <2>1
  <2>2. ASSUME NEW e \in Edge, DOMAIN phase' = Edge, Others(e),
               Assembles(e) \/ Emits(e) \/ Reuses(e), phase'[e] = "assembled" => Assembles(e)
        PROVE  /\ DOMAIN phase' = Edge
               /\ \E f \in Edge : /\ Assembles(f) \/ Emits(f) \/ Reuses(f)
                                  /\ \A g \in Edge : g # f /\ phase'[g] = "assembled"
                                                          => phase[g] = "assembled"
                                  /\ phase'[f] = "assembled" => Assembles(f)
    BY <2>2
  <2> HIDE DEF Quietly, Others, Drafts
  <2>3. CASE \E e \in Edge : Assemble(e)
    <3>1. PICK e \in Edge : Assemble(e)
      BY <2>3
    <3> QED BY <1>6, <2>1, <2>2, <3>1
  <2>4. CASE \E e \in Edge : Emit(e)
    <3>1. PICK e \in Edge : Emit(e)
      BY <2>4
    <3> QED BY <1>7, <2>1, <2>2, <3>1
  <2>5. CASE \E e \in Edge : Reuse(e)
    <3>1. PICK e \in Edge : Reuse(e)
      BY <2>5
    <3> QED BY <1>5, <2>2, <3>1
  <2>6. \/ DOMAIN phase' = Edge /\ Quietly
        \/ \E e \in Edge : Assemble(e) \/ Emit(e) \/ Reuse(e)
    BY <1>1, <1>2, <1>3, <1>4, <1>8, <1>9 DEF Next
  <2> QED BY <2>1, <2>3, <2>4, <2>5, <2>6

LEMMA DraftsHold ==
    ASSUME Drafts, [Next]_vars
    PROVE  Drafts'
<1>1. ASSUME NEW e \in Edge, Assembles(e)
      PROVE  DOMAIN built' = Edge /\ DOMAIN emitted' = Edge /\ IsDrv(built'[e])
             /\ \A f \in Edge : f # e => built'[f] = built[f]
  BY <1>1, BuildTaskKeeps DEF Assembles, Assembled, Drafts
<1>2. ASSUME NEW e \in Edge, Emits(e) \/ Reuses(e)
      PROVE  DOMAIN built' = Edge /\ DOMAIN emitted' = Edge /\ built' = built
  <2>1. built' = built /\ \E v : emitted' = [emitted EXCEPT ![e] = v]
    BY <1>2 DEF Emits, Reuses
  <2> QED BY <2>1 DEF Drafts
<1>3. CASE built' = built /\ emitted' = emitted
           /\ \A e \in Edge : phase'[e] = "assembled" => phase[e] = "assembled"
  BY <1>3, DraftSteps DEF Drafts
<1>4. ASSUME NEW e \in Edge, Assembles(e) \/ Emits(e) \/ Reuses(e),
             \A f \in Edge : f # e /\ phase'[f] = "assembled" => phase[f] = "assembled",
             phase'[e] = "assembled" => Assembles(e)
      PROVE  Drafts'
  <2>1. DOMAIN phase' = Edge
    BY DraftSteps
  <2>2. CASE Assembles(e)
    BY <1>1, <1>4, <2>1, <2>2 DEF Drafts
  <2>3. CASE ~Assembles(e)
    BY <1>2, <1>4, <2>1, <2>3 DEF Drafts
  <2> QED BY <2>2, <2>3
<1> QED BY <1>3, <1>4, DraftSteps

LEMMA DraftsInit == Init => Drafts
BY DEF Init, Drafts

(* The headers staged for a task that is under way have places of their    *)
(* own; no task that must see the outer paths as they are has any.         *)
StagedApart == \A e \in Edge : phase[e] = "running" => Apart(e, tasks[e])
NoneMixed   == \A e \in Edge : Unmixed(e)

(* What was banked lies on disk.                                           *)
Banked_ == \A e \in Edge : BankedPaths(e) \subseteq world.disk

OneHeld ==
    /\ Drafts /\ SameWorld /\ Banked_
    /\ \A e \in Edge : OneContent(built[e].entries) /\ OneContent(emitted[e].entries)
ReferredHeld ==
    /\ Drafts /\ SameWorld
    /\ \A e \in Edge : Referred(built[e]) /\ Referred(emitted[e])

LEMMA NothingDrafted ==
    Init => \A e \in Edge : /\ OneContent(built[e].entries) /\ OneContent(emitted[e].entries)
                           /\ Referred(built[e]) /\ Referred(emitted[e])
<1>1. PICK N : N = NoDrv
  OBVIOUS
<1>2. N.entries = {}
  BY <1>1 DEF NoDrv
<1> QED BY <1>1, <1>2 DEF Init, OneContent, Referred

LEMMA EarlierSound ==
    ASSUME SameWorld, NEW e \in Edge
    PROVE  OneContent(world.emitted[e].entries) /\ Referred(world.emitted[e])
<1>1. PICK w \in Worlds : \A x \in Fixed : world[x] = w[x]
  BY DEF SameWorld
<1>2. world.emitted = w.emitted
  BY <1>1 DEF Fixed
<1> QED BY <1>2, EarlierAssumption DEF OneContent, Referred

LEMMA BankedInit == Init => Banked_
<1> SUFFICES ASSUME Init, NEW e \in Edge PROVE BankedPaths(e) \subseteq world.disk
  BY DEF Banked_
<1>1. world \in Worlds
  BY DEF Init
<1> QED BY <1>1, BankedAssumption DEF BankedPaths

LEMMA BankedHolds ==
    ASSUME Banked_, SameWorld, [Next]_vars
    PROVE  Banked_'
<1>1. world'.banked = world.banked /\ world.disk \subseteq world'.disk
  BY WorldKept DEF Fixed
<1> QED BY <1>1 DEF Banked_, BankedPaths

LEMMA OneHolds ==
    ASSUME OneHeld, StagedApart, [Next]_vars
    PROVE  OneHeld'
<1>1. Drafts' /\ SameWorld' /\ Banked_'
  BY DraftsHold, WorldKept, BankedHolds DEF OneHeld
<1>2. ASSUME NEW e \in Edge, Assembles(e)
      PROVE  \A f \in Edge : OneContent(built'[f].entries) /\ OneContent(emitted'[f].entries)
  <2>1. PICK indexed : /\ Live_(BuildTask(e, tasks[e], indexed))
                       /\ built' = [built EXCEPT ![e] = BuildTask(e, tasks[e], indexed)]
    BY <1>2 DEF Assembles
  <2>2. PICK d : d = BuildTask(e, tasks[e], indexed)
    OBVIOUS
  <2>3. Sofar(e, tasks[e], 1..10, d)
    BY <2>1, <2>2, BuildTaskKeeps DEF Assembled
  <2>4. OneContent(d.entries)
    <3>1. 6 \in 1..10 /\ Clear(e, tasks[e])
      BY <1>2 DEF Assembles, StagedApart, Clear, OneHeld, Banked_
    <3> QED BY <2>3, <3>1 DEF Sofar
  <2> QED BY <1>2, <2>1, <2>2, <2>4 DEF Assembles, OneHeld, Drafts
<1>3. ASSUME NEW e \in Edge, Emits(e)
      PROVE  \A f \in Edge : OneContent(built'[f].entries) /\ OneContent(emitted'[f].entries)
  <2>1. PICK indexed : emitted' = [emitted EXCEPT ![e] = Handled(e, tasks[e], indexed, built[e])]
    BY <1>3 DEF Emits
  <2>2. PICK d : d = Handled(e, tasks[e], indexed, built[e])
    OBVIOUS
  <2>3. OneContent(d.entries)
    BY <1>3, <2>2, HandledExtends DEF Emits, OneHeld, Drafts, Extended
  <2> QED BY <1>3, <2>1, <2>2, <2>3 DEF Emits, OneHeld, Drafts
<1>4. ASSUME NEW e \in Edge, Reuses(e)
      PROVE  \A f \in Edge : OneContent(built'[f].entries) /\ OneContent(emitted'[f].entries)
  <2>1. OneContent(world.emitted[e].entries)
    BY EarlierSound DEF OneHeld
  <2> QED BY <1>4, <2>1 DEF Reuses, OneHeld, Drafts
<1>5. CASE built' = built /\ emitted' = emitted
  BY <1>1, <1>5 DEF OneHeld
<1>6. CASE \E e \in Edge : Assembles(e) \/ Emits(e) \/ Reuses(e)
  BY <1>1, <1>2, <1>3, <1>4, <1>6 DEF OneHeld
<1> QED BY <1>5, <1>6, DraftSteps DEF OneHeld

LEMMA ReferredHolds ==
    ASSUME ReferredHeld, NoneMixed, [Next]_vars
    PROVE  ReferredHeld'
<1>1. Drafts' /\ SameWorld'
  BY DraftsHold, WorldKept DEF ReferredHeld
<1>2. ASSUME NEW e \in Edge, Assembles(e)
      PROVE  \A f \in Edge : Referred(built'[f]) /\ Referred(emitted'[f])
  <2>1. PICK indexed : /\ Live_(BuildTask(e, tasks[e], indexed))
                       /\ built' = [built EXCEPT ![e] = BuildTask(e, tasks[e], indexed)]
    BY <1>2 DEF Assembles
  <2>2. PICK d : d = BuildTask(e, tasks[e], indexed)
    OBVIOUS
  <2>3. Sofar(e, tasks[e], 1..10, d)
    BY <2>1, <2>2, BuildTaskKeeps DEF Assembled
  <2>4. Referred(d)
    <3>1. 9 \in 1..10 /\ Unmixed(e)
      BY DEF NoneMixed
    <3> QED BY <2>3, <3>1 DEF Sofar, Referred
  <2> QED BY <1>2, <2>1, <2>2, <2>4 DEF Assembles, ReferredHeld, Drafts
<1>3. ASSUME NEW e \in Edge, Emits(e)
      PROVE  \A f \in Edge : Referred(built'[f]) /\ Referred(emitted'[f])
  <2>1. PICK indexed : emitted' = [emitted EXCEPT ![e] = Handled(e, tasks[e], indexed, built[e])]
    BY <1>3 DEF Emits
  <2>2. PICK d : d = Handled(e, tasks[e], indexed, built[e])
    OBVIOUS
  <2>3. Referred(d)
    BY <1>3, <2>2, HandledExtends DEF Emits, ReferredHeld, Drafts, Extended
  <2> QED BY <1>3, <2>1, <2>2, <2>3 DEF Emits, ReferredHeld, Drafts
<1>4. ASSUME NEW e \in Edge, Reuses(e)
      PROVE  \A f \in Edge : Referred(built'[f]) /\ Referred(emitted'[f])
  <2>1. Referred(world.emitted[e])
    BY EarlierSound DEF ReferredHeld
  <2> QED BY <1>4, <2>1 DEF Reuses, ReferredHeld, Drafts
<1>5. CASE built' = built /\ emitted' = emitted
  BY <1>1, <1>5 DEF ReferredHeld
<1>6. CASE \E e \in Edge : Assembles(e) \/ Emits(e) \/ Reuses(e)
  BY <1>1, <1>2, <1>3, <1>4, <1>6 DEF ReferredHeld
<1> QED BY <1>5, <1>6, DraftSteps DEF ReferredHeld

(* A task's derivation holds one object for a path, whatever is rewritten  *)
(* while it is assembled, as long as staged headers have their own places. *)
THEOREM OneContentHeld == Spec /\ []StagedApart => []OneContentPerPath
<1>1. Init => OneHeld
  BY NothingDrafted, DraftsInit, BankedInit DEF Init, OneHeld, SameWorld
<1>2. OneHeld /\ StagedApart /\ [Next]_vars => OneHeld'
  BY OneHolds
<1>3. OneHeld => OneContentPerPath
  BY DEF OneHeld, OneContentPerPath, OneContent
<1> QED BY <1>1, <1>2, <1>3, PTL DEF Spec

(* A derivation refers to whatever it carries, after every entry that was  *)
(* dropped or replaced on the way.                                         *)
THEOREM SurvivorsHeld == Spec /\ []NoneMixed => []SurvivorsReferenced
<1>1. Init => ReferredHeld
  BY NothingDrafted, DraftsInit DEF Init, ReferredHeld, SameWorld
<1>2. ReferredHeld /\ NoneMixed /\ [Next]_vars => ReferredHeld'
  BY ReferredHolds
<1>3. ReferredHeld => SurvivorsReferenced
  BY DEF ReferredHeld, SurvivorsReferenced, Referred
<1> QED BY <1>1, <1>2, <1>3, PTL DEF Spec

-----------------------------------------------------------------------------
(* What a task registers *)

TaskFields == {"reg", "known", "co", "inputs", "covered", "merged", "links", "store", "args",
               "members", "rsp", "moc", "defer", "err", "py", "walk"}
AsUploads(C) == \A d \in DOMAIN C : \A p \in DOMAIN C[d].files : ~IsBuilt(C[d].files[p])

(* The work on a task has registered uploads besides what was there, and   *)
(* nothing in the place of what was there.                                 *)
Grown(reg, known, s) ==
    /\ TaskFields \subseteq DOMAIN s
    /\ DOMAIN reg \subseteq DOMAIN s.reg
    /\ \A k \in DOMAIN reg : s.reg[k] = reg[k]
    /\ \A k \in DOMAIN s.reg \ DOMAIN reg : ~IsBuilt(s.reg[k].obj)
    /\ known \subseteq s.known
    /\ AsUploads(s.py) /\ AsUploads(s.walk) /\ DOMAIN s.walk = DOMAIN world.under
    
(* A step that leaves the registry and the closures as they are. *)
SameReg(s, r) ==
    /\ TaskFields \subseteq DOMAIN r
    /\ r.reg = s.reg /\ r.known = s.known /\ r.py = s.py /\ r.walk = s.walk

LEMMA SameGrown ==
    ASSUME NEW reg, NEW known, NEW s, NEW r, Grown(reg, known, s), SameReg(s, r)
    PROVE  Grown(reg, known, r)
BY DEF Grown, SameReg

LEMMA SetInputs ==
    ASSUME NEW s, TaskFields \subseteq DOMAIN s, NEW v
    PROVE  SameReg(s, [s EXCEPT !.inputs = v])
BY DEF TaskFields, SameReg

LEMMA SetStore ==
    ASSUME NEW s, TaskFields \subseteq DOMAIN s, NEW v
    PROVE  SameReg(s, [s EXCEPT !.store = v])
BY DEF TaskFields, SameReg

LEMMA SetLinks ==
    ASSUME NEW s, TaskFields \subseteq DOMAIN s, NEW v
    PROVE  SameReg(s, [s EXCEPT !.links = v])
BY DEF TaskFields, SameReg

LEMMA SetArgs ==
    ASSUME NEW s, TaskFields \subseteq DOMAIN s, NEW v
    PROVE  SameReg(s, [s EXCEPT !.args = v])
BY DEF TaskFields, SameReg

LEMMA SetDefer ==
    ASSUME NEW s, TaskFields \subseteq DOMAIN s, NEW v
    PROVE  SameReg(s, [s EXCEPT !.defer = v])
BY DEF TaskFields, SameReg

LEMMA SetErr ==
    ASSUME NEW s, TaskFields \subseteq DOMAIN s, NEW v
    PROVE  SameReg(s, [s EXCEPT !.err = v])
BY DEF TaskFields, SameReg

LEMMA SetMerged ==
    ASSUME NEW s, TaskFields \subseteq DOMAIN s, NEW u, NEW v, NEW w
    PROVE  SameReg(s, [s EXCEPT !.covered = u, !.merged = v, !.inputs = w])
BY DEF TaskFields, SameReg

LEMMA SetRsp ==
    ASSUME NEW s, TaskFields \subseteq DOMAIN s, NEW u, NEW v, NEW w
    PROVE  SameReg(s, [s EXCEPT !.rsp = u, !.co = v, !.moc = w])
BY DEF TaskFields, SameReg

LEMMA Fields == ASSUME NEW reg, NEW known, NEW s, Grown(reg, known, s)
                PROVE  TaskFields \subseteq DOMAIN s
BY DEF Grown

(* Uploads that are taken. *)
LEMMA TookAsGrown ==
    ASSUME NEW reg, NEW known, NEW s, Grown(reg, known, s), NEW F,
           \A p \in DOMAIN F : ~IsBuilt(F[p])
    PROVE  Grown(reg, known, TookAs(s, F))
<1> DEFINE new  == {File(p, F[p]) : p \in DOMAIN F}
           keys == {KeyOf(s.known, p) : p \in DOMAIN F}
<1>1. PICK r : r = TookAs(s, F)
  OBVIOUS
<1>2. PICK R : R = AllRegistered(s.reg, s.known, new)
  OBVIOUS
<1>3. PICK I : I = F @@ s.inputs
  OBVIOUS
<1>4. r = [s EXCEPT !.reg = R, !.known = s.known \cup keys, !.inputs = I]
  BY <1>1, <1>2, <1>3, Zenon DEF TookAs
<1>5. \A f \in new : ~IsBuilt(f.obj)
  BY FileIs
<1>6. /\ DOMAIN s.reg \subseteq DOMAIN R
      /\ \A k \in DOMAIN s.reg : R[k] = s.reg[k]
      /\ \A k \in DOMAIN R \ DOMAIN s.reg : R[k] \in new
  BY <1>2 DEF AllRegistered
<1> HIDE DEF keys, new
<1>7. TaskFields \subseteq DOMAIN s
  BY DEF Grown
<1>8. /\ TaskFields \subseteq DOMAIN r
      /\ r.reg = R /\ r.known = s.known \cup keys
      /\ r.py = s.py /\ r.walk = s.walk
  BY <1>4, <1>7 DEF TaskFields
<1>9. Grown(reg, known, r)
  BY <1>5, <1>6, <1>8 DEF Grown
<1> QED BY <1>1, <1>9

LEMMA TookGrown ==
    ASSUME NEW reg, NEW known, NEW s, Grown(reg, known, s), NEW P
    PROVE  Grown(reg, known, Took(s, P)) /\ Grown(reg, known, Filled(s, P))
<1>1. \A Q : \A p \in DOMAIN [q \in Q |-> Upload(q)] : ~IsBuilt([q \in Q |-> Upload(q)][p])
  BY UploadIs
<1> QED BY <1>1, TookAsGrown DEF Took, Filled

LEMMA FailedGrown ==
    ASSUME NEW reg, NEW known, NEW s, Grown(reg, known, s)
    PROVE  Grown(reg, known, Failed(s))
<1>1. SameReg(s, Failed(s))
  BY Fields, SetErr, Zenon DEF Failed
<1> QED BY <1>1, SameGrown

LEMMA PutGrown ==
    ASSUME NEW reg, NEW known, NEW s, Grown(reg, known, s), NEW f, NEW F, NEW P
    PROVE  /\ Grown(reg, known, Put(s, f)) /\ Grown(reg, known, PutAll(s, F))
           /\ Grown(reg, known, Dropped(s, P))
<1>1. SameReg(s, Put(s, f)) /\ SameReg(s, PutAll(s, F)) /\ SameReg(s, Dropped(s, P))
  BY Fields, SetInputs, Zenon DEF Put, PutAll, Dropped
<1> QED BY <1>1, SameGrown

(* The files of directories of scripts. *)
LEMMA ClosuresAre ==
    ASSUME NEW reg, NEW known, NEW s, Grown(reg, known, s), NEW D \in SUBSET DOMAIN world.under
    PROVE  /\ \A d \in D : \A p \in DOMAIN ClosureOf(s, d).files : ~IsBuilt(ClosureOf(s, d).files[p])
           /\ \A p \in DOMAIN ClosureFiles(s, D) : ~IsBuilt(ClosureFiles(s, D)[p])
           /\ Grown(reg, known, Walked(s, D))
<1>1. \A d \in D : \A p \in DOMAIN ClosureOf(s, d).files : ~IsBuilt(ClosureOf(s, d).files[p])
  BY DEF ClosureOf, Grown, AsUploads
<1>2. \A p \in DOMAIN ClosureFiles(s, D) : ~IsBuilt(ClosureFiles(s, D)[p])
  <2> DEFINE with(p) == {d \in D : p \in DOMAIN ClosureOf(s, d).files}
             P       == UNION {DOMAIN ClosureOf(s, d).files : d \in D}
             of(p)   == CHOOSE d \in with(p) : TRUE
  <2>1. ClosureFiles(s, D) = [p \in P |-> ClosureOf(s, of(p)).files[p]]
    BY DEF ClosureFiles
  <2>2. \A p \in P : of(p) \in with(p)
    BY Zenon
  <2>3. \A p \in P : of(p) \in D /\ p \in DOMAIN ClosureOf(s, of(p)).files
    <3> HIDE DEF of
    <3> QED BY <2>2
  <2> HIDE DEF of, with, P
  <2> QED BY <1>1, <2>1, <2>3
<1>3. Grown(reg, known, Walked(s, D))
  <2> DEFINE more == [d \in DOMAIN s.py \cup D |-> ClosureOf(s, d)]
  <2>1. PICK r : r = Walked(s, D)
    OBVIOUS
  <2>2. r = [s EXCEPT !.py = more]
    BY <2>1 DEF Walked
  <2>3. AsUploads(more)
    BY <1>1 DEF AsUploads, ClosureOf, Grown
  <2> HIDE DEF more
  <2>4. /\ TaskFields \subseteq DOMAIN r /\ r.py = more
        /\ r.reg = s.reg /\ r.known = s.known /\ r.walk = s.walk
    BY <2>2, Fields DEF TaskFields
  <2> QED BY <2>1, <2>3, <2>4 DEF Grown
<1> QED BY <1>1, <1>2, <1>3

LEMMA TookFilesGrown ==
    ASSUME NEW reg, NEW known, NEW s, Grown(reg, known, s), NEW P, NEW p
    PROVE  Grown(reg, known, TookFiles(s, P)) /\ Grown(reg, known, TookFile(s, p))
<1>1. ASSUME NEW Q PROVE Grown(reg, known, TookFiles(s, Q))
  <2>1. ScriptDirs(Q) \in SUBSET DOMAIN world.under
    BY DEF ScriptDirs
  <2>2. Grown(reg, known, Took(s, Q))
    BY TookGrown
  <2>3. Grown(reg, known, Walked(Took(s, Q), ScriptDirs(Q)))
    BY <2>1, <2>2, ClosuresAre
  <2>4. \A q \in DOMAIN ClosureFiles(s, ScriptDirs(Q)) : ~IsBuilt(ClosureFiles(s, ScriptDirs(Q))[q])
    BY <2>1, ClosuresAre
  <2>5. Grown(reg, known, TookAs(Walked(Took(s, Q), ScriptDirs(Q)), ClosureFiles(s, ScriptDirs(Q))))
    BY <2>3, <2>4, TookAsGrown
  <2> QED BY <2>5, FailedGrown DEF TookFiles
<1> QED BY <1>1 DEF TookFile

LEMMA TookDirsGrown ==
    ASSUME NEW reg, NEW known, NEW s, Grown(reg, known, s), NEW D
    PROVE  Grown(reg, known, TookDirs(s, D)) /\ Grown(reg, known, FilledDirs(s, D))
BY TookGrown, FailedGrown DEF TookDirs, FilledDirs

(* The worklists have an order. *)
IsList(q) == \E S : q \in Seq(S)

LEMMA OneMore ==
    ASSUME NEW q, IsList(q), NEW x
    PROVE  IsList(Append(q, x))
<1>1. PICK S : q \in Seq(S)
  BY DEF IsList
<1>2. q \in Seq(S \cup {x})
  BY <1>1
<1>3. Append(q, x) \in Seq(S \cup {x})
  BY <1>2
<1> QED BY <1>3, Zenon DEF IsList

LEMMA KeyFinite ==
    \A start, refs : IsFiniteSet(Key \cap Reached(start, refs))
<1>1. IsFiniteSet({<<p>> : p \in Path})
  <2> DEFINE f == [p \in Path |-> <<p>>]
  <2>1. f \in Surjection(Path, {<<p>> : p \in Path})
    BY DEF Surjection
  <2> QED BY <2>1, PathAssumption, FS_Surjection
<1>2. IsFiniteSet(Key)
  BY <1>1, PathAssumption, FS_Union DEF Key
<1>3. \A T : IsFiniteSet(Key \cap T)
  BY <1>2, FS_Intersection
<1> QED BY <1>3

VisitOk(c, T, w) == IsList(w.order)
Next_(c, n)      == Brings(c.e, c.s, n)
OrderStep(c, w, t) ==
    LET left == Among(w.stack, LAMBDA x : NameOf(x) \notin w.met)
        x    == Last(left)
    IN IF left = <<>> THEN w
       ELSE [stack |-> Front(left) \o Items(Next_(c, x.n), TRUE), met |-> w.met \cup {NameOf(x)},
             order |-> Append(w.order, x)]
Ordering == INSTANCE Folding WITH Op <- OrderStep, Ok <- VisitOk

LEMMA OrderIs ==
    ASSUME NEW e, NEW s
    PROVE  IsList(Order(e, s))
<1>1. PICK c : c = [e |-> e, s |-> s]
  OBVIOUS
<1>2. c.e = e /\ c.s = s
  BY <1>1, Zenon
<1>3. PICK start : start = Queued(c.e)
  OBVIOUS
<1>4. PICK base : base = [stack |-> start, met |-> {}, order |-> <<>>]
  OBVIOUS
<1>5. PICK tags : tags = KeysFrom([i \in DOMAIN start |-> start[i].n], LAMBDA n : Next_(c, n))
  OBVIOUS
<1>6. Order(c.e, c.s) = Ordering!OverSet(c, base, tags).order
  BY <1>3, <1>4, <1>5 DEF Order, Visits, OrderStep, Next_, Ordering!OverSet, FoldSet, MapThenFoldSet,
         Ordering!MapThenFoldSet
<1>7. Ordering!IsFiniteSet(tags)
  <2>1. IsFiniteSet(tags)
    BY <1>5, KeyFinite DEF KeysFrom
  <2> QED BY <2>1 DEF IsFiniteSet, Ordering!IsFiniteSet
<1>8. VisitOk(c, {}, base)
  BY <1>4 DEF VisitOk, IsList
<1>9. \A T \in SUBSET tags : \A x \in tags \ T : \A w :
         VisitOk(c, T, w) => VisitOk(c, T \cup {x}, OrderStep(c, w, x))
  BY OneMore DEF VisitOk, OrderStep
<1>10. VisitOk(c, tags, Ordering!OverSet(c, base, tags))
  BY <1>7, <1>8, <1>9, Ordering!SetKeeps, Zenon
<1> QED BY <1>2, <1>6, <1>10, Zenon DEF VisitOk

LEMMA ListDomain ==
    ASSUME NEW q, IsList(q)
    PROVE  \E n \in Nat : DOMAIN q = 1..n
<1>1. PICK S : q \in Seq(S)
  BY DEF IsList
<1>2. Len(q) \in Nat /\ DOMAIN q = 1..Len(q)
  BY <1>1
<1> QED BY <1>2

GrownOk(c, T, a) == Grown(c.reg, c.known, a)

(* The declared inputs. *)
LEMMA MergedGrown ==
    ASSUME NEW reg, NEW known, NEW s, Grown(reg, known, s), NEW e, NEW n
    PROVE  Grown(reg, known, Merged(e, n, s))
<1> DEFINE rec  == stamp_records[n]
           more == [p \in {q \in DOMAIN rec.files : Says(e, "cc") => Is(q, "header")} |-> rec.files[p]]
<1>1. SameReg(s, [s EXCEPT !.covered = s.covered \cup rec.covers, !.merged = Append(s.merged, n),
                           !.inputs = s.inputs @@ more])
  <2> HIDE DEF more, rec
  <2> QED BY Fields, SetMerged, Zenon
<1>2. Grown(reg, known, [s EXCEPT !.covered = s.covered \cup rec.covers, !.merged = Append(s.merged, n),
                                  !.inputs = s.inputs @@ more])
  BY <1>1, SameGrown
<1> QED BY <1>2, Zenon DEF Merged

LEMMA InputGrown ==
    ASSUME NEW reg, NEW known, NEW s, Grown(reg, known, s), NEW e, NEW item
    PROVE  Grown(reg, known, Input(e, item, s))
<1> DEFINE n    == item.n
           took == TookFile(s, world.link[n])
<1>1. Grown(reg, known, took)
  BY TookFilesGrown
<1>2. SameReg(took, [took EXCEPT !.links = took.links \cup {n}])
  <2> HIDE DEF took, n
  <2> QED BY <1>1, Fields, SetLinks
<1>3. Grown(reg, known, [took EXCEPT !.links = took.links \cup {n}])
  BY <1>1, <1>2, SameGrown
<1>4. SameReg(s, [s EXCEPT !.store = s.store \cup {n}])
  <2> HIDE DEF n
  <2> QED BY Fields, SetStore
<1>5. Grown(reg, known, [s EXCEPT !.store = s.store \cup {n}])
  BY <1>4, SameGrown
<1>6. Grown(reg, known, TookFile(s, n)) /\ Grown(reg, known, Put(s, s.reg[n]))
  BY TookFilesGrown, PutGrown
<1> QED BY <1>3, <1>5, <1>6, Zenon DEF Input

LEMMA VisitedGrown ==
    ASSUME NEW reg, NEW known, NEW s, Grown(reg, known, s), NEW e, NEW item
    PROVE  Grown(reg, known, Visited(e, item, s))
BY MergedGrown, InputGrown DEF Visited

DrainStep(c, a, item) == Visited(c.e, item, a)
Draining == INSTANCE Folding WITH Op <- DrainStep, Ok <- GrownOk

LEMMA DrainedGrown ==
    ASSUME NEW reg, NEW known, NEW s, Grown(reg, known, s), NEW e
    PROVE  Grown(reg, known, Drained(e, s))
<1>1. PICK c : c = [e |-> e, reg |-> reg, known |-> known]
  OBVIOUS
<1>2. c.e = e /\ c.reg = reg /\ c.known = known
  BY <1>1, Zenon
<1>3. PICK q : q = Order(c.e, s)
  OBVIOUS
<1>4. PICK base : base = s
  OBVIOUS
<1>5. PICK n \in Nat : DOMAIN q = 1..n
  BY <1>2, <1>3, ListDomain, OrderIs
<1>6. GrownOk(c, {}, base)
  BY <1>2, <1>4, Zenon DEF GrownOk
<1>7. \A k \in 1..n : \A a :
         GrownOk(c, 1..(k - 1), a) => GrownOk(c, 1..k, DrainStep(c, a, q[k]))
  BY VisitedGrown DEF GrownOk, DrainStep
<1>8. GrownOk(c, 1..n, Draining!OverSeq(c, base, q))
  BY <1>5, <1>6, <1>7, Draining!SeqKeeps, Zenon
<1>9. Draining!OverSeq(c, base, q) = Drained(c.e, s)
  BY <1>3, <1>4 DEF Drained, DrainStep, Draining!OverSeq, FoldLeft, MapThenFoldSet,
         Draining!MapThenFoldSet, Max, Draining!Greatest
<1> QED BY <1>2, <1>8, <1>9, Zenon DEF GrownOk

(* What the command line names. *)
LEMMA RspGrown ==
    ASSUME NEW reg, NEW known, NEW s, Grown(reg, known, s), NEW e, NEW p
    PROVE  Grown(reg, known, RspFile(e, s, p))
<1>1. ASSUME NEW t, Grown(reg, known, t), NEW listed
      PROVE  Grown(reg, known, WithRsp(e, t, listed))
  <2> DEFINE u == TRUE
             v == IF Says(e, "syncqt") /\ SetToSeq({KeyOf(t.known, f) : f \in Files(listed)}) # <<>>
                  THEN [n \in Outs(e) |->
                          AddAll(IF n \in DOMAIN t.co THEN t.co[n] ELSE <<n>>,
                                 SetToSeq({KeyOf(t.known, f) : f \in Files(listed)}))] @@ t.co
                  ELSE t.co
             w == IF Says(e, "moc") /\ \E h \in Elems(SetToSeq({f \in listed : Is(f, "header")})) : Producer(h) # NoEdge
                  THEN SetToSeq({f \in listed : Is(f, "header")}) ELSE t.moc
  <2>1. WithRsp(e, t, listed) = [t EXCEPT !.rsp = TRUE, !.co = v, !.moc = w]
    BY Zenon DEF WithRsp
  <2> HIDE DEF v, w
  <2>2. SameReg(t, [t EXCEPT !.rsp = TRUE, !.co = v, !.moc = w])
    BY <1>1, Fields, SetRsp
  <2> QED BY <1>1, <2>1, <2>2, SameGrown
<1>2. Grown(reg, known, TookDirs(TookFiles(s, Files(world.rsp[p])), Dirs(world.rsp[p])))
  BY TookFilesGrown, TookDirsGrown
<1> QED BY <1>1, <1>2, Zenon DEF RspFile

LEMMA WordGrown ==
    ASSUME NEW reg, NEW known, NEW s, Grown(reg, known, s), NEW e, NEW w
    PROVE  Grown(reg, known, Word(e, s, w))
<1> DEFINE p     == w.path
           named == [s EXCEPT !.args = Append(s.args, p)]
<1>1. SameReg(s, named)
  <2> HIDE DEF p
  <2> QED BY Fields, SetArgs
<1>2. Grown(reg, known, named)
  BY <1>1, SameGrown
<1>3. Grown(reg, known, NodeArg(s, p))
  <2>1. \A f : Grown(reg, known, Put(named, f))
    <3> HIDE DEF named
    <3> QED BY <1>2, PutGrown
  <2>2. Grown(reg, known, TookFile(named, p))
    <3> HIDE DEF named, p
    <3> QED BY <1>2, TookFilesGrown
  <2> QED BY <1>2, <2>1, <2>2, Zenon DEF NodeArg
<1>4. Grown(reg, known, OtherWord(e, s, w))
  <2>1. /\ Grown(reg, known, RspFile(e, s, p)) /\ Grown(reg, known, TookFile(s, p))
        /\ Grown(reg, known, TookDirs(s, {p}))
    <3> HIDE DEF p
    <3> QED BY RspGrown, TookFilesGrown, TookDirsGrown
  <2> QED BY <1>2, <2>1, Zenon DEF OtherWord
<1> QED BY <1>3, <1>4, Zenon DEF Word

LEMMA WordsOrdered ==
    ASSUME NEW q, IsSequence(q)
    PROVE  IsList(q)
BY Zenon DEF IsSequence, IsList

LEMMA DepsGrown ==
    ASSUME NEW reg, NEW known, NEW s, Grown(reg, known, s), NEW v, NEW D
    PROVE  Grown(reg, known, TookDirs([s EXCEPT !.args = v], D))
<1>1. SameReg(s, [s EXCEPT !.args = v])
  BY Fields, SetArgs
<1>2. Grown(reg, known, [s EXCEPT !.args = v])
  BY <1>1, SameGrown
<1> QED BY <1>2, TookDirsGrown

WordStep(c, a, w) == Word(c.e, a, w)
Wording == INSTANCE Folding WITH Op <- WordStep, Ok <- GrownOk

LEMMA WordsGrown ==
    ASSUME NEW reg, NEW known, NEW s, Grown(reg, known, s), NEW e, IsSequence(world.words[e])
    PROVE  Grown(reg, known, Words(e, s))
<1>1. PICK c : c = [e |-> e, reg |-> reg, known |-> known]
  OBVIOUS
<1>2. c.e = e /\ c.reg = reg /\ c.known = known
  BY <1>1, Zenon
<1>3. PICK q : q = world.words[c.e]
  OBVIOUS
<1>4. PICK base : base = TookDirs([s EXCEPT !.args = Among(Values(c.e, "--deps"), LAMBDA p : p \in s.known)], SchemaDirs(c.e))
  OBVIOUS
<1>5. PICK n \in Nat : DOMAIN q = 1..n
  BY <1>2, <1>3, ListDomain, WordsOrdered
<1>6. GrownOk(c, {}, base)
  BY <1>2, <1>4, DepsGrown DEF GrownOk
<1>7. \A k \in 1..n : \A a :
         GrownOk(c, 1..(k - 1), a) => GrownOk(c, 1..k, WordStep(c, a, q[k]))
  BY WordGrown DEF GrownOk, WordStep
<1>8. GrownOk(c, 1..n, Wording!OverSeq(c, base, q))
  BY <1>5, <1>6, <1>7, Wording!SeqKeeps, Zenon
<1>9. Wording!OverSeq(c, base, q) = Words(c.e, s)
  BY <1>3, <1>4 DEF Words, WordStep, Wording!OverSeq, FoldLeft, MapThenFoldSet,
         Wording!MapThenFoldSet, Max, Wording!Greatest
<1> QED BY <1>2, <1>8, <1>9, Zenon DEF GrownOk


(* The readers. *)
LEMMA TreesGrown ==
    ASSUME NEW reg, NEW known, NEW s, Grown(reg, known, s), NEW e
    PROVE  Grown(reg, known, TreeReaders(e, s))
<1> DEFINE t == TookDirs(s, TreesRead(e))
<1>1. Grown(reg, known, t)
  BY TookDirsGrown
<1>2. ASSUME NEW v PROVE SameReg(t, [t EXCEPT !.store = v])
  <2> HIDE DEF t
  <2> QED BY <1>1, Fields, SetStore
<1>3. \A v : Grown(reg, known, [t EXCEPT !.store = v])
  BY <1>1, <1>2, SameGrown
<1> QED BY <1>3, Zenon DEF TreeReaders

LEMMA ReadersGrown ==
    ASSUME NEW reg, NEW known, NEW s, Grown(reg, known, s), NEW e
    PROVE  /\ Grown(reg, known, HeaderReaders(e, s)) /\ Grown(reg, known, FileReaders(e, s))
           /\ Grown(reg, known, TestDirs(e, s)) /\ Grown(reg, known, Blanket(e, s))
<1>1. \A F : Grown(reg, known, PutAll(s, F))
  BY PutGrown
<1>2. \A P : Grown(reg, known, TookFiles(s, P)) /\ Grown(reg, known, TookDirs(s, P))
  BY TookFilesGrown, TookDirsGrown
<1>3. Grown(reg, known, HeaderReaders(e, s)) /\ Grown(reg, known, FileReaders(e, s))
  BY <1>1, <1>2, Zenon DEF HeaderReaders, FileReaders
<1>4. Grown(reg, known, TestDirs(e, s))
  BY <1>2, Zenon DEF TestDirs
<1>5. Grown(reg, known, Blanket(e, s))
  BY <1>1, Zenon DEF Blanket
<1> QED BY <1>3, <1>4, <1>5

LEMMA DroppedGrown ==
    ASSUME NEW reg, NEW known, NEW s, Grown(reg, known, s), NEW e
    PROVE  /\ Grown(reg, known, OwnDropped(e, s)) /\ Grown(reg, known, AutogenDropped(e, s))
           /\ Grown(reg, known, SyncqtDropped(e, s)) /\ Grown(reg, known, Swept(e, s))
<1>1. \A P : Grown(reg, known, Dropped(s, P))
  BY PutGrown
<1> QED BY <1>1, Zenon DEF OwnDropped, AutogenDropped, SyncqtDropped, Swept

LEMMA FilledGrown ==
    ASSUME NEW reg, NEW known, NEW s, Grown(reg, known, s), NEW e
    PROVE  /\ Grown(reg, known, RootSrcJoins(e, s)) /\ Grown(reg, known, PyDeps(e, s))
           /\ Grown(reg, known, NodePackages(s)) /\ Grown(reg, known, Templates(s))
           /\ Grown(reg, known, ResourceIds(e, s))
<1>1. \A P : Grown(reg, known, Filled(s, P)) /\ Grown(reg, known, FilledDirs(s, P))
  BY TookGrown, TookDirsGrown
<1>2. Grown(reg, known, RootSrcJoins(e, s)) /\ Grown(reg, known, PyDeps(e, s))
  BY <1>1, Zenon DEF RootSrcJoins, PyDeps
<1>3. Grown(reg, known, NodePackages(s))
  BY <1>1, Zenon DEF NodePackages
<1>4. Grown(reg, known, Templates(s)) /\ Grown(reg, known, ResourceIds(e, s))
  BY <1>1, Zenon DEF Templates, ResourceIds
<1> QED BY <1>2, <1>3, <1>4

LEMMA SiblingsGrown ==
    ASSUME NEW reg, NEW known, NEW s, Grown(reg, known, s), NEW e
    PROVE  Grown(reg, known, PythonSiblings(e, s))
<1> DEFINE dirs == ScriptDirs(Files(DOMAIN s.inputs)) \cup ModuleDirs(e)
           kept == dirs \ PyRefused(s, dirs)
           more == ClosureFiles(s, kept)
           rest == [p \in DOMAIN more \ DOMAIN s.inputs |-> more[p]]
<1>1. dirs \subseteq DOMAIN world.under
  <2>1. ScriptDirs(Files(DOMAIN s.inputs)) \subseteq DOMAIN world.under
    BY DEF ScriptDirs
  <2>2. ModuleDirs(e) \subseteq DOMAIN world.under
    BY DEF ModuleDirs, Package, Dirs
  <2> QED BY <2>1, <2>2
<1>2. kept \in SUBSET DOMAIN world.under
  <2> HIDE DEF dirs
  <2> QED BY <1>1
<1> HIDE DEF kept
<1>3. /\ \A p \in DOMAIN more : ~IsBuilt(more[p])
      /\ Grown(reg, known, Walked(s, kept))
  BY <1>2, ClosuresAre
<1>4. \A p \in DOMAIN rest : ~IsBuilt(rest[p])
  <2> HIDE DEF more
  <2> QED BY <1>3
<1> HIDE DEF rest
<1>5. Grown(reg, known, TookAs(Walked(s, kept), rest))
  BY <1>3, <1>4, TookAsGrown
<1>6. Grown(reg, known, Failed(s))
  BY FailedGrown
<1> QED BY <1>5, <1>6, Zenon DEF PythonSiblings, kept, dirs, rest, more

LEMMA ReboundGrown ==
    ASSUME NEW reg, NEW known, NEW s, Grown(reg, known, s)
    PROVE  Grown(reg, known, Rebound(s))
<1>1. \A v : SameReg(s, [s EXCEPT !.inputs = v])
  BY Fields, SetInputs
<1>2. \A v : Grown(reg, known, [s EXCEPT !.inputs = v])
  BY <1>1, SameGrown
<1> QED BY <1>2, Zenon DEF Rebound

(* What a named output's edge writes with it. *)
LEMMA NodeGrown ==
    ASSUME NEW reg, NEW known, NEW s, Grown(reg, known, s), NEW n
    PROVE  Grown(reg, known, PutNode(s, n))
BY PutGrown DEF PutNode

NodeStep(c, a, n) == PutNode(a, n)
Putting == INSTANCE Folding WITH Op <- NodeStep, Ok <- GrownOk

WithIt(c, n) == At(c.s.co, n)
BesideStep(c, w, t) ==
    LET left == Among(w.stack, LAMBDA x : x \notin w.met)
        x    == Last(left)
    IN IF left = <<>> THEN w
       ELSE [stack |-> Front(left) \o WithIt(c, x), met |-> w.met \cup {x}, order |-> Append(w.order, x)]
Expanding == INSTANCE Folding WITH Op <- BesideStep, Ok <- VisitOk

LEMMA ExpandedGrown ==
    ASSUME NEW reg, NEW known, NEW s, Grown(reg, known, s)
    PROVE  Grown(reg, known, WordsExpanded(s))
<1>1. PICK c : c = [s |-> s, reg |-> reg, known |-> known]
  OBVIOUS
<1>2. c.s = s /\ c.reg = reg /\ c.known = known
  BY <1>1, Zenon
<1>3. PICK start : start = c.s.args
  OBVIOUS
<1>4. PICK w0 : w0 = [stack |-> start, met |-> {}, order |-> <<>>]
  OBVIOUS
<1>5. PICK tags : tags = KeysFrom(start, LAMBDA n : WithIt(c, n))
  OBVIOUS
<1>6. PICK q : q = NamedOrder(c.s)
  OBVIOUS
<1>7. IsList(q)
  <2>1. IsFiniteSet(tags)
    BY <1>5, KeyFinite DEF KeysFrom
  <2>2. Expanding!IsFiniteSet(tags)
    BY <2>1 DEF IsFiniteSet, Expanding!IsFiniteSet
  <2>3. VisitOk(c, {}, w0)
    BY <1>4 DEF VisitOk, IsList
  <2>4. \A T \in SUBSET tags : \A x \in tags \ T : \A w :
           VisitOk(c, T, w) => VisitOk(c, T \cup {x}, BesideStep(c, w, x))
    BY OneMore DEF VisitOk, BesideStep
  <2>5. VisitOk(c, tags, Expanding!OverSet(c, w0, tags))
    BY <2>2, <2>3, <2>4, Expanding!SetKeeps, Zenon
  <2>6. NamedOrder(c.s) = Expanding!OverSet(c, w0, tags).order
    BY <1>3, <1>4, <1>5 DEF NamedOrder, Visits, BesideStep, WithIt, Expanding!OverSet, FoldSet, MapThenFoldSet,
           Expanding!MapThenFoldSet
  <2> QED BY <1>6, <2>5, <2>6, Zenon DEF VisitOk
<1>8. PICK n \in Nat : DOMAIN q = 1..n
  BY <1>7, ListDomain
<1>9. PICK base : base = c.s
  OBVIOUS
<1>10. GrownOk(c, {}, base)
  BY <1>2, <1>9 DEF GrownOk
<1>11. \A k \in 1..n : \A a :
         GrownOk(c, 1..(k - 1), a) => GrownOk(c, 1..k, NodeStep(c, a, q[k]))
  BY NodeGrown DEF GrownOk, NodeStep
<1>12. GrownOk(c, 1..n, Putting!OverSeq(c, base, q))
  BY <1>8, <1>10, <1>11, Putting!SeqKeeps, Zenon
<1>13. Putting!OverSeq(c, base, q) = WordsExpanded(c.s)
  BY <1>6, <1>9 DEF WordsExpanded, NodeStep, Putting!OverSeq, FoldLeft, MapThenFoldSet,
         Putting!MapThenFoldSet, Max, Putting!Greatest
<1> QED BY <1>2, <1>12, <1>13, Zenon DEF GrownOk


Produced_(c, q)     == Among(q, LAMBDA n : n \in DOMAIN c.s.reg)
MadeWith(c, n) == Produced_(c, Among(At(c.s.co, n), LAMBDA m : m # n))
CarryStep(c, w, t) ==
    LET left == Among(w.stack, LAMBDA x : c.s.reg[x].path \notin w.met)
        x    == Last(left)
    IN IF left = <<>> THEN w
       ELSE [stack |-> Front(left) \o MadeWith(c, x), met |-> w.met \cup {c.s.reg[x].path},
             order |-> Append(w.order, x)]
Carrying_ == INSTANCE Folding WITH Op <- CarryStep, Ok <- VisitOk

LEMMA CarriedGrown ==
    ASSUME NEW reg, NEW known, NEW s, Grown(reg, known, s), NEW stack
    PROVE  Grown(reg, known, Carried(s, stack))
<1>1. PICK c : c = [s |-> s, reg |-> reg, known |-> known]
  OBVIOUS
<1>2. c.s = s /\ c.reg = reg /\ c.known = known
  BY <1>1, Zenon
<1>3. PICK start : start = Produced_(c, stack)
  OBVIOUS
<1>4. PICK w0 : w0 = [stack |-> start, met |-> DOMAIN c.s.inputs, order |-> <<>>]
  OBVIOUS
<1>5. PICK tags : tags = KeysFrom(start, LAMBDA n : MadeWith(c, n))
  OBVIOUS
<1>6. PICK q : q = MadeOrder(c.s, stack)
  OBVIOUS
<1>7. IsList(q)
  <2>1. IsFiniteSet(tags)
    BY <1>5, KeyFinite DEF KeysFrom
  <2>2. Carrying_!IsFiniteSet(tags)
    BY <2>1 DEF IsFiniteSet, Carrying_!IsFiniteSet
  <2>3. VisitOk(c, {}, w0)
    BY <1>4 DEF VisitOk, IsList
  <2>4. \A T \in SUBSET tags : \A x \in tags \ T : \A w :
           VisitOk(c, T, w) => VisitOk(c, T \cup {x}, CarryStep(c, w, x))
    BY OneMore DEF VisitOk, CarryStep
  <2>5. VisitOk(c, tags, Carrying_!OverSet(c, w0, tags))
    BY <2>2, <2>3, <2>4, Carrying_!SetKeeps, Zenon
  <2>6. MadeOrder(c.s, stack) = Carrying_!OverSet(c, w0, tags).order
    BY <1>3, <1>4, <1>5 DEF MadeOrder, Visits, CarryStep, MadeWith, Produced_, Carrying_!OverSet, FoldSet, MapThenFoldSet,
           Carrying_!MapThenFoldSet
  <2> QED BY <1>6, <2>5, <2>6, Zenon DEF VisitOk
<1>8. PICK n \in Nat : DOMAIN q = 1..n
  BY <1>7, ListDomain
<1>9. PICK base : base = c.s
  OBVIOUS
<1>10. GrownOk(c, {}, base)
  BY <1>2, <1>9 DEF GrownOk
<1>11. \A k \in 1..n : \A a :
         GrownOk(c, 1..(k - 1), a) => GrownOk(c, 1..k, NodeStep(c, a, q[k]))
  BY NodeGrown DEF GrownOk, NodeStep
<1>12. GrownOk(c, 1..n, Putting!OverSeq(c, base, q))
  BY <1>8, <1>10, <1>11, Putting!SeqKeeps, Zenon
<1>13. Putting!OverSeq(c, base, q) = Carried(c.s, stack)
  BY <1>6, <1>9 DEF Carried, NodeStep, Putting!OverSeq, FoldLeft, MapThenFoldSet,
         Putting!MapThenFoldSet, Max, Putting!Greatest
<1> QED BY <1>2, <1>12, <1>13, Zenon DEF GrownOk


(* Files named to the linker. *)
LEMMA LinkerGrown ==
    ASSUME NEW reg, NEW known, NEW s, Grown(reg, known, s), NEW w
    PROVE  Grown(reg, known, LinkerWord(s, w))
<1>1. \A f : Grown(reg, known, FillOne(s, f))
  BY PutGrown DEF FillOne
<1>2. \A P : Grown(reg, known, Filled(s, P))
  BY TookGrown
<1> QED BY <1>1, <1>2, Zenon DEF LinkerWord

LinkStep(c, a, w) == LinkerWord(a, w)
Linking == INSTANCE Folding WITH Op <- LinkStep, Ok <- GrownOk

LEMMA LinkersGrown ==
    ASSUME NEW reg, NEW known, NEW s, Grown(reg, known, s), NEW e, IsSequence(world.argv[e])
    PROVE  Grown(reg, known, LinkerWords(e, s))
<1>1. PICK c : c = [e |-> e, reg |-> reg, known |-> known]
  OBVIOUS
<1>2. c.e = e /\ c.reg = reg /\ c.known = known
  BY <1>1, Zenon
<1>3. PICK q : q = world.argv[c.e]
  OBVIOUS
<1>4. PICK base : base = s
  OBVIOUS
<1>5. PICK n \in Nat : DOMAIN q = 1..n
  BY <1>2, <1>3, ListDomain, WordsOrdered
<1>6. GrownOk(c, {}, base)
  BY <1>2, <1>4, Zenon DEF GrownOk
<1>7. \A k \in 1..n : \A a :
         GrownOk(c, 1..(k - 1), a) => GrownOk(c, 1..k, LinkStep(c, a, q[k]))
  BY LinkerGrown DEF GrownOk, LinkStep
<1>8. GrownOk(c, 1..n, Linking!OverSeq(c, base, q))
  BY <1>5, <1>6, <1>7, Linking!SeqKeeps, Zenon
<1>9. Linking!OverSeq(c, base, q) = LinkerWords(c.e, s)
  BY <1>3, <1>4 DEF LinkerWords, LinkStep, Linking!OverSeq, FoldLeft, MapThenFoldSet,
         Linking!MapThenFoldSet, Max, Linking!Greatest
<1> QED BY <1>2, <1>8, <1>9, Zenon DEF GrownOk


(* A list's members. *)
MemberStep(c, a, p) == IF p \in Outs(c.e) THEN a ELSE Carried(a, <<p>>)
Membering == INSTANCE Folding WITH Op <- MemberStep, Ok <- GrownOk

LEMMA AllCarriedGrown ==
    ASSUME NEW reg, NEW known, NEW s, Grown(reg, known, s), NEW e, NEW read, IsList(read)
    PROVE  Grown(reg, known, AllCarried(e, s, read))
<1>1. PICK c : c = [e |-> e, reg |-> reg, known |-> known]
  OBVIOUS
<1>2. c.e = e /\ c.reg = reg /\ c.known = known
  BY <1>1, Zenon
<1>3. PICK q : q = read
  OBVIOUS
<1>4. PICK base : base = s
  OBVIOUS
<1>5. PICK n \in Nat : DOMAIN q = 1..n
  BY <1>2, <1>3, ListDomain
<1>6. GrownOk(c, {}, base)
  BY <1>2, <1>4, Zenon DEF GrownOk
<1>7. \A k \in 1..n : \A a :
         GrownOk(c, 1..(k - 1), a) => GrownOk(c, 1..k, MemberStep(c, a, q[k]))
  BY CarriedGrown DEF GrownOk, MemberStep
<1>8. GrownOk(c, 1..n, Membering!OverSeq(c, base, q))
  BY <1>5, <1>6, <1>7, Membering!SeqKeeps, Zenon
<1>9. Membering!OverSeq(c, base, q) = AllCarried(c.e, s, read)
  BY <1>3, <1>4 DEF AllCarried, MemberStep, Membering!OverSeq, FoldLeft, MapThenFoldSet,
         Membering!MapThenFoldSet, Max, Membering!Greatest
<1> QED BY <1>2, <1>8, <1>9, Zenon DEF GrownOk


LEMMA SetToSeqLists ==
    ASSUME NEW S, IsFiniteSet(S)
    PROVE  IsList(SetToSeq(S))
<1>1. ExistsBijection(1..Cardinality(S), S)
  BY FS_CardinalityType
<1>2. \E f \in [1..Cardinality(S) -> S] : IsInjective(f)
  BY <1>1 DEF ExistsBijection, Bijection, Injection, IsInjective
<1>3. SetToSeq(S) \in [1..Cardinality(S) -> S]
  BY <1>2 DEF SetToSeq
<1>4. Cardinality(S) \in Nat
  BY FS_CardinalityType
<1>5. SetToSeq(S) \in Seq(S)
  BY <1>3, <1>4
<1> QED BY <1>5, Zenon DEF IsList

LEMMA MembersGrown ==
    ASSUME NEW reg, NEW known, NEW s, Grown(reg, known, s), NEW e, NEW P
    PROVE  Grown(reg, known, Members(e, s, P))
<1> DEFINE q       == SetToSeq(P \cap Path)
           missing == {i \in DOMAIN q : Missing(e, s, q[i])}
           read    == SubSeq(q, 1, IF missing = {} THEN Len(q) ELSE Min(missing) - 1)
           t       == AllCarried(e, s, read)
<1>1. IsFiniteSet(P \cap Path)
  BY PathAssumption, FS_Intersection
<1>2. PICK S : q \in Seq(S)
  <2> HIDE DEF q
  <2>1. IsList(q)
    BY <1>1, SetToSeqLists DEF q
  <2> QED BY <2>1 DEF IsList
<1> HIDE DEF q
<1>3. missing \subseteq 1..Len(q) /\ missing \subseteq Nat
  BY <1>2
<1>4. missing # {} => Min(missing) \in missing
  <2>1. missing # {} => \E x \in missing : \A y \in missing : x <= y
    <3> HIDE DEF missing
    <3> QED BY <1>3, Membering!LeastNat
  <2> QED BY <2>1 DEF Min
<1>5. IsList(read)
  <2>1. \A n \in 0..Len(q) : SubSeq(q, 1, n) \in Seq(S)
    BY <1>2, SubSeqProperties
  <2>2. (IF missing = {} THEN Len(q) ELSE Min(missing) - 1) \in 0..Len(q)
    <3>1. Len(q) \in 0..Len(q)
      BY <1>2
    <3>2. ASSUME missing # {} PROVE Min(missing) - 1 \in 0..Len(q)
      <4>1. Min(missing) \in 1..Len(q) /\ Len(q) \in Nat
        BY <1>2, <1>3, <1>4, <3>2
      <4> QED BY <4>1
    <3> HIDE DEF missing
    <3> QED BY <3>1, <3>2
  <2>3. read \in Seq(S)
    <3> HIDE DEF missing
    <3> QED BY <2>1, <2>2
  <2> QED BY <2>3, Zenon DEF IsList
<1> HIDE DEF read
<1>6. Grown(reg, known, t)
  BY <1>5, AllCarriedGrown
<1>7. \A v : SameReg(t, [t EXCEPT !.defer = v])
  <2> HIDE DEF t
  <2> QED BY <1>6, Fields, SetDefer
<1>8. \A v : Grown(reg, known, [t EXCEPT !.defer = v])
  BY <1>6, <1>7, SameGrown
<1> QED BY <1>6, <1>8, Zenon DEF Members, t, read, missing, q

(* The lists that lists name. *)
ListOk(c, T, w)   == "s" \in DOMAIN w /\ Grown(c.reg, c.known, w.s)
ListStep(c, w, p) == NextList(c.e, w)
Reading == INSTANCE Folding WITH Op <- ListStep, Ok <- ListOk

LEMMA ReadGrown ==
    ASSUME NEW c, NEW T, NEW w, ListOk(c, T, w), NEW U, NEW p
    PROVE  ListOk(c, U, ListStep(c, w, p))
<1>1. ASSUME NEW g PROVE ListOk(c, U, ReadList(c.e, w, g))
  <2> DEFINE s   == w.s
             new == GrdCarries(g) \ DOMAIN s.inputs
             m   == Members(c.e, Filled(s, new), GrdCandidates(g))
             d   == [s EXCEPT !.defer = {g}]
  <2>1. Grown(c.reg, c.known, s)
    BY DEF ListOk
  <2>2. Grown(c.reg, c.known, Filled(s, new))
    BY <2>1, TookGrown
  <2>3. Grown(c.reg, c.known, m)
    BY <2>2, MembersGrown
  <2>4. SameReg(s, d)
    <3> HIDE DEF s
    <3> QED BY <2>1, Fields, SetDefer
  <2>5. Grown(c.reg, c.known, d)
    BY <2>1, <2>4, SameGrown
  <2>6. \A a, b : Grown(c.reg, c.known, a) => ListOk(c, U, [s |-> a, todo |-> b])
    BY DEF ListOk
  <2>7. ListOk(c, U, [w EXCEPT !.todo = w.todo \ {g}])
    BY DEF ListOk
  <2> QED BY <2>3, <2>5, <2>6, <2>7, Zenon DEF ReadList
<1> QED BY <1>1, Zenon DEF ListStep, NextList, ListOk

LEMMA ListedGrown ==
    ASSUME NEW reg, NEW known, NEW s, Grown(reg, known, s), NEW e
    PROVE  Grown(reg, known, Listed(e, s))
<1>1. PICK c : c = [e |-> e, reg |-> reg, known |-> known]
  OBVIOUS
<1>2. c.e = e /\ c.reg = reg /\ c.known = known
  BY <1>1, Zenon
<1>3. PICK base : base = [s |-> s, todo |-> Lists(s)]
  OBVIOUS
<1>4. PICK pages : pages = {p \in Path : Is(p, "list")}
  OBVIOUS
<1>5. Reading!IsFiniteSet(pages)
  <2>1. IsFiniteSet(pages)
    BY <1>4, PathAssumption, FS_Subset
  <2> QED BY <2>1 DEF IsFiniteSet, Reading!IsFiniteSet
<1>6. ListOk(c, {}, base)
  BY <1>2, <1>3 DEF ListOk
<1>7. ListOk(c, pages, Reading!OverSet(c, base, pages))
  <2>1. \A T \in SUBSET pages : \A x \in pages \ T : \A w :
           ListOk(c, T, w) => ListOk(c, T \cup {x}, ListStep(c, w, x))
    BY ReadGrown, Zenon
  <2> QED BY <1>5, <1>6, <2>1, Reading!SetKeeps, Zenon
<1>8. Listed(c.e, s) = Reading!OverSet(c, base, pages).s
  BY <1>3, <1>4 DEF Listed, ListStep, Reading!OverSet, FoldSet, MapThenFoldSet,
         Reading!MapThenFoldSet
<1> QED BY <1>2, <1>7, <1>8, Zenon DEF ListOk

LEMMA ProtoGrown ==
    ASSUME NEW reg, NEW known, NEW s, Grown(reg, known, s), NEW e
    PROVE  /\ Grown(reg, known, ProtoModules(e, s)) /\ Grown(reg, known, QrcMembers(e, s))
           /\ Grown(reg, known, ResourceLists(e, s))
BY CarriedGrown, MembersGrown, ListedGrown, Zenon DEF ProtoModules, QrcMembers, ResourceLists

(* The stages together. *)
LEMMA Stages_ ==
    /\ DOMAIN Stages = 1..23
    /\ \A k \in 1..23 : Stages[k] \in
          {"declared", "words", "trees", "headers", "tests", "files", "beside", "blanket",
           "own", "autogen", "syncqt", "scripts", "joins", "proto", "pydeps", "packages",
           "linker", "templates", "lists", "spec", "qrc", "rebind", "sweep"}
BY DEF Stages

LEMMA StageGrown ==
    ASSUME NEW reg, NEW known, NEW s, Grown(reg, known, s), NEW e,
           IsSequence(world.words[e]), IsSequence(world.argv[e]),
           NEW k \in 1..23
    PROVE  Grown(reg, known, Stage(e, s, Stages[k]))
<1>1. /\ Grown(reg, known, Drained(e, s)) /\ Grown(reg, known, Words(e, s))
      /\ Grown(reg, known, TreeReaders(e, s)) /\ Grown(reg, known, WordsExpanded(s))
      /\ Grown(reg, known, PythonSiblings(e, s)) /\ Grown(reg, known, LinkerWords(e, s))
      /\ Grown(reg, known, Rebound(s))
  BY DrainedGrown, WordsGrown, TreesGrown, ExpandedGrown, SiblingsGrown, LinkersGrown, ReboundGrown
<1> QED BY <1>1, Stages_, ReadersGrown, DroppedGrown, FilledGrown, ProtoGrown, Zenon DEF Stage

StageStep(c, s, stage) == Stage(c.e, s, stage)
Staging == INSTANCE Folding WITH Op <- StageStep, Ok <- GrownOk

LEMMA NewTaskGrown ==
    ASSUME NEW reg, NEW known, NEW e, Grown(reg, known, Idle(e)),
           IsSequence(world.words[e]), IsSequence(world.argv[e])
    PROVE  Grown(reg, known, NewTask(e))
<1>1. PICK c : c = [e |-> e, reg |-> reg, known |-> known]
  OBVIOUS
<1>2. c.e = e /\ c.reg = reg /\ c.known = known
  BY <1>1, Zenon
<1>3. PICK base : base = Idle(c.e)
  OBVIOUS
<1>4. GrownOk(c, {}, base)
  BY <1>2, <1>3, Zenon DEF GrownOk
<1>5. \A k \in 1..23 : \A a :
         GrownOk(c, 1..(k - 1), a) => GrownOk(c, 1..k, StageStep(c, a, Stages[k]))
  BY <1>2, StageGrown DEF GrownOk, StageStep
<1>6. GrownOk(c, 1..23, Staging!OverSeq(c, base, Stages))
  <2>1. 23 \in Nat
    OBVIOUS
  <2> QED BY <2>1, <1>4, <1>5, Stages_, Staging!SeqKeeps, Zenon
<1>7. Staging!OverSeq(c, base, Stages) = NewTask(c.e)
  BY <1>3 DEF NewTask, StageStep, Staging!OverSeq, FoldLeft, MapThenFoldSet,
         Staging!MapThenFoldSet, Max, Staging!Greatest
<1> QED BY <1>2, <1>6, <1>7, Zenon DEF GrownOk

LEMMA ClosureUploads ==
    ASSUME NEW d
    PROVE  \A p \in DOMAIN PyClosure(d).files : ~IsBuilt(PyClosure(d).files[p])
<1>1. PICK P : P = Searched(d).files \cup UNION {world.under[x] : x \in Searched(d).whole}
  OBVIOUS
<1>2. PyClosure(d).files = [p \in P |-> Upload(p)]
  BY <1>1, Zenon DEF PyClosure, Carrying
<1> QED BY <1>2, UploadIs

LEMMA IdleGrown ==
    ASSUME NEW e, AsUploads(py_closures)
    PROVE  Grown(derived_files, nodes, Idle(e))
<1>1. PICK r : r = Idle(e)
  OBVIOUS
<1>2. PICK walk : walk = [d \in DOMAIN world.under |-> PyClosure(d)]
  OBVIOUS
<1>3. AsUploads(walk)
  BY <1>2, ClosureUploads DEF AsUploads
<1>4. r.reg = derived_files /\ r.known = nodes /\ r.py = py_closures /\ r.walk = walk
  BY <1>1, <1>2, Zenon DEF Idle
<1>5. TaskFields \subseteq DOMAIN r
  BY <1>1 DEF Idle, TaskFields
<1>6. DOMAIN walk = DOMAIN world.under
  BY <1>2
<1> QED BY <1>1, <1>3, <1>4, <1>5, <1>6 DEF Grown
-----------------------------------------------------------------------------
(* Results on their way, and what is registered of them *)

(* Steps, as far as the registry and the results on their way go: one that *)
(* answers nothing, one that sends the result of an edge, and one that     *)
(* takes the first result.                                                 *)
Kept == derived_files' = derived_files /\ nodes' = nodes /\ py_closures' = py_closures
Tasked(e) ==
    /\ derived_files' = NewTask(e).reg /\ nodes' = NewTask(e).known /\ py_closures' = NewTask(e).py
Early == {"want", "running", "assembled"}
Calm ==
    /\ channel' = channel /\ received' = received /\ emitted' = emitted
    /\ DOMAIN phase' = Edge
    /\ \A e \in Edge : phase'[e] = phase[e] \/ (phase[e] \in Early /\ phase'[e] \in Early)
    /\ Kept \/ \E e \in Edge : Tasked(e)

(* The results of an edge: none of files, the local files, or all that the *)
(* command of a derivation writes.                                         *)
Empty(e, r)  == r.edge = e /\ r.files = <<>> /\ r.dirs = {}
Local_(e, r) ==
    /\ Says(e, "local") /\ r.edge = e /\ r.dirs = {} /\ IsList(r.files)
    /\ \A j \in DOMAIN r.files : r.files[j].path \in Outs(e) /\ ~IsBuilt(r.files[j].obj)
Full(e, r) ==
    /\ r.edge = e /\ r.dirs = EditedTrees(e) /\ r.err = "" /\ r.defer = {}
    /\ r.files = OutputFiles(e, Registers(e))
Responds(e, r) ==
    /\ phase[e] \in Early /\ phase' = [phase EXCEPT ![e] = "answered"]
    /\ channel' = Append(channel, r) /\ received' = received
    /\ Kept
Breaks(e, r)  ==
    /\ Empty(e, r) /\ r.err # ""
    /\ DOMAIN emitted' = Edge /\ \A f \in Edge \ {e} : emitted'[f] = emitted[f]
DefersOrNames(e, r) == Empty(e, r) /\ (r.defer # {} \/ Says(e, "phony")) /\ emitted' = emitted
Shipped(e, r) ==
    /\ Full(e, r)
    /\ \/ phase[e] = "running" /\ Working(e) /\ Reusable(e)
            /\ emitted' = [emitted EXCEPT ![e] = world.emitted[e]]
       \/ phase[e] = "assembled"
            /\ \E d : d.outs = built[e].outs /\ emitted' = [emitted EXCEPT ![e] = d]
Sends(e, r) ==
    /\ Responds(e, r)
    /\ Breaks(e, r) \/ DefersOrNames(e, r) \/ (Local_(e, r) /\ emitted' = emitted) \/ Shipped(e, r)
Takes(r) ==
    /\ channel # <<>> /\ r = Head(channel) /\ channel' = Tail(channel)
    /\ emitted' = emitted /\ py_closures' = py_closures
    /\ \/ /\ \/ phase' = [phase EXCEPT ![r.edge] = "failed"]
             \/ phase' = [phase EXCEPT ![r.edge] = "want"] /\ r.err = "" /\ r.defer # {}
          /\ received' = received /\ Kept
       \/ /\ r.err = "" /\ r.defer = {}
          /\ phase' = [phase EXCEPT ![r.edge] = "done"] /\ received' = Append(received, r.edge)
          /\ derived_files' = RecordAll(derived_files, nodes, r)
          /\ nodes' = nodes \cup {KeyOf(nodes, f.path) : f \in Elems(r.files)}

LEMMA ResultIs ==
    ASSUME NEW e
    PROVE  /\ Result(e).edge = e /\ Result(e).files = <<>> /\ Result(e).dirs = {}
           /\ \A v : LET r == [Result(e) EXCEPT !.err = v]
                     IN r.err = v /\ Empty(e, r)
           /\ \A v : LET r == [Result(e) EXCEPT !.defer = v]
                     IN r.defer = v /\ Empty(e, r)
           /\ \A v : LET r == [Result(e) EXCEPT !.files = v]
                     IN r.files = v /\ r.edge = e /\ r.dirs = {}
           /\ \A u, v, w : LET r == [Result(e) EXCEPT !.files = u, !.side = v, !.dirs = w]
                           IN r.files = u /\ r.edge = e /\ r.dirs = w
BY DEF Result, Empty

LEMMA FinishedOk ==
    ASSUME NEW e
    PROVE  Finished(e).err = "" /\ Finished(e).defer = {}
<1>1. PICK u, v, w : u = OutputFiles(e, Registers(e)) /\ v = SideFiles(e, tasks[e]) /\ w = EditedTrees(e)
  OBVIOUS
<1>2. PICK r : r = [Result(e) EXCEPT !.files = u, !.side = v, !.dirs = w]
  OBVIOUS
<1>3. r = Finished(e)
  BY <1>1, <1>2, Zenon DEF Finished
<1>4. r = [edge |-> e, files |-> u, side |-> v, dirs |-> w, defer |-> {}, err |-> ""]
  BY <1>2 DEF Result
<1>5. r.err = "" /\ r.defer = {}
  BY <1>4
<1> QED BY <1>3, <1>5, Zenon

LEMMA FinishedIs ==
    ASSUME NEW e
    PROVE  Full(e, Finished(e))
<1>1. PICK u, v, w : u = OutputFiles(e, Registers(e)) /\ v = SideFiles(e, tasks[e]) /\ w = EditedTrees(e)
  OBVIOUS
<1>2. Finished(e) = [Result(e) EXCEPT !.files = u, !.side = v, !.dirs = w]
  BY <1>1, Zenon DEF Finished
<1>3. PICK r : r = Finished(e)
  OBVIOUS
<1>4. r.files = u /\ r.edge = e /\ r.dirs = w
  BY <1>2, <1>3, ResultIs
<1> QED BY <1>1, <1>3, <1>4, FinishedOk, Zenon DEF Full

LEMMA SetToSeqIn ==
    ASSUME NEW S, IsFiniteSet(S)
    PROVE  /\ DOMAIN SetToSeq(S) = 1..Cardinality(S) /\ IsList(SetToSeq(S))
           /\ \A i \in DOMAIN SetToSeq(S) : SetToSeq(S)[i] \in S
           /\ \A x \in S : \E i \in DOMAIN SetToSeq(S) : SetToSeq(S)[i] = x
<1>1. PICK f : f = SetToSeq(S)
  OBVIOUS
<1>2. IsList(f)
  BY <1>1, SetToSeqLists
<1>3. ExistsBijection(1..Cardinality(S), S)
  BY FS_CardinalityType
<1>4. \E g \in [1..Cardinality(S) -> S] : IsInjective(g)
  BY <1>3 DEF ExistsBijection, Bijection, Injection, IsInjective
<1>5. f \in [1..Cardinality(S) -> S] /\ IsInjective(f)
  BY <1>1, <1>4 DEF SetToSeq
<1>6. f \in Surjection(1..Cardinality(S), S)
  <2>1. f \in Injection(1..Cardinality(S), S)
    BY <1>5 DEF Injection, IsInjective
  <2>2. Cardinality(S) \in Nat
    BY FS_CardinalityType
  <2>3. IsFiniteSet(1..Cardinality(S)) /\ Cardinality(1..Cardinality(S)) = Cardinality(S)
    <3>1. \A n \in Nat : IsFiniteSet(1..n) /\ Cardinality(1..n) = n
      BY FS_Interval
    <3> QED BY <2>2, <3>1
  <2>4. Cardinality(1..Cardinality(S)) = Cardinality(S) <=> f \in Surjection(1..Cardinality(S), S)
    BY <2>1, FS_Injection
  <2> QED BY <2>3, <2>4
<1> QED BY <1>1, <1>2, <1>5, <1>6 DEF Surjection

LEMMA ListOf ==
    ASSUME NEW q, NEW n \in Nat, DOMAIN q = 1..n, q = [i \in DOMAIN q |-> q[i]]
    PROVE  IsList(q)
<1>1. q \in [1..n -> {q[i] : i \in 1..n}]
  OBVIOUS
<1>2. q \in Seq({q[i] : i \in 1..n})
  BY <1>1
<1> QED BY <1>2, Zenon DEF IsList

LEMMA OutsFinite ==
    ASSUME SameWorld, NEW e \in Edge
    PROVE  IsFiniteSet(Outs(e))
<1>1. PICK w \in Worlds : \A x \in Fixed : world[x] = w[x]
  BY DEF SameWorld
<1>2. world.outs = w.outs
  BY <1>1 DEF Fixed
<1>3. Outs(e) \subseteq Path
  BY <1>2, OutputsAssumption DEF Outs
<1> QED BY <1>3, PathAssumption, FS_Subset

LEMMA StartSteps ==
    ASSUME Drafts, NEW e \in Edge
    PROVE  /\ StartPhony(e) => Sends(e, Result(e))
           /\ StartTask(e) \/ StartLocal(e) => Calm
<1> USE DEF Drafts
<1>1. ASSUME StartPhony(e) PROVE Sends(e, Result(e))
  <2>1. Empty(e, Result(e))
    BY ResultIs DEF Empty
  <2> QED BY <1>1, <2>1 DEF StartPhony, Sends, Responds, Answer, IsReady, Early, DefersOrNames, Kept
<1>2. ASSUME StartTask(e) PROVE Calm
  <2>1. phase[e] = "want"
    BY <1>2 DEF StartTask, Resolving, IsReady
  <2>2. phase' = [phase EXCEPT ![e] = "running"] \/ phase' = phase
    BY <1>2 DEF StartTask, LeftUnresolved, Resolved
  <2>3. Kept \/ Tasked(e)
    BY <1>2 DEF StartTask, LeftUnresolved, Resolved, Kept, Tasked
  <2>4. channel' = channel /\ received' = received /\ emitted' = emitted
    BY <1>2 DEF StartTask
  <2> QED BY <2>1, <2>2, <2>3, <2>4 DEF Calm, Early
<1>3. ASSUME StartLocal(e) PROVE Calm
  <2>1. phase[e] = "want"
    BY <1>3 DEF StartLocal, IsReady
  <2>2. phase' = [phase EXCEPT ![e] = "running"] \/ phase' = phase
    BY <1>3 DEF StartLocal
  <2> QED BY <1>3, <2>1, <2>2 DEF StartLocal, Calm, Early, Kept
<1> QED BY <1>1, <1>2, <1>3

LEMMA WorkSteps ==
    ASSUME Drafts, SameWorld, NEW e \in Edge, Reuse(e) \/ Unresolved(e) \/ Assemble(e) \/ Emit(e) \/ RunLocal(e)
    PROVE  Calm \/ \E r : Sends(e, r)
<1> USE DEF Drafts
<1> DEFINE D == Calm \/ \E r : Sends(e, r)
<1>0. ASSUME NEW r, Sends(e, r) PROVE D
  BY <1>0
<1> HIDE DEF D
<1>1. ASSUME Unresolved(e) PROVE D
  <2> DEFINE r == [Result(e) EXCEPT !.err = "unresolved"]
  <2>1. Empty(e, r) /\ r.err # ""
    BY ResultIs
  <2> HIDE DEF r
  <2>2. Sends(e, r)
    BY <1>1, <2>1 DEF Unresolved, Working, Ends, Answer, Quiet, Still, registry, Sends, Responds, Early,
          Kept, Breaks, r
  <2> QED BY <1>0, <2>2
<1>2. ASSUME Reuse(e) PROVE D
  <2> DEFINE r == [Result(e) EXCEPT !.err = "place"]
  <2>1. Empty(e, r) /\ r.err # ""
    BY ResultIs
  <2>2. Full(e, Finished(e))
    BY <1>2, FinishedIs DEF Reuse, Working
  <2>3. ASSUME NEW x, Ends(e, x) PROVE Responds(e, x)
    BY <1>2, <2>3 DEF Reuse, Working, Ends, Answer, Quiet, Still, registry, Responds, Early, Kept
  <2>4. CASE Unplaced(e)
    <3>1. Ends(e, r)
      BY <1>2, <2>4 DEF Reuse
    <3>2. DOMAIN emitted' = Edge /\ \A f \in Edge \ {e} : emitted'[f] = emitted[f]
      BY <1>2 DEF Reuse
    <3> HIDE DEF r
    <3>3. Sends(e, r)
      BY <2>1, <2>3, <3>1, <3>2, Zenon DEF Sends, Breaks
    <3> QED BY <1>0, <3>3
  <2>5. CASE ~Unplaced(e)
    <3>1. Ends(e, Finished(e))
      BY <1>2, <2>5 DEF Reuse
    <3>2. phase[e] = "running" /\ Working(e) /\ Reusable(e) /\ emitted' = [emitted EXCEPT ![e] = world.emitted[e]]
      BY <1>2 DEF Reuse, Working
    <3>3. Sends(e, Finished(e))
      BY <2>2, <2>3, <3>1, <3>2, Zenon DEF Sends, Shipped
    <3> QED BY <1>0, <3>3
  <2> QED BY <2>4, <2>5
<1>3. ASSUME NEW d, Stops(e, d), d.err # "" \/ d.defer # {}
      PROVE  \E r : Ends(e, r) /\ Empty(e, r) /\ (r.err # "" \/ r.defer # {})
  <2> DEFINE x == [Result(e) EXCEPT !.err = d.err]
             y == [Result(e) EXCEPT !.defer = d.defer]
  <2>1. /\ Empty(e, x) /\ x.err = d.err
        /\ Empty(e, y) /\ y.defer = d.defer
    <3>1. Empty(e, x) /\ x.err = d.err
      BY ResultIs
    <3>2. Empty(e, y) /\ y.defer = d.defer
      <4>1. PICK v : v = d.defer
        OBVIOUS
      <4>2. PICK r : r = [Result(e) EXCEPT !.defer = v]
        OBVIOUS
      <4>3. Empty(e, r) /\ r.defer = v
        <5> HIDE DEF y
        <5> QED BY <4>2, ResultIs
      <4> QED BY <4>1, <4>2, <4>3
    <3> QED BY <3>1, <3>2
  <2>2. (d.err # "" /\ Ends(e, x)) \/ (d.err = "" /\ Ends(e, y))
    BY <1>3, Zenon DEF Stops
  <2> HIDE DEF x, y
  <2> QED BY <1>3, <2>1, <2>2
<1>4. ASSUME Assemble(e) PROVE D
  <2>1. /\ phase[e] = "running" /\ emitted' = emitted /\ received' = received /\ Kept
    BY <1>4 DEF Assemble, Working, Still, registry, Kept
  <2>2. PICK d : IF d.err # "" \/ d.defer # {}
                 THEN Stops(e, d)
                 ELSE phase' = [phase EXCEPT ![e] = "assembled"] /\ channel' = channel
    BY <1>4 DEF Assemble
  <2>3. CASE d.err # "" \/ d.defer # {}
    <3>1. PICK r : Ends(e, r) /\ Empty(e, r) /\ (r.err # "" \/ r.defer # {})
      BY <1>3, <2>2, <2>3
    <3>2. Responds(e, r)
      BY <2>1, <3>1 DEF Responds, Ends, Answer, Early
    <3>3. DOMAIN emitted' = Edge /\ emitted' = emitted /\ \A f \in Edge \ {e} : emitted'[f] = emitted[f]
      BY <2>1
    <3>4. Sends(e, r)
      BY <3>1, <3>2, <3>3, Zenon DEF Sends, Breaks, DefersOrNames
    <3> QED BY <1>0, <3>4
  <2>4. CASE ~(d.err # "" \/ d.defer # {})
    <3>1. Calm
      BY <2>1, <2>2, <2>4 DEF Calm, Early
    <3> QED BY <3>1 DEF D
  <2> QED BY <2>3, <2>4
<1>5. ASSUME Emit(e) PROVE D
  <2>1. /\ phase[e] = "assembled" /\ received' = received /\ Kept
    BY <1>5 DEF Emit, Quiet, Still, registry, Kept
  <2>2. PICK d, why : /\ d = Handled(e, tasks[e], e \notin no_defer, built[e])
                      /\ IF why # "" \/ d.defer # {}
                         THEN Stops(e, [d EXCEPT !.err = why]) /\ emitted' = emitted
                         ELSE emitted' = [emitted EXCEPT ![e] = d] /\ Ends(e, Finished(e))
    BY <1>5, Zenon DEF Emit
  <2>3. IsDrv(d) /\ d.outs = built[e].outs
    <3>1. IsDrv(built[e])
      BY <2>1
    <3>2. Extended(built[e], d)
      BY <2>2, <3>1, HandledExtends
    <3> QED BY <3>2 DEF Extended
  <2>4. ASSUME NEW x, Ends(e, x) PROVE Responds(e, x)
    BY <2>1, <2>4 DEF Ends, Answer, Responds, Early
  <2>5. CASE why # "" \/ d.defer # {}
    <3>1. PICK x : x = [d EXCEPT !.err = why]
      OBVIOUS
    <3>2. x.err = why /\ x.defer = d.defer
      BY <2>3, <3>1 DEF IsDrv
    <3>3. PICK r : Ends(e, r) /\ Empty(e, r) /\ (r.err # "" \/ r.defer # {})
      BY <1>3, <2>2, <2>5, <3>1, <3>2
    <3>4. DOMAIN emitted' = Edge /\ emitted' = emitted /\ \A f \in Edge \ {e} : emitted'[f] = emitted[f]
      BY <2>2, <2>5
    <3>5. Sends(e, r)
      BY <2>4, <3>3, <3>4, Zenon DEF Sends, Breaks, DefersOrNames
    <3> QED BY <1>0, <3>5
  <2>6. CASE ~(why # "" \/ d.defer # {})
    <3>2. Full(e, Finished(e))
      BY FinishedIs
    <3>3. Sends(e, Finished(e))
      BY <2>1, <2>2, <2>3, <2>4, <2>6, <3>2, Zenon DEF Sends, Shipped
    <3> QED BY <1>0, <3>3
  <2> QED BY <2>5, <2>6
<1>6. ASSUME RunLocal(e) PROVE D
  <2> DEFINE outs  == SetToSeq(Outs(e) \cap world.made)
             later == [p \in Outs(e) |-> Revision(p) + 1]
             files == [i \in DOMAIN outs |-> File(outs[i], [Upload(outs[i]) EXCEPT !.rev = later[outs[i]]])]
             x     == [Result(e) EXCEPT !.err = "local"]
             y     == [Result(e) EXCEPT !.files = files]
  <2>1. /\ Ends(e, x) \/ Ends(e, y)
        /\ phase[e] = "running" /\ Says(e, "local") /\ emitted' = emitted /\ received' = received /\ Kept
    BY <1>6, Zenon DEF RunLocal, Quiet, Still, registry, Kept
  <2>2. Empty(e, x) /\ x.err # "" /\ y.files = files /\ y.edge = e /\ y.dirs = {}
    <3> HIDE DEF files
    <3> QED BY ResultIs
  <2>3. IsFiniteSet(Outs(e) \cap world.made)
    BY OutsFinite, FS_Intersection
  <2>4. /\ IsList(outs) /\ \A i \in DOMAIN outs : outs[i] \in Outs(e)
    BY <2>3, SetToSeqIn
  <2>5. IsList(files)
    <3>1. PICK n \in Nat : DOMAIN outs = 1..n
      BY <2>4, ListDomain
    <3> HIDE DEF outs
    <3> QED BY <3>1, ListOf
  <2>6. ASSUME NEW p, NEW v PROVE ~IsBuilt([Upload(p) EXCEPT !.rev = v])
    BY DEF Upload, IsBuilt
  <2>7. \A j \in DOMAIN files : files[j].path \in Outs(e) /\ ~IsBuilt(files[j].obj)
    <3> HIDE DEF outs, later
    <3> QED BY <2>4, <2>6, FileIs
  <2> HIDE DEF x, y, files
  <2>8. Local_(e, y)
    BY <2>1, <2>2, <2>5, <2>7 DEF Local_
  <2>9. ASSUME NEW z, Ends(e, z) PROVE Responds(e, z)
    BY <2>1, <2>9 DEF Ends, Answer, Responds, Early
  <2>10. DOMAIN emitted' = Edge /\ \A f \in Edge \ {e} : emitted'[f] = emitted[f]
    BY <2>1
  <2>11. Sends(e, x) \/ Sends(e, y)
    BY <2>1, <2>2, <2>8, <2>9, <2>10, Zenon DEF Sends, Breaks
  <2> QED BY <1>0, <2>11
<1> QED BY <1>1, <1>2, <1>4, <1>5, <1>6 DEF D

LEMMA TakeSteps ==
    ASSUME Drafts, Receive \/ ReceiveDeferred \/ ReceiveFailed
    PROVE  Takes(Head(channel))
<1>1. PICK r : r = Head(channel)
  OBVIOUS
<1>2. ASSUME Receive PROVE Takes(r)
  BY <1>1, <1>2 DEF Receive, Register, Untouched, Takes
<1>3. ASSUME ReceiveDeferred PROVE Takes(r)
  <2>1. phase' = [phase EXCEPT ![r.edge] = "failed"] \/ phase' = [phase EXCEPT ![r.edge] = "want"]
    BY <1>1, <1>3, Zenon DEF ReceiveDeferred, Defer
  <2>2. /\ channel # <<>> /\ channel' = Tail(channel) /\ r.err = "" /\ r.defer # {}
        /\ received' = received /\ Kept /\ emitted' = emitted
    BY <1>1, <1>3 DEF ReceiveDeferred, Untouched, Kept
  <2> QED BY <1>1, <2>1, <2>2 DEF Takes, Kept
<1>4. ASSUME ReceiveFailed PROVE Takes(r)
  BY <1>1, <1>4 DEF ReceiveFailed, Untouched, Kept, Takes
<1> QED BY <1>1, <1>2, <1>3, <1>4

LEMMA RegSteps ==
    ASSUME Drafts, SameWorld, [Next]_vars
    PROVE  Calm \/ (\E e \in Edge : \E r : Sends(e, r)) \/ Takes(Head(channel))
<1>1. CASE Main
  <2>1. ASSUME Return PROVE Calm
    BY <2>1 DEF Return, Untouched, Calm, Kept, Drafts
  <2> QED BY <1>1, <2>1, TakeSteps DEF Main
<1>2. CASE UNCHANGED vars \/ Stopped
  BY <1>2 DEF Stopped, vars, registry, Calm, Kept, Drafts
<1>3. ASSUME NEW p, Rewrite(p) PROVE Calm
  BY <1>3 DEF Rewrite, registry, Calm, Kept, Drafts
<1> QED BY <1>1, <1>2, <1>3, StartSteps, WorkSteps DEF Next

-----------------------------------------------------------------------------
(* What a result registers *)

KeyAt(c, j)   == KeyOf(c.known, c.r.files[j].path)
Wins(c, j)    == Supersedes(c.r.files[j].path \in c.r.dirs, KeyAt(c, j), c.r.edge)
RecordOk(c, T, a) ==
    /\ DOMAIN c.reg \subseteq DOMAIN a
    /\ \A k \in DOMAIN a : \/ k \in DOMAIN c.reg /\ a[k] = c.reg[k]
                           \/ \E j \in T : KeyAt(c, j) = k /\ a[k] = c.r.files[j]
    /\ \A k \in DOMAIN c.reg : (\A j \in T : KeyAt(c, j) = k => ~Wins(c, j)) => a[k] = c.reg[k]
    /\ \A j \in T : /\ KeyAt(c, j) \in DOMAIN a
                    /\ Wins(c, j) => \E i \in T : /\ KeyAt(c, i) = KeyAt(c, j)
                                                 /\ a[KeyAt(c, j)] = c.r.files[i]
RecordStep(c, a, f) == Recorded(a, c.known, c.r, f)
Recording == INSTANCE Folding WITH Op <- RecordStep, Ok <- RecordOk

LEMMA RecordKeeps ==
    ASSUME NEW c, NEW k \in Nat, k >= 1, NEW a, RecordOk(c, 1..(k - 1), a)
    PROVE  RecordOk(c, 1..k, RecordStep(c, a, c.r.files[k]))
<1>1. 1..k = 1..(k - 1) \cup {k}
  OBVIOUS
<1>2. PICK f : f = c.r.files[k]
  OBVIOUS
<1>3. PICK key : key = KeyAt(c, k)
  OBVIOUS
<1>4. PICK b : b = Rewritten(a, key, f)
  OBVIOUS
<1>5. DOMAIN b = DOMAIN a \cup {key} /\ b[key] = f /\ \A x \in DOMAIN a \ {key} : b[x] = a[x]
  BY <1>4 DEF Rewritten
<1>6. PICK T : T = 1..(k - 1)
  OBVIOUS
<1>7. PICK r : r = RecordStep(c, a, c.r.files[k])
  OBVIOUS
<1>8. r = IF Wins(c, k) THEN b ELSE IF key \in DOMAIN a THEN a ELSE b
  BY <1>2, <1>3, <1>4, <1>7, Zenon DEF RecordStep, Recorded, Registered, Wins, KeyAt
<1>9. RecordOk(c, T, a)
  BY <1>6
<1>10. RecordOk(c, T \cup {k}, b) \/ ~(Wins(c, k) \/ key \notin DOMAIN a)
  BY <1>2, <1>3, <1>5, <1>9 DEF RecordOk
<1>11. RecordOk(c, T \cup {k}, a) \/ Wins(c, k) \/ key \notin DOMAIN a
  BY <1>3, <1>9 DEF RecordOk
<1>12. RecordOk(c, T \cup {k}, r)
  BY <1>8, <1>10, <1>11
<1> QED BY <1>1, <1>6, <1>7, <1>12

LEMMA RecordAllIs ==
    ASSUME NEW reg, NEW known, NEW r, IsList(r.files), NEW c, c = [reg |-> reg, known |-> known, r |-> r]
    PROVE  RecordOk(c, DOMAIN r.files, RecordAll(reg, known, r))
<1>1. c.reg = reg /\ c.known = known /\ c.r = r
  BY Zenon
<1>2. PICK n \in Nat : DOMAIN r.files = 1..n
  BY ListDomain
<1>3. RecordOk(c, {}, reg)
  BY <1>1 DEF RecordOk
<1>4. \A k \in 1..n : \A a :
         RecordOk(c, 1..(k - 1), a) => RecordOk(c, 1..k, RecordStep(c, a, c.r.files[k]))
  BY RecordKeeps
<1>5. RecordOk(c, 1..n, Recording!OverSeq(c, reg, c.r.files))
  BY <1>1, <1>2, <1>3, <1>4, Recording!SeqKeeps, Zenon
<1>6. Recording!OverSeq(c, reg, c.r.files) = RecordAll(reg, c.known, c.r)
  BY DEF RecordAll, RecordStep, Recording!OverSeq, FoldLeft, MapThenFoldSet,
         Recording!MapThenFoldSet, Max, Recording!Greatest
<1> QED BY <1>1, <1>2, <1>5, <1>6, Zenon

LEMMA TaskGrown ==
    ASSUME SameWorld, AsUploads(py_closures), NEW e \in Edge
    PROVE  Grown(derived_files, nodes, NewTask(e))
<1>1. PICK w \in Worlds : \A x \in Fixed : world[x] = w[x]
  BY DEF SameWorld
<1>2. world.words = w.words /\ world.argv = w.argv
  BY <1>1 DEF Fixed
<1>3. IsSequence(world.words[e]) /\ IsSequence(world.argv[e])
  BY <1>2, WorldsAssumption
<1> QED BY <1>3, IdleGrown, NewTaskGrown

(* What a derivation's result carries: every declared output, every other  *)
(* path that the command writes, and nothing else.                         *)
LEMMA ShippedFiles ==
    ASSUME SameWorld, NEW e \in Edge, NEW r, Full(e, r)
    PROVE  /\ IsList(r.files)
           /\ \A j \in DOMAIN r.files : /\ r.files[j].path \in Writes(e, tasks[e])
                                       /\ r.files[j].path \in Path /\ r.files[j].obj.by = e
           /\ \A n \in Outs(e) : \E j \in DOMAIN r.files : r.files[j].path = n
           /\ \A n \in Writes(e, tasks[e]) \cap Path : \E j \in DOMAIN r.files : r.files[j].path = n
<1>1. PICK W : W = (Writes(e, tasks[e]) \cap Path) \ Outs(e)
  OBVIOUS
<1>2. PICK outs : outs = world.outs[e]
  OBVIOUS
<1>3. PICK more : more = SetToSeq(W)
  OBVIOUS
<1>4. PICK paths : paths = outs \o more
  OBVIOUS
<1>5. outs \in Seq(Outs(e)) /\ Outs(e) \subseteq Path
  <2>1. PICK w \in Worlds : \A x \in Fixed : world[x] = w[x]
    BY DEF SameWorld
  <2>2. world.outs = w.outs
    BY <2>1 DEF Fixed
  <2>3. IsSequence(world.outs[e])
    BY <2>2, WorldsAssumption
  <2> QED BY <1>2, <2>2, <2>3, OutputsAssumption DEF IsSequence, Outs
<1>6. IsFiniteSet(W)
  BY <1>1, PathAssumption, FS_Subset
<1>7. /\ IsList(more) /\ \A i \in DOMAIN more : more[i] \in W
      /\ \A x \in W : \E i \in DOMAIN more : more[i] = x
  BY <1>3, <1>6, SetToSeqIn
<1>8. more \in Seq(W)
  <2>1. PICK S : more \in Seq(S)
    BY <1>7 DEF IsList
  <2> QED BY <1>7, <2>1
<1>9. /\ Len(outs) \in Nat /\ Len(more) \in Nat
      /\ DOMAIN outs = 1..Len(outs) /\ DOMAIN more = 1..Len(more)
  BY <1>5, <1>8
<1>10. /\ DOMAIN paths = 1..(Len(outs) + Len(more))
       /\ \A i \in DOMAIN outs : i \in DOMAIN paths /\ paths[i] = outs[i]
       /\ \A i \in DOMAIN more : Len(outs) + i \in DOMAIN paths /\ paths[Len(outs) + i] = more[i]
  BY <1>4, <1>5, <1>8, <1>9
<1>11. \A i \in DOMAIN paths : paths[i] \in Outs(e) \cup W
  BY <1>4, <1>5, <1>8
<1>12. Outs(e) = {outs[i] : i \in DOMAIN outs}
  BY <1>2 DEF Outs, Elems
<1>13. \A n \in Outs(e) \cup W : \E i \in DOMAIN paths : paths[i] = n
  BY <1>7, <1>10, <1>12
<1>14. r.files = [i \in DOMAIN paths |-> File(paths[i], Output(e, paths[i]))]
  BY <1>1, <1>2, <1>3, <1>4, Zenon DEF Full, Registers, OutputFiles
<1>15. DOMAIN r.files = DOMAIN paths /\ \A i \in DOMAIN paths : r.files[i] = File(paths[i], Output(e, paths[i]))
  BY <1>14
<1>16. \A i \in DOMAIN paths : r.files[i].path = paths[i] /\ r.files[i].obj.by = e
  <2>1. \A p : Output(e, p).by = e
    BY DEF Output
  <2> QED BY <1>15, <2>1, FileIs
<1>17. IsList(r.files)
  <2>1. Len(outs) + Len(more) \in Nat
    BY <1>9
  <2>2. r.files = [i \in DOMAIN r.files |-> r.files[i]]
    BY <1>14
  <2> QED BY <1>10, <1>15, <2>1, <2>2, ListOf
<1>18. Outs(e) \cup W \subseteq Writes(e, tasks[e]) /\ Writes(e, tasks[e]) \cap Path \subseteq Outs(e) \cup W
  BY <1>1 DEF Writes
<1> HIDE DEF Full
<1> QED BY <1>1, <1>5, <1>11, <1>13, <1>15, <1>16, <1>17, <1>18

(* What is declared when a task is assembled, and what is found written    *)
(* when its result is read off, are the same; and so for the derivations   *)
(* of an earlier pass.                                                     *)
WritesKept ==
    \A e \in Edge : phase'[e] = "assembled" => Writes(e, tasks[e])' = Writes(e, tasks[e])
written == <<phase, [e \in Edge |-> Writes(e, tasks[e])]>>
EarlierWrites ==
    \A e \in Edge : phase[e] = "running" /\ ~Says(e, "local") /\ Reusable(e) =>
        world.emitted[e].outs = Writes(e, tasks[e]) \cup world.depfile[e]

DraftsWrite ==
    \A e \in Edge : phase[e] = "assembled" => built[e].outs = Writes(e, tasks[e]) \cup world.depfile[e]
Pending ==
    /\ IsList(channel)
    /\ \A i \in DOMAIN channel :
          /\ channel[i].edge \in Edge /\ phase[channel[i].edge] = "answered" /\ IsList(channel[i].files)
          /\ \A j \in DOMAIN channel[i].files : IsBuilt(channel[i].files[j].obj) =>
                /\ channel[i].files[j].obj.by = channel[i].edge
                /\ channel[i].files[j].path \in emitted[channel[i].edge].outs
    /\ \A i, j \in DOMAIN channel : channel[i].edge = channel[j].edge => i = j
Arrived ==
    /\ IsList(received) /\ \A e \in Elems(received) : e \in Edge /\ phase[e] = "done"
    /\ \A i, j \in DOMAIN received : received[i] = received[j] => i = j

RegHeld ==
    /\ Drafts /\ SameWorld /\ AsUploads(py_closures)
    /\ DraftsWrite /\ Pending /\ Arrived /\ RegisteredAreWritten

LEMMA DraftsWriteHold ==
    ASSUME Drafts, SameWorld, DraftsWrite, WritesKept, [Next]_vars
    PROVE  DraftsWrite'
<1> SUFFICES ASSUME NEW e \in Edge, phase'[e] = "assembled"
             PROVE  built'[e].outs = Writes(e, tasks[e]) \cup world.depfile[e]
  <2>1. world'.depfile = world.depfile
    BY WorldKept DEF Fixed
  <2> QED BY <2>1 DEF DraftsWrite, WritesKept
<1>1. CASE phase[e] = "assembled" /\ built'[e] = built[e]
  BY <1>1 DEF DraftsWrite
<1>2. CASE Assembles(e)
  <2>1. PICK indexed : /\ Live_(BuildTask(e, tasks[e], indexed))
                       /\ built' = [built EXCEPT ![e] = BuildTask(e, tasks[e], indexed)]
    BY <1>2 DEF Assembles
  <2>2. PICK d : d = BuildTask(e, tasks[e], indexed)
    OBVIOUS
  <2>3. d.outs = Writes(e, tasks[e]) \cup world.depfile[e]
    BY <2>1, <2>2, BuildTaskKeeps
  <2>4. built'[e] = d
    BY <2>1, <2>2 DEF Drafts
  <2> QED BY <2>3, <2>4
<1>3. ASSUME NEW f \in Edge, f # e, Assembles(f) \/ Emits(f) \/ Reuses(f)
      PROVE  built'[e] = built[e]
  <2>1. built' = built \/ \E v : built' = [built EXCEPT ![f] = v]
    BY <1>3 DEF Assembles, Emits, Reuses
  <2> QED BY <1>3, <2>1 DEF Drafts
<1>4. CASE built' = built /\ phase[e] = "assembled"
  BY <1>1, <1>4
<1> HIDE DEF Assembles, Emits, Reuses
<1> QED BY <1>1, <1>2, <1>3, <1>4, DraftSteps

LEMMA Appended ==
    ASSUME NEW q, IsList(q), NEW x
    PROVE  /\ IsList(Append(q, x))
           /\ DOMAIN Append(q, x) = DOMAIN q \cup {Len(q) + 1} /\ Len(q) + 1 \notin DOMAIN q
           /\ \A i \in DOMAIN q : Append(q, x)[i] = q[i]
           /\ Append(q, x)[Len(q) + 1] = x
           /\ Elems(Append(q, x)) = Elems(q) \cup {x}
<1>1. PICK S : q \in Seq(S)
  BY DEF IsList
<1>2. Append(q, x) \in Seq(S \cup {x})
  BY <1>1
<1>3. IsList(Append(q, x))
  BY <1>2, Zenon DEF IsList
<1>4. /\ DOMAIN Append(q, x) = DOMAIN q \cup {Len(q) + 1} /\ Len(q) + 1 \notin DOMAIN q
      /\ \A i \in DOMAIN q : Append(q, x)[i] = q[i]
      /\ Append(q, x)[Len(q) + 1] = x
  BY <1>1
<1>5. Elems(Append(q, x)) = Elems(q) \cup {x}
  <2> HIDE DEF IsList
  <2> QED BY <1>4 DEF Elems
<1> QED BY <1>3, <1>4, <1>5

LEMMA Taken ==
    ASSUME NEW q, IsList(q), q # <<>>
    PROVE  /\ 1 \in DOMAIN q /\ q[1] = Head(q) /\ IsList(Tail(q))
           /\ \A i \in DOMAIN Tail(q) : i + 1 \in DOMAIN q /\ i + 1 # 1 /\ Tail(q)[i] = q[i + 1]
<1>1. PICK S : q \in Seq(S)
  BY DEF IsList
<1>2. Tail(q) \in Seq(S)
  BY <1>1
<1>3. IsList(Tail(q))
  BY <1>2, Zenon DEF IsList
<1>4. /\ 1 \in DOMAIN q /\ q[1] = Head(q)
      /\ \A i \in DOMAIN Tail(q) : i + 1 \in DOMAIN q /\ i + 1 # 1 /\ Tail(q)[i] = q[i + 1]
  BY <1>1
<1> QED BY <1>3, <1>4

(* A step that answers nothing. *)
LEMMA CalmHolds ==
    ASSUME RegHeld, Calm, [Next]_vars
    PROVE  AsUploads(py_closures)' /\ Pending' /\ Arrived' /\ RegisteredAreWritten'
<1>1. Pending'
  BY DEF RegHeld, Calm, Pending, Early
<1>2. Arrived'
  BY DEF RegHeld, Calm, Arrived, Early
<1>3. /\ AsUploads(py_closures)'
      /\ \A k \in DOMAIN derived_files' :
            \/ ~IsBuilt(derived_files'[k].obj)
            \/ k \in DOMAIN derived_files /\ derived_files'[k] = derived_files[k]
  <2>1. CASE Kept
    BY <2>1 DEF Kept, RegHeld, AsUploads
  <2>2. ASSUME NEW e \in Edge, Tasked(e)
        PROVE  /\ AsUploads(py_closures)'
               /\ \A k \in DOMAIN derived_files' :
                     \/ ~IsBuilt(derived_files'[k].obj)
                     \/ k \in DOMAIN derived_files /\ derived_files'[k] = derived_files[k]
    <3>1. PICK t : t = NewTask(e)
      OBVIOUS
    <3>2. Grown(derived_files, nodes, t)
      BY <3>1, TaskGrown DEF RegHeld
    <3> QED BY <2>2, <3>1, <3>2 DEF Tasked, Grown, AsUploads
  <2> QED BY <2>1, <2>2 DEF Calm
<1>4. RegisteredAreWritten'
  BY <1>3 DEF RegHeld, RegisteredAreWritten, Calm
<1> QED BY <1>1, <1>2, <1>3, <1>4

(* A result is sent. *)
LEMMA SentFiles ==
    ASSUME RegHeld, EarlierWrites, NEW e \in Edge, NEW r, Sends(e, r)
    PROVE  /\ r.edge = e /\ IsList(r.files)
           /\ DOMAIN emitted' = Edge /\ \A f \in Edge \ {e} : emitted'[f] = emitted[f]
           /\ \A j \in DOMAIN r.files : IsBuilt(r.files[j].obj) =>
                 r.files[j].obj.by = e /\ r.files[j].path \in emitted'[e].outs
           /\ Shipped(e, r) => emitted'[e].outs = Writes(e, tasks[e]) \cup world.depfile[e]
<1> USE DEF RegHeld, Drafts
<1>1. ASSUME Empty(e, r) PROVE r.edge = e /\ IsList(r.files) /\ DOMAIN r.files = {}
  <2>1. r.edge = e /\ r.files = <<>>
    BY <1>1 DEF Empty
  <2>2. <<>> \in Seq({}) /\ DOMAIN <<>> = {}
    OBVIOUS
  <2> QED BY <2>1, <2>2 DEF IsList
<1>2. ASSUME Shipped(e, r)
      PROVE  /\ r.edge = e /\ DOMAIN emitted' = Edge /\ \A f \in Edge \ {e} : emitted'[f] = emitted[f]
             /\ emitted'[e].outs = Writes(e, tasks[e]) \cup world.depfile[e]
  <2>1. CASE phase[e] = "running" /\ Working(e) /\ Reusable(e)
             /\ emitted' = [emitted EXCEPT ![e] = world.emitted[e]]
    BY <1>2, <2>1 DEF Shipped, Full, Working, EarlierWrites
  <2>2. CASE phase[e] = "assembled" /\ \E d : d.outs = built[e].outs /\ emitted' = [emitted EXCEPT ![e] = d]
    BY <1>2, <2>2 DEF Shipped, Full, DraftsWrite
  <2> QED BY <1>2, <2>1, <2>2 DEF Shipped
<1>3. CASE Breaks(e, r)
  BY <1>1, <1>2, <1>3 DEF Breaks
<1>4. CASE DefersOrNames(e, r)
  BY <1>1, <1>2, <1>4 DEF DefersOrNames
<1>5. CASE Local_(e, r) /\ emitted' = emitted
  BY <1>2, <1>5 DEF Local_
<1>6. CASE Shipped(e, r)
  <2>1. Full(e, r)
    BY <1>6 DEF Shipped
  <2>2. /\ IsList(r.files)
        /\ \A j \in DOMAIN r.files : r.files[j].path \in Writes(e, tasks[e]) /\ r.files[j].obj.by = e
    BY <2>1, ShippedFiles
  <2> QED BY <1>2, <1>6, <2>2
<1> QED BY <1>3, <1>4, <1>5, <1>6 DEF Sends

LEMMA SendsHold ==
    ASSUME RegHeld, EarlierWrites, NEW e \in Edge, NEW r, Sends(e, r)
    PROVE  AsUploads(py_closures)' /\ Pending' /\ Arrived' /\ RegisteredAreWritten'
<1>1. /\ phase[e] \in Early /\ phase' = [phase EXCEPT ![e] = "answered"] /\ DOMAIN phase = Edge
      /\ channel' = Append(channel, r) /\ received' = received
      /\ Kept
  BY DEF Sends, Responds, RegHeld, Drafts
<1>2. /\ r.edge = e /\ IsList(r.files)
      /\ \A f \in Edge \ {e} : emitted'[f] = emitted[f]
      /\ \A j \in DOMAIN r.files : IsBuilt(r.files[j].obj) =>
            r.files[j].obj.by = e /\ r.files[j].path \in emitted'[e].outs
  BY SentFiles
<1>3. phase'[e] = "answered" /\ \A f \in Edge \ {e} : phase'[f] = phase[f]
  BY <1>1
<1>4. Pending /\ Arrived /\ RegisteredAreWritten
  BY DEF RegHeld
<1>5. \A i \in DOMAIN channel : channel[i].edge \in Edge \ {e}
  BY <1>1, <1>4 DEF Pending, Early
<1>6. Pending'
  <2>1. IsList(channel)
    BY <1>4 DEF Pending
  <2>2. PICK m : m = Len(channel) + 1
    OBVIOUS
  <2>3. /\ IsList(channel') /\ DOMAIN channel' = DOMAIN channel \cup {m} /\ m \notin DOMAIN channel
        /\ \A i \in DOMAIN channel : channel'[i] = channel[i]
        /\ channel'[m] = r
    BY <1>1, <2>1, <2>2, Appended
  <2> QED BY <1>2, <1>3, <1>4, <1>5, <2>3 DEF Pending
<1>7. Arrived'
  BY <1>1, <1>3, <1>4 DEF Arrived, Early
<1>8. AsUploads(py_closures)' /\ RegisteredAreWritten'
  <2>1. \A f \in Elems(received) : f \in Edge \ {e}
    BY <1>1, <1>4 DEF Arrived, Early
  <2> QED BY <1>1, <1>2, <1>4, <2>1 DEF Kept, RegHeld, RegisteredAreWritten, AsUploads
<1> QED BY <1>6, <1>7, <1>8

(* A result is taken. *)
LEMMA TakesHold ==
    ASSUME RegHeld, Takes(Head(channel))
    PROVE  AsUploads(py_closures)' /\ Pending' /\ Arrived' /\ RegisteredAreWritten'
<1>1. PICK r : r = Head(channel)
  OBVIOUS
<1>2. Pending /\ Arrived /\ RegisteredAreWritten /\ DOMAIN phase = Edge
  BY DEF RegHeld, Drafts
<1>3. Takes(r) /\ channel # <<>> /\ channel' = Tail(channel) /\ emitted' = emitted
      /\ py_closures' = py_closures
  BY <1>1 DEF Takes
<1>4. /\ IsList(channel') /\ 1 \in DOMAIN channel /\ channel[1] = r
      /\ \A i \in DOMAIN channel' : i + 1 \in DOMAIN channel /\ i + 1 # 1 /\ channel'[i] = channel[i + 1]
  BY <1>1, <1>2, <1>3, Taken DEF Pending
<1>5. /\ r.edge \in Edge /\ phase[r.edge] = "answered" /\ IsList(r.files)
      /\ \A j \in DOMAIN r.files : IsBuilt(r.files[j].obj) =>
            r.files[j].obj.by = r.edge /\ r.files[j].path \in emitted[r.edge].outs
  BY <1>2, <1>4 DEF Pending
<1>6. \E x : phase' = [phase EXCEPT ![r.edge] = x]
  BY <1>3 DEF Takes
<1>7. DOMAIN phase' = Edge /\ \A f \in Edge \ {r.edge} : phase'[f] = phase[f]
  BY <1>2, <1>6
<1>8. Pending'
  <2>1. \A i \in DOMAIN channel' : channel'[i].edge \in Edge \ {r.edge}
    BY <1>2, <1>4 DEF Pending
  <2>2. \A i, j \in DOMAIN channel' : channel'[i].edge = channel'[j].edge => i = j
    <3> SUFFICES ASSUME NEW i \in DOMAIN channel', NEW j \in DOMAIN channel',
                        channel'[i].edge = channel'[j].edge
                 PROVE  i = j
      OBVIOUS
    <3>1. i + 1 = j + 1
      BY <1>2, <1>4 DEF Pending
    <3>2. PICK n \in Nat : DOMAIN channel' = 1..n
      BY <1>4, ListDomain
    <3> QED BY <3>1, <3>2
  <2> QED BY <1>2, <1>3, <1>4, <1>7, <2>1, <2>2 DEF Pending
<1>9. CASE received' = received /\ Kept
  <2>1. Arrived'
    BY <1>2, <1>5, <1>7, <1>9 DEF Arrived
  <2>2. RegisteredAreWritten'
    BY <1>2, <1>3, <1>9 DEF Kept, RegisteredAreWritten
  <2> QED BY <1>3, <1>8, <2>1, <2>2 DEF RegHeld, AsUploads
<1>10. ASSUME /\ phase' = [phase EXCEPT ![r.edge] = "done"] /\ received' = Append(received, r.edge)
              /\ derived_files' = RecordAll(derived_files, nodes, r)
       PROVE  Arrived' /\ RegisteredAreWritten'
  <2>1. PICK m : m = Len(received) + 1
    OBVIOUS
  <2>2. /\ IsList(received') /\ DOMAIN received' = DOMAIN received \cup {m} /\ m \notin DOMAIN received
        /\ \A i \in DOMAIN received : received'[i] = received[i]
        /\ received'[m] = r.edge /\ Elems(received') = Elems(received) \cup {r.edge}
    BY <1>2, <1>10, <2>1, Appended DEF Arrived
  <2>3. r.edge \notin Elems(received)
    BY <1>2, <1>5 DEF Arrived
  <2>4. phase'[r.edge] = "done"
    BY <1>2, <1>5, <1>10
  <2>5. Arrived'
    BY <1>2, <1>5, <1>7, <2>2, <2>3, <2>4 DEF Arrived, Elems
  <2>6. PICK c : c = [reg |-> derived_files, known |-> nodes, r |-> r]
    OBVIOUS
  <2>7. c.reg = derived_files /\ c.r = r
    BY <2>6, Zenon
  <2>8. \A k \in DOMAIN derived_files' :
           \/ k \in DOMAIN derived_files /\ derived_files'[k] = derived_files[k]
           \/ \E j \in DOMAIN r.files : derived_files'[k] = r.files[j]
    BY <1>5, <1>10, <2>6, <2>7, RecordAllIs DEF RecordOk
  <2>9. RegisteredAreWritten'
    BY <1>2, <1>3, <1>5, <2>2, <2>8 DEF RegisteredAreWritten
  <2> QED BY <2>5, <2>9
<1> QED BY <1>1, <1>3, <1>8, <1>9, <1>10 DEF Takes, RegHeld, AsUploads

LEMMA RegInit == Init => RegHeld
<1> SUFFICES ASSUME Init PROVE RegHeld
  OBVIOUS
<1>1. Drafts /\ SameWorld
  BY DraftsInit DEF Init, SameWorld
<1>2. <<>> \in Seq({}) /\ DOMAIN <<>> = {}
  OBVIOUS
<1>3. AsUploads(py_closures) /\ DraftsWrite
  BY <1>2 DEF Init, AsUploads, DraftsWrite
<1>4. Pending /\ Arrived
  BY <1>2 DEF Init, Pending, Arrived, IsList, Elems
<1>5. RegisteredAreWritten
  <2>1. \A k \in DOMAIN derived_files : ~IsBuilt(derived_files[k].obj)
    <3>1. derived_files = [p \in world.configured |->
                             File(p, [by |-> Disk, what |-> Content(p), rev |-> 0, raw |-> FALSE])]
      BY DEF Init
    <3>2. \A a, b, c, x : [by |-> a, what |-> b, rev |-> c, raw |-> x].by = a
      BY Zenon
    <3> QED BY <3>1, <3>2, FileIs DEF IsBuilt
  <2> QED BY <2>1 DEF RegisteredAreWritten
<1> QED BY <1>1, <1>3, <1>4, <1>5 DEF RegHeld

LEMMA RegHolds ==
    ASSUME RegHeld, WritesKept, EarlierWrites, [Next]_vars
    PROVE  RegHeld'
<1>1. Drafts' /\ SameWorld' /\ DraftsWrite'
  BY DraftsHold, WorldKept, DraftsWriteHold DEF RegHeld
<1>2. Calm \/ (\E e \in Edge : \E r : Sends(e, r)) \/ Takes(Head(channel))
  BY RegSteps DEF RegHeld
<1>3. AsUploads(py_closures)' /\ Pending' /\ Arrived' /\ RegisteredAreWritten'
  BY <1>2, CalmHolds, SendsHold, TakesHold
<1> QED BY <1>1, <1>3 DEF RegHeld

(* Every output registered for an edge is one its derivation declares,     *)
(* whatever the readers of a task do, if a command writes the same when    *)
(* its result is read off as when its derivation was assembled.            *)
THEOREM RegisteredHeld == Spec /\ [][WritesKept]_written /\ []EarlierWrites => []RegisteredAreWritten
<1>1. RegHeld /\ WritesKept /\ EarlierWrites /\ [Next]_vars => RegHeld'
  BY RegHolds
<1>2. UNCHANGED written => WritesKept
  BY DEF written, WritesKept
<1>3. RegHeld => RegisteredAreWritten
  BY DEF RegHeld
<1> QED BY <1>1, <1>2, <1>3, RegInit, PTL DEF Spec

-----------------------------------------------------------------------------
(* Whose file stands for an output, and for a tree *)

(* The trees a step edits are directories, and the same whenever they are  *)
(* looked up.                                                              *)
EditsTrees == \A e \in Edge : \A p \in EditedTrees(e) : IsTree(p)
TreesKept  == \A e \in Edge : EditedTrees(e)' = EditedTrees(e)
edited     == [e \in Edge |-> EditedTrees(e)]

Silent(e)  == Says(e, "local") \/ Says(e, "phony")
Editors(p) == {f \in Elems(received) : p \in Edits(f)}

(* What a result that is on its way will have registered. *)
Brings_(e, r) ==
    /\ \A p \in r.dirs : IsTree(p)
    /\ \A j \in DOMAIN r.files : r.files[j].path \in Path
    /\ r.err = "" /\ r.defer # {} => emitted[e].outs = {}
    /\ r.err = "" /\ r.defer = {} =>
          \/ Silent(e) /\ emitted[e].outs = {} /\ r.dirs = {}
          \/ /\ r.dirs = EditedTrees(e)
             /\ \A j \in DOMAIN r.files : /\ r.files[j].path \in emitted[e].outs
                                         /\ r.files[j].obj.by = e
             /\ \A n \in Outs(e) \cup Edits(e) : \E j \in DOMAIN r.files : r.files[j].path = n

Unwritten == \A e \in Edge : phase[e] \in Early => emitted[e].outs = {}
Bringing  == \A i \in DOMAIN channel : \A e \in Edge : channel[i].edge = e => Brings_(e, channel[i])
KnownOuts == \A e \in Edge : Outs(e) \subseteq nodes
OwnHeld   ==
    \A e \in Elems(received) : ~Silent(e) => \A n \in Outs(e) :
        n \in DOMAIN derived_files /\ derived_files[n].obj.by = e
TreesHeld ==
    \A e \in Elems(received) : \A p \in Edits(e) :
        <<p>> \in DOMAIN derived_files /\ derived_files[<<p>>].obj.by = LastOf(Editors(p))
ProducerHeld == RegHeld /\ Unwritten /\ Bringing /\ KnownOuts /\ OwnHeld /\ TreesHeld

LEMMA Places_ ==
    ASSUME SameWorld
    PROVE  /\ \A e \in Edge : \A n \in Outs(e) : n \in Path /\ ~IsTree(n)
           /\ \A e \in Edge : \A n \in Outs(e) : ~Says(e, "phony") => Producer(n) = e
           /\ \A e \in Edge : \A p \in world.depfile[e] : ~IsTree(p)
           /\ \A p : IsTree(p) => p \in Path
           /\ \A p \in Path : <<p>> \notin Path /\ Producer(<<p>>) = NoEdge
<1>1. PICK w \in Worlds : \A x \in Fixed : world[x] = w[x]
  BY DEF SameWorld
<1>2. /\ world.outs = w.outs /\ world.shape = w.shape /\ world.tags = w.tags
      /\ world.depfile = w.depfile
  BY <1>1 DEF Fixed
<1>3. \A e \in Edge : \A n \in Outs(e) : n \in Path /\ ~IsTree(n)
  BY <1>2, OutputsAssumption DEF Outs, IsTree, Is
<1>4. \A e \in Edge : \A n \in Outs(e) : ~Says(e, "phony") => Producer(n) = e
  <2> SUFFICES ASSUME NEW e \in Edge, NEW n \in Outs(e), ~Says(e, "phony") PROVE Producer(n) = e
    OBVIOUS
  <2>1. \A f \in Edge : n \in Outs(f) /\ ~Says(f, "phony") => f = e
    BY <1>2, OutputsAssumption DEF Outs, Says
  <2> QED BY <2>1 DEF Producer
<1>5. \A e \in Edge : \A p \in world.depfile[e] : ~IsTree(p)
  BY <1>2, OutputsAssumption DEF IsTree, Is
<1>6. \A p : IsTree(p) => p \in Path
  BY <1>2, WorldsAssumption DEF IsTree, Is
<1>7. \A p \in Path : <<p>> \notin Path /\ Producer(<<p>>) = NoEdge
  <2>1. \A p \in Path : <<p>> \notin Path
    BY PathAssumption
  <2> QED BY <1>3, <2>1, Zenon DEF Producer
<1> QED BY <1>3, <1>4, <1>5, <1>6, <1>7

LEMMA Keys_ ==
    ASSUME SameWorld, KnownOuts
    PROVE  /\ \A e \in Edge : \A n \in Outs(e) : KeyOf(nodes, n) = n
           /\ \A p : IsTree(p) => KeyOf(nodes, p) = <<p>>
           /\ \A p \in Path : ~IsTree(p) => KeyOf(nodes, p) \in Path
<1>1. PICK w \in Worlds : \A x \in Fixed : world[x] = w[x]
  BY DEF SameWorld
<1>2. Range(world.spelt) \subseteq Path
  BY <1>1, WorldsAssumption DEF Fixed
<1>3. \A e \in Edge : \A n \in Outs(e) : KeyOf(nodes, n) = n
  BY Places_ DEF KeyOf, KnownOuts
<1>4. \A p : IsTree(p) => KeyOf(nodes, p) = <<p>>
  BY Zenon DEF KeyOf
<1>5. \A p \in Path : ~IsTree(p) => KeyOf(nodes, p) \in Path
  <2>1. \A p \in DOMAIN world.spelt : world.spelt[p] \in Path
    BY <1>2 DEF Range
  <2> QED BY <2>1, Zenon DEF KeyOf
<1> QED BY <1>3, <1>4, <1>5

(* What is fixed in a step: the graph, and what has been answered. *)
LEMMA StaticKept ==
    ASSUME RegHeld, [Next]_vars
    PROVE  /\ \A e : Outs(e)' = Outs(e)
           /\ \A e : Silent(e)' <=> Silent(e)
           /\ \A p : IsTree(p)' <=> IsTree(p)
<1>1. world'.outs = world.outs /\ world'.tags = world.tags /\ world'.shape = world.shape
  BY WorldKept DEF RegHeld, Fixed
<1> QED BY <1>1 DEF Outs, Silent, Says, IsTree, Is

LEMMA BringsKept ==
    ASSUME RegHeld, [Next]_vars, TreesKept, NEW e \in Edge, emitted'[e] = emitted[e],
           NEW r, Brings_(e, r)
    PROVE  Brings_(e, r)'
<1>1. Edits(e)' = Edits(e) /\ EditedTrees(e)' = EditedTrees(e)
  BY DEF TreesKept, Edits
<1>2. Outs(e)' = Outs(e) /\ (Silent(e)' <=> Silent(e)) /\ \A p : IsTree(p)' <=> IsTree(p)
  BY StaticKept
<1> QED BY <1>1, <1>2 DEF Brings_

(* The last of a list that is in a set. *)
LastIn(q, F) == q[Max({j \in DOMAIN q : q[j] \in F})]

LEMMA LastAppend ==
    ASSUME NEW q, IsList(q), NEW x, NEW F
    PROVE  /\ x \in F => LastIn(Append(q, x), F) = x
           /\ x \notin F /\ (\E j \in DOMAIN q : q[j] \in F) => LastIn(Append(q, x), F) = LastIn(q, F)
<1>1. PICK n \in Nat : DOMAIN q = 1..n
  BY ListDomain
<1>2. PICK m : m = Len(q) + 1
  OBVIOUS
<1>3. PICK p : p = Append(q, x)
  OBVIOUS
<1>4. /\ DOMAIN p = 1..n \cup {m} /\ m \notin 1..n /\ p[m] = x
      /\ \A i \in 1..n : p[i] = q[i]
  BY <1>1, <1>2, <1>3, Appended
<1>5. m = n + 1
  <2>1. PICK S : q \in Seq(S)
    BY DEF IsList
  <2>2. Len(q) \in Nat /\ 1..Len(q) = 1..n
    BY <1>1, <2>1
  <2>3. \A i \in Nat : 1..i = 1..n => i = n
    OBVIOUS
  <2> QED BY <1>2, <2>2, <2>3
<1>6. ASSUME x \in F PROVE LastIn(p, F) = x
  <2>1. PICK S : S = {j \in DOMAIN p : p[j] \in F}
    OBVIOUS
  <2>2. m \in S /\ S \subseteq 1..m /\ m \in Nat
    BY <1>4, <1>5, <1>6, <2>1
  <2>3. Max(S) = m
    <3>1. Max(S) \in S /\ \A y \in S : Max(S) >= y
      <4>1. \E a \in S : \A y \in S : a >= y
        BY <2>2
      <4> QED BY <4>1, Zenon DEF Max
    <3>2. Max(S) \in 1..m /\ Max(S) >= m
      BY <2>2, <3>1
    <3> QED BY <2>2, <3>2
  <2> QED BY <1>4, <2>1, <2>3, Zenon DEF LastIn
<1>7. ASSUME x \notin F, \E j \in 1..n : q[j] \in F PROVE LastIn(p, F) = LastIn(q, F)
  <2>1. PICK S : S = {j \in DOMAIN q : q[j] \in F}
    OBVIOUS
  <2>2. S = {j \in DOMAIN p : p[j] \in F} /\ S # {} /\ S \subseteq 1..n
    BY <1>1, <1>4, <1>7, <2>1
  <2>3. \E a \in S : \A y \in S : a >= y
    <3>1. PICK D : D = {n - a : a \in S}
      OBVIOUS
    <3>2. D \in SUBSET Nat /\ D # {}
      BY <2>2, <3>1
    <3>3. PICK b \in D : \A y \in D : b <= y
      BY <3>2, Staging!LeastNat
    <3>4. PICK a \in S : b = n - a
      BY <3>1
    <3>5. \A y \in S : n - a <= n - y
      BY <3>1, <3>3, <3>4
    <3>6. \A y \in S : a >= y
      BY <2>2, <3>5
    <3> QED BY <3>6
  <2>4. Max(S) \in S
    BY <2>3, Zenon DEF Max
  <2>5. p[Max(S)] = q[Max(S)]
    BY <1>4, <2>2, <2>4
  <2> QED BY <2>1, <2>2, <2>5, Zenon DEF LastIn
<1> QED BY <1>1, <1>3, <1>6, <1>7

(* The list that is received is the same, and so is what its edges edit.   *)
LEMMA FrameHolds ==
    ASSUME ProducerHeld, [Next]_vars, TreesKept, received' = received,
           \A f \in Edge : phase[f] = "done" => emitted'[f] = emitted[f],
           DOMAIN derived_files \subseteq DOMAIN derived_files',
           \A k \in DOMAIN derived_files : derived_files'[k] = derived_files[k]
    PROVE  OwnHeld' /\ TreesHeld'
<1>1. \A e \in Elems(received) : e \in Edge /\ emitted'[e] = emitted[e]
  BY DEF ProducerHeld, RegHeld, Arrived
<1>2. \A e \in Elems(received) : Edits(e)' = Edits(e)
  BY <1>1 DEF TreesKept, Edits
<1>3. Elems(received)' = Elems(received)
  BY DEF Elems
<1>4. OwnHeld'
  BY <1>1, <1>3, StaticKept DEF ProducerHeld, OwnHeld
<1>5. ASSUME NEW p PROVE LastOf(Editors(p))' = LastOf(Editors(p))
  <2>1. Editors(p)' = Editors(p)
    BY <1>2, <1>3 DEF Editors
  <2> QED BY <2>1 DEF LastOf
<1>6. TreesHeld'
  BY <1>2, <1>3, <1>5 DEF ProducerHeld, TreesHeld
<1> QED BY <1>4, <1>6

LEMMA CalmProducer ==
    ASSUME ProducerHeld, [Next]_vars, TreesKept, Calm
    PROVE  Unwritten' /\ Bringing' /\ KnownOuts' /\ OwnHeld' /\ TreesHeld'
<1>1. /\ DOMAIN derived_files \subseteq DOMAIN derived_files' /\ nodes \subseteq nodes'
      /\ \A k \in DOMAIN derived_files : derived_files'[k] = derived_files[k]
  <2>1. ASSUME NEW e \in Edge, Tasked(e)
        PROVE  /\ DOMAIN derived_files \subseteq DOMAIN derived_files' /\ nodes \subseteq nodes'
               /\ \A k \in DOMAIN derived_files : derived_files'[k] = derived_files[k]
    <3>1. PICK t : t = NewTask(e)
      OBVIOUS
    <3>2. Grown(derived_files, nodes, t)
      BY <3>1, TaskGrown DEF ProducerHeld, RegHeld
    <3> QED BY <2>1, <3>1, <3>2 DEF Tasked, Grown
  <2> QED BY <2>1 DEF Calm, Kept
<1>2. KnownOuts'
  BY <1>1, StaticKept DEF ProducerHeld, KnownOuts
<1>3. Unwritten'
  BY DEF Calm, ProducerHeld, Unwritten
<1>4. Bringing'
  <2> SUFFICES ASSUME NEW i \in DOMAIN channel, NEW e \in Edge, channel[i].edge = e
               PROVE  Brings_(e, channel[i])'
    BY DEF Bringing, Calm
  <2>1. PICK r : r = channel[i]
    OBVIOUS
  <2>2. Brings_(e, r)
    BY <2>1 DEF ProducerHeld, Bringing
  <2>3. Brings_(e, r)'
    BY <2>2, BringsKept DEF ProducerHeld, Calm
  <2> QED BY <2>1, <2>3 DEF Brings_, Calm
<1>5. OwnHeld' /\ TreesHeld'
  BY <1>1, FrameHolds DEF Calm
<1> QED BY <1>2, <1>3, <1>4, <1>5

LEMMA SendsProducer ==
    ASSUME ProducerHeld, [Next]_vars, TreesKept, EditsTrees, EarlierWrites,
           NEW e \in Edge, NEW r, Sends(e, r)
    PROVE  Unwritten' /\ Bringing' /\ KnownOuts' /\ OwnHeld' /\ TreesHeld'
<1> USE DEF ProducerHeld, RegHeld
<1>1. /\ phase[e] \in Early /\ phase' = [phase EXCEPT ![e] = "answered"] /\ DOMAIN phase = Edge
      /\ channel' = Append(channel, r) /\ received' = received /\ Kept
  BY DEF Sends, Responds, Drafts
<1>2. /\ r.edge = e /\ \A f \in Edge \ {e} : emitted'[f] = emitted[f]
      /\ Shipped(e, r) => emitted'[e].outs = Writes(e, tasks[e]) \cup world.depfile[e]
  BY SentFiles
<1>3. phase'[e] = "answered" /\ \A f \in Edge \ {e} : phase'[f] = phase[f]
  BY <1>1
<1>4. emitted[e].outs = {}
  BY <1>1 DEF Unwritten
<1>5. KnownOuts'
  BY <1>1, StaticKept DEF KnownOuts, Kept
<1>6. Unwritten'
  BY <1>2, <1>3 DEF Unwritten, Early
<1>7. Brings_(e, r)'
  <2>1. /\ Outs(e)' = Outs(e) /\ (Silent(e)' <=> Silent(e)) /\ \A p : IsTree(p)' <=> IsTree(p)
        /\ EditedTrees(e)' = EditedTrees(e)
    BY StaticKept DEF TreesKept
  <2>2. ASSUME Empty(e, r) PROVE r.dirs = {} /\ DOMAIN r.files = {}
    BY <2>2 DEF Empty
  <2>3. CASE Breaks(e, r)
    BY <2>2, <2>3 DEF Breaks, Brings_
  <2>4. CASE DefersOrNames(e, r)
    <3>1. emitted'[e].outs = {} /\ (r.defer # {} \/ Silent(e)')
      BY <1>4, <2>1, <2>4 DEF DefersOrNames, Silent
    <3> QED BY <2>2, <2>4, <3>1 DEF DefersOrNames, Brings_
  <2>5. CASE Local_(e, r) /\ emitted' = emitted
    <3>1. r.dirs = {} /\ Silent(e)' /\ emitted'[e].outs = {}
      BY <1>4, <2>1, <2>5 DEF Local_, Silent
    <3>2. \A j \in DOMAIN r.files : r.files[j].path \in Path
      BY <2>5, Places_ DEF Local_
    <3> QED BY <3>1, <3>2 DEF Brings_
  <2>6. CASE Shipped(e, r)
    <3>1. Full(e, r) /\ r.dirs = EditedTrees(e)
      BY <2>6 DEF Shipped, Full
    <3>2. /\ \A j \in DOMAIN r.files : /\ r.files[j].path \in Writes(e, tasks[e])
                                      /\ r.files[j].path \in Path /\ r.files[j].obj.by = e
          /\ \A n \in Outs(e) : \E j \in DOMAIN r.files : r.files[j].path = n
          /\ \A n \in Writes(e, tasks[e]) \cap Path : \E j \in DOMAIN r.files : r.files[j].path = n
      BY <3>1, ShippedFiles
    <3>3. PICK W : W = Writes(e, tasks[e])
      OBVIOUS
    <3>4. emitted'[e].outs = W \cup world.depfile[e]
      BY <1>2, <2>6, <3>3
    <3>5. \A n \in Edits(e)' : n \in W \cap Path
      <4>1. Edits(e)' = EditedTrees(e) \cap emitted'[e].outs
        BY <2>1 DEF Edits
      <4> QED BY <3>4, <4>1, Places_ DEF EditsTrees
    <3>6. \A p \in r.dirs : IsTree(p)'
      BY <2>1, <3>1 DEF EditsTrees
    <3>7. /\ r.dirs = EditedTrees(e)'
          /\ \A j \in DOMAIN r.files : r.files[j].path \in emitted'[e].outs /\ r.files[j].obj.by = e
          /\ \A n \in Outs(e)' \cup Edits(e)' : \E j \in DOMAIN r.files : r.files[j].path = n
      BY <2>1, <3>1, <3>2, <3>3, <3>4, <3>5
    <3>8. r.err = "" /\ r.defer = {}
      BY <3>1 DEF Full
    <3> QED BY <3>2, <3>6, <3>7, <3>8, Zenon DEF Brings_
  <2> QED BY <2>3, <2>4, <2>5, <2>6 DEF Sends
<1>8. Bringing'
  <2>1. PICK m : m = Len(channel) + 1
    OBVIOUS
  <2>2. /\ DOMAIN channel' = DOMAIN channel \cup {m}
        /\ \A i \in DOMAIN channel : channel'[i] = channel[i]
        /\ channel'[m] = r
    BY <1>1, <2>1, Appended DEF Pending
  <2>3. ASSUME NEW i \in DOMAIN channel, NEW f \in Edge, channel[i].edge = f
        PROVE  Brings_(f, channel[i])'
    <3>1. PICK q : q = channel[i]
      OBVIOUS
    <3>2. f # e
      BY <1>1, <2>3 DEF Pending, Early
    <3>3. Brings_(f, q)'
      BY <1>2, <2>3, <3>1, <3>2, BringsKept DEF Bringing
    <3>4. channel'[i] = q
      BY <2>2, <3>1
    <3> QED BY <3>3, <3>4 DEF Brings_
  <2>4. Brings_(e, channel[m])'
    BY <1>7, <2>2 DEF Brings_
  <2> QED BY <1>2, <2>2, <2>3, <2>4 DEF Bringing
<1>9. OwnHeld' /\ TreesHeld'
  <2>1. /\ DOMAIN derived_files \subseteq DOMAIN derived_files'
        /\ \A k \in DOMAIN derived_files : derived_files'[k] = derived_files[k]
    BY <1>1 DEF Kept
  <2>2. \A f \in Edge : phase[f] = "done" => emitted'[f] = emitted[f]
    BY <1>1, <1>2 DEF Early
  <2> QED BY <1>1, <2>1, <2>2, FrameHolds
<1> QED BY <1>5, <1>6, <1>8, <1>9

(* What is registered of a result, in a word: what no file of it displaces *)
(* is kept, and what one displaces is a file of it.                        *)
LEMMA Displaced ==
    ASSUME NEW reg, NEW known, NEW r, IsList(r.files), NEW all, all = RecordAll(reg, known, r)
    PROVE  /\ \A k \in DOMAIN reg :
                 (\A j \in DOMAIN r.files : KeyOf(known, r.files[j].path) = k =>
                       r.files[j].path \notin r.dirs /\ Producer(k) # r.edge)
                    => k \in DOMAIN all /\ all[k] = reg[k]
           /\ \A j \in DOMAIN r.files : \A k :
                 KeyOf(known, r.files[j].path) = k /\ (r.files[j].path \in r.dirs \/ Producer(k) = r.edge)
                    => k \in DOMAIN all /\ \E i \in DOMAIN r.files : all[k] = r.files[i]
<1>1. PICK c : c = [reg |-> reg, known |-> known, r |-> r]
  OBVIOUS
<1>2. c.reg = reg /\ c.known = known /\ c.r = r
  BY <1>1, Zenon
<1>3. PICK J : J = DOMAIN r.files
  OBVIOUS
<1>4. RecordOk(c, J, all)
  BY <1>1, <1>3, RecordAllIs
<1>5. /\ \A k \in DOMAIN reg : (\A j \in J : KeyAt(c, j) = k => ~Wins(c, j))
                              => k \in DOMAIN all /\ all[k] = reg[k]
      /\ \A j \in J : Wins(c, j) => /\ KeyAt(c, j) \in DOMAIN all
                                   /\ \E i \in J : all[KeyAt(c, j)] = r.files[i]
  BY <1>2, <1>4 DEF RecordOk
<1>6. \A j : KeyAt(c, j) = KeyOf(known, r.files[j].path)
  BY <1>2, Zenon DEF KeyAt
<1>7. \A j : Wins(c, j) <=> (r.files[j].path \in r.dirs \/ Producer(KeyAt(c, j)) = r.edge)
  BY <1>2, Zenon DEF Wins, Supersedes
<1>8. ASSUME NEW k \in DOMAIN reg,
             \A j \in DOMAIN r.files : KeyOf(known, r.files[j].path) = k =>
                   r.files[j].path \notin r.dirs /\ Producer(k) # r.edge
      PROVE  k \in DOMAIN all /\ all[k] = reg[k]
  BY <1>3, <1>5, <1>6, <1>7, <1>8
<1>9. ASSUME NEW j \in DOMAIN r.files, NEW k, KeyOf(known, r.files[j].path) = k,
             r.files[j].path \in r.dirs \/ Producer(k) = r.edge
      PROVE  k \in DOMAIN all /\ \E i \in DOMAIN r.files : all[k] = r.files[i]
  <2>1. KeyAt(c, j) = k /\ Wins(c, j)
    BY <1>6, <1>7, <1>9
  <2> QED BY <1>3, <1>5, <2>1
<1> QED BY <1>8, <1>9

LEMMA TakesOwn ==
    ASSUME SameWorld, KnownOuts, NEW e \in Edge, NEW r, r.edge = e,
           \A p \in r.dirs : IsTree(p),
           \A j \in DOMAIN r.files : r.files[j].path \in Path,
           NEW all,
           \A k \in DOMAIN derived_files :
              (\A j \in DOMAIN r.files : KeyOf(nodes, r.files[j].path) = k =>
                    r.files[j].path \notin r.dirs /\ Producer(k) # r.edge)
                 => k \in DOMAIN all /\ all[k] = derived_files[k],
           \A j \in DOMAIN r.files : \A k :
              KeyOf(nodes, r.files[j].path) = k /\ (r.files[j].path \in r.dirs \/ Producer(k) = r.edge)
                 => k \in DOMAIN all /\ \E i \in DOMAIN r.files : all[k] = r.files[i]
    PROVE  \A f \in Edge : ~Silent(f) => \A n \in Outs(f) :
              /\ f # e /\ n \in DOMAIN derived_files => n \in DOMAIN all /\ all[n] = derived_files[n]
              /\ f = e /\ (\E j \in DOMAIN r.files : r.files[j].path = n) =>
                    n \in DOMAIN all /\ \E i \in DOMAIN r.files : all[n] = r.files[i]
<1> SUFFICES ASSUME NEW f \in Edge, ~Silent(f), NEW n \in Outs(f)
             PROVE  /\ f # e /\ n \in DOMAIN derived_files => n \in DOMAIN all /\ all[n] = derived_files[n]
                    /\ f = e /\ (\E j \in DOMAIN r.files : r.files[j].path = n) =>
                          n \in DOMAIN all /\ \E i \in DOMAIN r.files : all[n] = r.files[i]
  OBVIOUS
<1>1. n \in Path /\ Producer(n) = f /\ KeyOf(nodes, n) = n
  BY Places_, Keys_, Zenon DEF Silent
<1>2. ASSUME NEW j \in DOMAIN r.files, KeyOf(nodes, r.files[j].path) = n PROVE r.files[j].path \notin r.dirs
  <2>1. PICK p : p = r.files[j].path
    OBVIOUS
  <2>2. p \in Path /\ KeyOf(nodes, p) = n
    BY <1>2, <2>1, Zenon
  <2>3. ~IsTree(p)
    BY <1>1, <2>2, Places_, Keys_
  <2> QED BY <2>1, <2>3, Zenon
<1>3. ASSUME f # e, n \in DOMAIN derived_files PROVE n \in DOMAIN all /\ all[n] = derived_files[n]
  BY <1>1, <1>2, <1>3
<1>4. ASSUME f = e, NEW j \in DOMAIN r.files, r.files[j].path = n
      PROVE  n \in DOMAIN all /\ \E i \in DOMAIN r.files : all[n] = r.files[i]
  BY <1>1, <1>4
<1> QED BY <1>3, <1>4

LEMMA TakesTree ==
    ASSUME SameWorld, KnownOuts, NEW e \in Edge, NEW r, r.edge = e,
           \A j \in DOMAIN r.files : r.files[j].path \in Path,
           NEW all,
           \A k \in DOMAIN derived_files :
              (\A j \in DOMAIN r.files : KeyOf(nodes, r.files[j].path) = k =>
                    r.files[j].path \notin r.dirs /\ Producer(k) # r.edge)
                 => k \in DOMAIN all /\ all[k] = derived_files[k],
           \A j \in DOMAIN r.files : \A k :
              KeyOf(nodes, r.files[j].path) = k /\ (r.files[j].path \in r.dirs \/ Producer(k) = r.edge)
                 => k \in DOMAIN all /\ \E i \in DOMAIN r.files : all[k] = r.files[i],
           NEW p, IsTree(p)
    PROVE  /\ p \in r.dirs /\ (\E j \in DOMAIN r.files : r.files[j].path = p) =>
                 <<p>> \in DOMAIN all /\ \E i \in DOMAIN r.files : all[<<p>>] = r.files[i]
           /\ (\A j \in DOMAIN r.files : r.files[j].path = p => p \notin r.dirs)
                 /\ <<p>> \in DOMAIN derived_files =>
                       <<p>> \in DOMAIN all /\ all[<<p>>] = derived_files[<<p>>]
<1>1. PICK k : k = <<p>>
  OBVIOUS
<1>2. KeyOf(nodes, p) = k /\ k \notin Path /\ Producer(k) # e
  BY <1>1, Places_, Keys_, RegistryAssumption
<1>3. ASSUME NEW j \in DOMAIN r.files, KeyOf(nodes, r.files[j].path) = k PROVE r.files[j].path = p
  <2>1. PICK q : q = r.files[j].path
    OBVIOUS
  <2>2. q \in Path /\ KeyOf(nodes, q) = k
    BY <1>3, <2>1, Zenon
  <2>3. IsTree(q)
    BY <1>2, <2>2, Keys_, Zenon
  <2>4. <<q>> = <<p>>
    BY <1>1, <2>2, <2>3, Keys_, Zenon
  <2> QED BY <2>1, <2>4
<1>4. ASSUME p \in r.dirs, \E j \in DOMAIN r.files : r.files[j].path = p
      PROVE  k \in DOMAIN all /\ \E i \in DOMAIN r.files : all[k] = r.files[i]
  BY <1>2, <1>4, Zenon
<1>5. ASSUME \A j \in DOMAIN r.files : r.files[j].path = p => p \notin r.dirs, k \in DOMAIN derived_files
      PROVE  k \in DOMAIN all /\ all[k] = derived_files[k]
  BY <1>2, <1>3, <1>5, Zenon
<1> QED BY <1>1, <1>4, <1>5, Zenon

LEMMA TakesProducer ==
    ASSUME ProducerHeld, [Next]_vars, TreesKept, EditsTrees, Takes(Head(channel))
    PROVE  Unwritten' /\ Bringing' /\ KnownOuts' /\ OwnHeld' /\ TreesHeld'
<1> USE DEF ProducerHeld, RegHeld
<1>1. PICK r : r = Head(channel)
  OBVIOUS
<1>2. Takes(r) /\ channel # <<>> /\ channel' = Tail(channel) /\ emitted' = emitted
  BY <1>1 DEF Takes
<1>3. /\ 1 \in DOMAIN channel /\ channel[1] = r
      /\ \A i \in DOMAIN channel' : i + 1 \in DOMAIN channel /\ channel'[i] = channel[i + 1]
  BY <1>1, <1>2, Taken DEF Pending
<1>4. r.edge \in Edge /\ phase[r.edge] = "answered" /\ IsList(r.files)
  BY <1>3 DEF Pending
<1>5. PICK e \in Edge : e = r.edge
  BY <1>4
<1>6. Brings_(e, r)
  BY <1>3, <1>5 DEF Bringing
<1>7. KnownOuts'
  <2>1. nodes \subseteq nodes'
    BY <1>2 DEF Takes, Kept
  <2> QED BY <2>1, StaticKept DEF KnownOuts
<1>8. Unwritten'
  <2>1. CASE phase' = [phase EXCEPT ![r.edge] = "failed"] \/ phase' = [phase EXCEPT ![r.edge] = "done"]
    BY <1>2, <2>1 DEF Unwritten, Early, Drafts
  <2>2. CASE phase' = [phase EXCEPT ![r.edge] = "want"] /\ r.err = "" /\ r.defer # {}
    <3>1. emitted[e].outs = {}
      BY <1>6, <2>2 DEF Brings_
    <3> QED BY <1>2, <1>5, <2>2, <3>1 DEF Unwritten, Early, Drafts
  <2> QED BY <1>2, <2>1, <2>2 DEF Takes
<1>9. Bringing'
  <2> SUFFICES ASSUME NEW i \in DOMAIN channel', NEW f \in Edge, channel'[i].edge = f
               PROVE  Brings_(f, channel[i])'
    BY DEF Bringing
  <2>1. PICK q : q = channel'[i]
    OBVIOUS
  <2>2. Brings_(f, q)
    BY <1>3, <2>1 DEF Bringing
  <2>3. Brings_(f, q)'
    BY <1>2, <2>2, BringsKept
  <2> QED BY <2>1, <2>3 DEF Brings_
<1>10. ASSUME received' = received, Kept PROVE OwnHeld' /\ TreesHeld'
  <2>1. /\ DOMAIN derived_files \subseteq DOMAIN derived_files'
        /\ \A k \in DOMAIN derived_files : derived_files'[k] = derived_files[k]
    BY <1>10 DEF Kept
  <2>2. \A f \in Edge : phase[f] = "done" => emitted'[f] = emitted[f]
    BY <1>2
  <2> QED BY <1>10, <2>1, <2>2, FrameHolds
<1>11. ASSUME /\ r.err = "" /\ r.defer = {} /\ received' = Append(received, r.edge)
              /\ derived_files' = RecordAll(derived_files, nodes, r)
       PROVE  OwnHeld' /\ TreesHeld'
  <2>1. /\ \A p \in r.dirs : IsTree(p)
        /\ \A j \in DOMAIN r.files : r.files[j].path \in Path
        /\ \/ Silent(e) /\ emitted[e].outs = {} /\ r.dirs = {}
           \/ /\ r.dirs = EditedTrees(e)
              /\ \A j \in DOMAIN r.files : r.files[j].path \in emitted[e].outs /\ r.files[j].obj.by = e
              /\ \A n \in Outs(e) \cup Edits(e) : \E j \in DOMAIN r.files : r.files[j].path = n
    BY <1>6, <1>11 DEF Brings_
  <2>2. PICK all : all = derived_files'
    OBVIOUS
  <2>3. /\ \A k \in DOMAIN derived_files :
              (\A j \in DOMAIN r.files : KeyOf(nodes, r.files[j].path) = k =>
                    r.files[j].path \notin r.dirs /\ Producer(k) # r.edge)
                 => k \in DOMAIN all /\ all[k] = derived_files[k]
        /\ \A j \in DOMAIN r.files : \A k :
              KeyOf(nodes, r.files[j].path) = k /\ (r.files[j].path \in r.dirs \/ Producer(k) = r.edge)
                 => k \in DOMAIN all /\ \E i \in DOMAIN r.files : all[k] = r.files[i]
    <3>1. all = RecordAll(derived_files, nodes, r)
      BY <1>11, <2>2
    <3>2. IsList(r.files)
      BY <1>4
    <3> QED BY <3>1, <3>2, Displaced
  <2>4. \A p \in r.dirs : IsTree(p)
    BY <2>1
  <2>5. \A j \in DOMAIN r.files : r.files[j].path \in Path
    BY <2>1
  <2>6. received' = Append(received, e) /\ IsList(received) /\ r.edge = e /\ SameWorld /\ KnownOuts
    BY <1>5, <1>11 DEF Arrived
  <2>7. \A f \in Elems(received) : f \in Edge /\ f # e
    BY <1>4, <1>5 DEF Arrived
  <2>8. Elems(received') = Elems(received) \cup {e}
    BY <2>6, Appended
  <2>9. /\ \A f \in Edge : Edits(f)' = Edits(f)
        /\ \A f : Outs(f)' = Outs(f) /\ (Silent(f)' <=> Silent(f))
    BY <1>2, StaticKept DEF TreesKept, Edits
  <2>10. ASSUME NEW f \in Elems(received'), ~Silent(f), NEW n \in Outs(f)
         PROVE  n \in DOMAIN all /\ all[n].obj.by = f
    <3>1. f \in Edge
      BY <2>7, <2>8
    <3>2. /\ f # e /\ n \in DOMAIN derived_files => n \in DOMAIN all /\ all[n] = derived_files[n]
          /\ f = e /\ (\E j \in DOMAIN r.files : r.files[j].path = n) =>
                n \in DOMAIN all /\ \E i \in DOMAIN r.files : all[n] = r.files[i]
      BY <2>3, <2>4, <2>5, <2>6, <2>10, <3>1, TakesOwn
    <3>3. CASE f = e
      <4>1. /\ \A j \in DOMAIN r.files : r.files[j].obj.by = e
            /\ \E j \in DOMAIN r.files : r.files[j].path = n
        BY <2>1, <2>10, <3>3
      <4>2. PICK i \in DOMAIN r.files : n \in DOMAIN all /\ all[n] = r.files[i]
        BY <3>2, <3>3, <4>1, Zenon
      <4> QED BY <3>3, <4>1, <4>2
    <3>4. CASE f # e
      <4>1. f \in Elems(received)
        BY <2>8, <3>4
      <4>2. n \in DOMAIN derived_files /\ derived_files[n].obj.by = f
        BY <2>10, <4>1 DEF OwnHeld
      <4> QED BY <3>2, <3>4, <4>2
    <3> QED BY <3>3, <3>4
  <2>11. OwnHeld'
    <3>1. Elems(received)' = Elems(received')
      BY DEF Elems
    <3> QED BY <2>2, <2>9, <2>10, <3>1 DEF OwnHeld
  <2>12. ASSUME NEW f \in Elems(received'), NEW p \in Edits(f)
         PROVE  <<p>> \in DOMAIN all /\ all[<<p>>].obj.by = LastOf(Editors(p))'
    <3>1. f \in Edge /\ IsTree(p)
      BY <2>7, <2>8 DEF Edits, EditsTrees
    <3>2. /\ p \in r.dirs /\ (\E j \in DOMAIN r.files : r.files[j].path = p) =>
                <<p>> \in DOMAIN all /\ \E i \in DOMAIN r.files : all[<<p>>] = r.files[i]
          /\ (\A j \in DOMAIN r.files : r.files[j].path = p => p \notin r.dirs)
                /\ <<p>> \in DOMAIN derived_files =>
                      <<p>> \in DOMAIN all /\ all[<<p>>] = derived_files[<<p>>]
      BY <2>3, <2>5, <2>6, <3>1, TakesTree
    <3>3. PICK G : G = {g \in Elems(received') : p \in Edits(g)}
      OBVIOUS
    <3>4. LastOf(Editors(p))' = LastIn(received', G)
      <4>1. Editors(p)' = G
        <5>1. \A g \in Elems(received') : g \in Edge
          BY <2>7, <2>8
        <5>2. Elems(received)' = Elems(received')
          BY DEF Elems
        <5> QED BY <2>9, <3>3, <5>1, <5>2 DEF Editors
      <4> QED BY <4>1 DEF LastOf, LastIn
    <3>5. LastOf(Editors(p)) = LastIn(received, Editors(p))
      BY Zenon DEF LastOf, LastIn
    <3>6. PICK q : q = received
      OBVIOUS
    <3>7. received' = Append(q, e) /\ IsList(q)
      BY <2>6, <3>6
    <3>8. CASE p \in Edits(e)
      <4>1. /\ \A j \in DOMAIN r.files : r.files[j].obj.by = e
            /\ \E j \in DOMAIN r.files : r.files[j].path = p
            /\ p \in r.dirs
        BY <2>1, <3>8 DEF Edits
      <4>2. PICK i \in DOMAIN r.files : <<p>> \in DOMAIN all /\ all[<<p>>] = r.files[i]
        BY <3>2, <4>1, Zenon
      <4>3. e \in G
        BY <2>8, <3>3, <3>8
      <4>4. LastIn(received', G) = e
        <5>1. LastIn(Append(q, e), G) = e
          BY <3>7, <4>3, LastAppend
        <5> QED BY <3>7, <5>1
      <4> QED BY <3>4, <4>1, <4>2, <4>4
    <3>9. CASE p \notin Edits(e)
      <4>1. f \in Elems(received)
        BY <2>8, <3>9
      <4>2. <<p>> \in DOMAIN derived_files /\ derived_files[<<p>>].obj.by = LastOf(Editors(p))
        BY <4>1 DEF TreesHeld
      <4>3. ASSUME NEW j \in DOMAIN r.files, r.files[j].path = p, p \in r.dirs PROVE FALSE
        BY <2>1, <3>9, <4>3 DEF Edits
      <4>4. <<p>> \in DOMAIN all /\ all[<<p>>] = derived_files[<<p>>]
        BY <3>2, <4>2, <4>3, Zenon
      <4>5. G = Editors(p) /\ e \notin G
        BY <2>8, <3>3, <3>9 DEF Editors
      <4>6. \E j \in DOMAIN q : q[j] \in G
        BY <3>3, <3>6, <4>1, <4>5 DEF Editors, Elems
      <4>7. LastIn(received', G) = LastIn(q, G)
        <5>1. LastIn(Append(q, e), G) = LastIn(q, G)
          BY <3>7, <4>5, <4>6, LastAppend
        <5> QED BY <3>7, <5>1
      <4> QED BY <3>4, <3>5, <3>6, <4>2, <4>4, <4>5, <4>7
    <3> QED BY <3>8, <3>9
  <2>13. TreesHeld'
    <3>1. Elems(received)' = Elems(received')
      BY DEF Elems
    <3>2. \A f \in Elems(received') : Edits(f)' = Edits(f)
      BY <2>7, <2>8, <2>9
    <3> QED BY <2>2, <2>12, <3>1, <3>2 DEF TreesHeld
  <2> QED BY <2>11, <2>13
<1>12. \/ received' = received /\ Kept
       \/ /\ r.err = "" /\ r.defer = {} /\ received' = Append(received, r.edge)
          /\ derived_files' = RecordAll(derived_files, nodes, r)
  BY <1>2 DEF Takes
<1> QED BY <1>7, <1>8, <1>9, <1>10, <1>11, <1>12
LEMMA ProducerInit == Init => ProducerHeld
<1> SUFFICES ASSUME Init PROVE ProducerHeld
  OBVIOUS
<1>1. Unwritten
  <2>1. PICK N : N = NoDrv
    OBVIOUS
  <2>2. N.outs = {}
    BY <2>1 DEF NoDrv
  <2> QED BY <2>1, <2>2 DEF Init, Unwritten
<1>2. DOMAIN channel = {} /\ Elems(received) = {}
  BY DEF Init, Elems
<1>3. KnownOuts
  BY DEF Init, KnownOuts, Outs
<1> QED BY <1>1, <1>2, <1>3, RegInit DEF ProducerHeld, Bringing, OwnHeld, TreesHeld

LEMMA ProducerHolds ==
    ASSUME ProducerHeld, [Next]_vars, WritesKept, TreesKept, EarlierWrites, EditsTrees
    PROVE  ProducerHeld'
<1>1. RegHeld'
  BY RegHolds DEF ProducerHeld
<1>2. Calm \/ (\E e \in Edge : \E r : Sends(e, r)) \/ Takes(Head(channel))
  BY RegSteps DEF ProducerHeld, RegHeld
<1>3. Unwritten' /\ Bringing' /\ KnownOuts' /\ OwnHeld' /\ TreesHeld'
  BY <1>2, CalmProducer, SendsProducer, TakesProducer
<1> QED BY <1>1, <1>3 DEF ProducerHeld

(* What stands for an output is what its own edge wrote, whatever upload   *)
(* was registered for the name before; and what stands for a tree that     *)
(* steps edit in place is what the last of them left.  For the commands    *)
(* that write what they declared, and edit the same directories, whenever  *)
(* they are read.                                                          *)
THEOREM ProducerFollowed ==
    Spec /\ [][WritesKept]_written /\ [][TreesKept]_edited /\ []EarlierWrites /\ []EditsTrees
        => []RegistryFollowsProducer
<1>1. ProducerHeld /\ WritesKept /\ TreesKept /\ EarlierWrites /\ EditsTrees /\ [Next]_vars
         => ProducerHeld'
  BY ProducerHolds
<1>2. /\ UNCHANGED written => WritesKept
      /\ UNCHANGED edited => TreesKept
  BY DEF written, WritesKept, edited, TreesKept
<1>3. ProducerHeld /\ EditsTrees => RegistryFollowsProducer
  <2> SUFFICES ASSUME ProducerHeld, EditsTrees PROVE RegistryFollowsProducer
    OBVIOUS
  <2>1. \A e \in Elems(received) : e \in Edge
    BY DEF ProducerHeld, RegHeld, Arrived
  <2>2. ASSUME NEW e \in Elems(received), NEW n \in Outs(e), ~Says(e, "local"), ~Says(e, "phony")
        PROVE  derived_files[KeyOf(nodes, n)].obj.by = e
    <3>1. KeyOf(nodes, n) = n
      BY <2>1, <2>2, Keys_ DEF ProducerHeld, RegHeld
    <3>2. derived_files[n].obj.by = e
      BY <2>2 DEF ProducerHeld, OwnHeld, Silent
    <3> QED BY <3>1, <3>2
  <2>3. ASSUME NEW e \in Elems(received), NEW p \in Edits(e)
        PROVE  derived_files[KeyOf(nodes, p)].obj.by = LastOf({f \in Elems(received) : p \in Edits(f)})
    <3>1. IsTree(p)
      BY <2>1 DEF EditsTrees, Edits
    <3>2. KeyOf(nodes, p) = <<p>>
      BY <3>1, Keys_ DEF ProducerHeld, RegHeld
    <3>3. derived_files[<<p>>].obj.by = LastOf(Editors(p))
      BY DEF ProducerHeld, TreesHeld
    <3> QED BY <3>2, <3>3 DEF Editors
  <2> QED BY <2>2, <2>3, Zenon DEF RegistryFollowsProducer
<1> QED BY <1>1, <1>2, <1>3, ProducerInit, PTL DEF Spec
==============================================================================
