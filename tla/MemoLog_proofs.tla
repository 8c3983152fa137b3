---------------------------- MODULE MemoLog_proofs ----------------------------
(***************************************************************************)
(* Proofs about MemoLog, for any number of processes, driver builds, keys  *)
(* and invocations: a file holds the text of one build only, so a header   *)
(* speaks for every line after it.                                         *)
(***************************************************************************)
EXTENDS MemoLog, FiniteSetTheorems, SequenceTheorems, WellFoundedInduction, TLAPS

(* A set of naturals that is not empty has a least element. *)
LEMMA LeastExists ==
    ASSUME NEW T \in SUBSET Nat, T # {}
    PROVE  \E x \in T : \A y \in T : x <= y
<1>1. \E x \in T : \A y \in T : ~ (<<y, x>> \in OpToRel(<, Nat))
  BY NatLessThanWellFounded, WFMin
<1>2. PICK x \in T : \A y \in T : ~ (y < x)
  BY <1>1 DEF OpToRel
<1>3. \A y \in T : x <= y
  BY <1>2
<1> QED
  BY <1>3

(* A set of naturals up to c that is not empty has a greatest element. *)
LEMMA GreatestExists ==
    ASSUME NEW c \in Nat, NEW T \in SUBSET (0..c), T # {}
    PROVE  \E m \in T : \A t \in T : t <= m
<1> DEFINE D == {c - t : t \in T}
<1>1. D \in SUBSET Nat /\ D # {}
  <2>1. \A t \in T : t \in 0..c /\ c - t \in Nat
    OBVIOUS
  <2>2. PICK t \in T : TRUE
    OBVIOUS
  <2> QED
    BY <2>1, <2>2
<1>2. PICK x \in D : \A y \in D : x <= y
  <2> HIDE DEF D
  <2> QED
    BY <1>1, LeastExists
<1>3. PICK m \in T : x = c - m
  OBVIOUS
<1>4. \A t \in T : x <= c - t
  BY <1>2
<1> QED
  BY <1>3, <1>4

-----------------------------------------------------------------------------
Entry == [kind : {"entry"}, driver : Driver, key : Key]

Piece == {Newline}
         \cup [kind : {"header"}, driver : Driver]
         \cup Entry

Places == {"off", "stale", "up", "open", "header", "header end", "line", "line end"}

Flushes == Places \ {"off", "stale", "up"}

Types ==
    /\ exists \in BOOLEAN
    /\ text \in Seq(Piece)
    /\ at \in [Proc -> Places]
    /\ build \in [Proc -> Driver]
    /\ onFile \in [Proc -> BOOLEAN]
    /\ loaded \in [Proc -> UNION {[K -> [driver : Driver, whole : BOOLEAN]] : K \in SUBSET Key}]
    /\ pending \in [Proc -> Seq(Entry)]
    /\ lines \in [Proc -> Seq(Entry)]

(* All that is written in t, newlines apart, is of build d. *)
OfBuild(t, d) == \A i \in 1..Len(t) : t[i].kind # "newline" => t[i].driver = d

(* What a process has at hand. *)
HandSound(p) ==
    /\ OfBuild(pending[p], build[p])
    /\ OfBuild(lines[p], build[p])
    /\ at[p] = "off" => pending[p] = <<>> /\ lines[p] = <<>> /\ ~onFile[p]
    /\ at[p] \in Flushes => lines[p] # <<>>
    /\ onFile[p] => exists

TextSound ==
    /\ ~exists => text = <<>>
    /\ \E d : OfBuild(text, d)
    /\ \A p \in Proc : at[p] \notin {"off", "stale"} => OfBuild(text, build[p])

OneBuildUp == \A p, q \in Proc : at[p] # "off" /\ at[q] # "off" => build[p] = build[q]

LInv ==
    /\ Types
    /\ \A p \in Proc : HandSound(p)
    /\ TextSound
    /\ OneBuildUp
    /\ OthersNeverReplay

-----------------------------------------------------------------------------
(* Reading the file.                                                       *)

LEMMA LineStarts ==
    ASSUME NEW t \in Seq(Piece), t # <<>>, NEW x, LineAt(t, 1) = <<x>>
    PROVE  t[1] = x
<1>1. PICK E : E = {j \in Newlines(t) : j >= 1}
  OBVIOUS
<1>2. /\ Len(t) \in Nat /\ E \in SUBSET Nat /\ \A e \in E : e \in 1..Len(t)
  BY <1>1 DEF Newlines
<1>3. PICK c : c = CHOOSE j \in E : \A e \in E : j <= e
  OBVIOUS
<1>4. E # {} => c \in E
  BY <1>2, <1>3, LeastExists
<1>5. PICK n : n = IF E = {} THEN Len(t) ELSE c - 1
  OBVIOUS
<1>6. SubSeq(t, 1, n) = <<x>>
  BY <1>1, <1>3, <1>5 DEF LineAt
<1>7. /\ n \in Int
      /\ Len(SubSeq(t, 1, n)) = IF 1 <= n THEN n ELSE 0
      /\ 1 <= n => SubSeq(t, 1, n)[1] = t[1]
  <2>1. n \in Int /\ n <= Len(t)
    <3>1. CASE E = {}
      BY <1>2, <1>5, <3>1
    <3>2. CASE E # {}
      <4>1. c \in 1..Len(t) /\ n = c - 1
        BY <1>2, <1>4, <1>5, <3>2
      <4> QED
        BY <1>2, <4>1
    <3> QED
      BY <3>1, <3>2
  <2>2. \A i \in 1..n : t[i] \in Piece
    BY <1>2, <2>1
  <2> QED
    BY <1>2, <2>1, <2>2, SubSeqProperties
<1>8. Len(<<x>>) = 1 /\ <<x>>[1] = x
  OBVIOUS
<1>9. n = 1
  <2>1. (IF 1 <= n THEN n ELSE 0) = 1
    BY <1>6, <1>7, <1>8
  <2> QED
    BY <1>7, <2>1
<1>10. SubSeq(t, 1, n)[1] = x
  BY Zenon, <1>6, <1>8
<1> QED
  BY <1>7, <1>9, <1>10

(* A header speaks for the whole text. *)
LEMMA HeaderSpeaks ==
    ASSUME NEW t \in Seq(Piece), NEW c, OfBuild(t, c),
           NEW d \in Driver, HeaderFits(t, d)
    PROVE  OfBuild(t, d)
<1>1. t[1] = Header(d) /\ 1 \in 1..Len(t)
  BY LineStarts DEF HeaderFits
<1>2. c = d
  BY <1>1 DEF OfBuild, Header
<1> QED
  BY <1>2

LEMMA ParseOfBuild ==
    ASSUME NEW t \in Seq(Piece), NEW d \in Driver, OfBuild(t, d)
    PROVE  /\ DOMAIN Parse(t) \subseteq Key
           /\ Parse(t) \in [DOMAIN Parse(t) -> [driver : {d}, whole : BOOLEAN]]
<1>1. /\ Len(t) \in Nat /\ EntryStarts(t) \subseteq 1..Len(t)
      /\ \A i \in EntryStarts(t) : t[i].driver = d /\ t[i].key \in Key
  <2>1. EntryStarts(t) \subseteq {i \in 1..Len(t) : t[i].kind = "entry"}
    BY DEF EntryStarts
  <2>2. \A i \in 1..Len(t) : t[i].kind = "entry" => t[i].key \in Key
    BY DEF Piece, Entry, Newline
  <2> QED
    BY <2>1, <2>2 DEF OfBuild
<1> DEFINE Of(k) == {i \in EntryStarts(t) : t[i].key = k}
           last(k) == CHOOSE i \in EntryStarts(t) :
                         /\ t[i].key = k
                         /\ \A j \in EntryStarts(t) : t[j].key = k => j <= i
<1>2. ASSUME NEW k \in {t[i].key : i \in EntryStarts(t)} PROVE last(k) \in EntryStarts(t)
  <2>1. Of(k) \in SUBSET (0..Len(t)) /\ Of(k) # {}
    BY <1>1
  <2>2. \E m \in Of(k) : \A i \in Of(k) : i <= m
    <3> HIDE DEF Of
    <3> QED
      BY <1>1, <2>1, GreatestExists
  <2> QED
    BY <2>2
<1>3. Parse(t) = [k \in {t[i].key : i \in EntryStarts(t)} |->
                     [driver |-> t[last(k)].driver, whole |-> Len(LineAt(t, last(k))) = 1]]
  BY DEF Parse
<1> HIDE DEF last
<1>4. \A k \in {t[i].key : i \in EntryStarts(t)} : t[last(k)].driver = d
  BY <1>1, <1>2
<1> QED
  BY <1>1, <1>3, <1>4

-----------------------------------------------------------------------------
(* Steps.                                                                  *)

LEMMA InitLog == Init => LInv
<1> SUFFICES ASSUME Init PROVE LInv
  OBVIOUS
<1> DEFINE Tables == UNION {[K -> [driver : Driver, whole : BOOLEAN]] : K \in SUBSET Key}
<1>1. Nothing \in Tables /\ DOMAIN Nothing = {}
  <2>1. Nothing \in [{} -> [driver : Driver, whole : BOOLEAN]]
    BY DEF Nothing
  <2> QED
    BY <2>1 DEF Nothing
<1>2. Types
  <2>1. /\ at \in [Proc -> Places] /\ build \in [Proc -> Driver] /\ onFile \in [Proc -> BOOLEAN]
        /\ exists \in BOOLEAN /\ text = <<>>
    BY DEF Init, Places
  <2>2. <<>> \in Seq(Piece) /\ <<>> \in Seq(Entry)
    OBVIOUS
  <2>3. pending \in [Proc -> Seq(Entry)] /\ lines \in [Proc -> Seq(Entry)]
    BY <2>2 DEF Init
  <2>4. loaded \in [Proc -> Tables]
    <3> HIDE DEF Tables
    <3> QED
      BY <1>1 DEF Init
  <2> QED
    BY <2>1, <2>2, <2>3, <2>4 DEF Types
<1>3. \A d : OfBuild(<<>>, d)
  BY DEF OfBuild
<1>4. \A p \in Proc : HandSound(p)
  BY <1>3 DEF Init, HandSound, Flushes
<1>5. TextSound
  BY <1>3 DEF Init, TextSound
<1>6. OneBuildUp /\ OthersNeverReplay
  BY <1>1 DEF Init, OneBuildUp, OthersNeverReplay
<1> QED
  BY <1>2, <1>4, <1>5, <1>6 DEF LInv

(* Appending keeps a text of one build, if the piece is of that build. *)
LEMMA AppendOfBuild ==
    ASSUME NEW S, NEW t \in Seq(S), NEW d, OfBuild(t, d), NEW x \in S,
           x.kind # "newline" => x.driver = d
    PROVE  Append(t, x) \in Seq(S) /\ OfBuild(Append(t, x), d)
<1>1. /\ Append(t, x) \in Seq(S) /\ Len(Append(t, x)) = Len(t) + 1 /\ Len(t) \in Nat
      /\ Append(t, x)[Len(t) + 1] = x
      /\ \A i \in 1..Len(t) : Append(t, x)[i] = t[i]
  OBVIOUS
<1> QED
  BY <1>1 DEF OfBuild

LEMMA StartLog ==
    ASSUME LInv, ~mixed', NEW p \in Proc, NEW d \in Driver, Start(p, d)
    PROVE  LInv'
<1> DEFINE fits == exists /\ HeaderFits(text, d)
<1>1. /\ at[p] = "off" /\ build' = [build EXCEPT ![p] = d]
      /\ at' = [at EXCEPT ![p] = IF exists /\ ~HeaderFits(text, d) THEN "stale" ELSE "up"]
      /\ loaded' = [loaded EXCEPT ![p] = IF fits THEN Parse(text) ELSE Nothing]
      /\ \A q \in Proc : at[q] # "off" => build[q] = d
      /\ UNCHANGED <<exists, text, pending, lines, onFile>>
  BY DEF Start
<1>2. /\ at \in [Proc -> Places] /\ build \in [Proc -> Driver] /\ text \in Seq(Piece)
      /\ HandSound(p) /\ TextSound
  BY DEF LInv, Types
<1>3. /\ build'[p] = d /\ at'[p] \in {"stale", "up"}
      /\ \A q \in Proc \ {p} : build'[q] = build[q] /\ at'[q] = at[q]
                               /\ loaded'[q] = loaded[q]
  BY <1>1, <1>2 DEF LInv, Types
<1>4. fits => OfBuild(text, d)
  BY <1>2, HeaderSpeaks DEF TextSound
<1>5. /\ loaded'[p] \in UNION {[K -> [driver : Driver, whole : BOOLEAN]] : K \in SUBSET Key}
      /\ \A k \in DOMAIN loaded'[p] : loaded'[p][k].driver = d
  <2>1. loaded'[p] = IF fits THEN Parse(text) ELSE Nothing
    BY <1>1 DEF LInv, Types
  <2>2. CASE fits
    <3>1. /\ DOMAIN Parse(text) \subseteq Key
          /\ Parse(text) \in [DOMAIN Parse(text) -> [driver : {d}, whole : BOOLEAN]]
      BY <1>2, <1>4, <2>2, ParseOfBuild
    <3>2. Parse(text) \in [DOMAIN Parse(text) -> [driver : Driver, whole : BOOLEAN]]
      BY <3>1
    <3> QED
      BY <2>1, <2>2, <3>1, <3>2
  <2>3. CASE ~fits
    <3>1. Nothing \in [{} -> [driver : Driver, whole : BOOLEAN]] /\ DOMAIN Nothing = {}
      BY DEF Nothing
    <3> QED
      BY <2>1, <2>3, <3>1
  <2> QED
    BY <2>2, <2>3
<1>6. Types'
  <2>1. at' \in [Proc -> Places] /\ build' \in [Proc -> Driver]
    BY <1>1, <1>2 DEF Places
  <2>2. loaded' \in [Proc -> UNION {[K -> [driver : Driver, whole : BOOLEAN]] : K \in SUBSET Key}]
    BY <1>1, <1>5 DEF LInv, Types
  <2> QED
    BY <1>1, <2>1, <2>2 DEF LInv, Types
<1>7. ASSUME NEW q \in Proc PROVE HandSound(q)'
  <2>1. HandSound(q)
    BY DEF LInv
  <2>2. CASE q = p
    BY <1>1, <1>2, <1>3, <2>2 DEF HandSound, Flushes, OfBuild
  <2>3. CASE q # p
    BY <1>1, <1>3, <2>1, <2>3 DEF HandSound
  <2> QED
    BY <2>2, <2>3
<1>8. TextSound'
  <2>1. \A q \in Proc : at'[q] \notin {"off", "stale"} => OfBuild(text, build'[q])
    <3>1. at'[p] # "stale" => OfBuild(text, d)
      BY <1>1, <1>2, <1>4 DEF TextSound, OfBuild
    <3> QED
      BY <1>2, <1>3, <3>1 DEF TextSound
  <2> QED
    BY <1>1, <1>2, <2>1 DEF TextSound
<1>9. OneBuildUp'
  BY <1>1, <1>3 DEF OneBuildUp
<1>10. OthersNeverReplay'
  BY <1>3, <1>5 DEF LInv, OthersNeverReplay
<1> QED
  BY <1>6, <1>7, <1>8, <1>9, <1>10 DEF LInv

(* The file goes; whoever has it open writes where nobody reads. *)
LEMMA DiscardLog ==
    ASSUME LInv, NEW p \in Proc, Discard(p)
    PROVE  LInv'
<1>1. /\ at[p] = "stale" /\ exists' = FALSE /\ text' = <<>>
      /\ onFile' = [q \in Proc |-> FALSE] /\ at' = [at EXCEPT ![p] = "up"]
      /\ UNCHANGED <<build, loaded, pending, lines>>
  BY DEF Discard, RemoveStale
<1>2. at \in [Proc -> Places]
  BY DEF LInv, Types
<1>3. Types'
  <2>1. at' \in [Proc -> Places]
    BY <1>1, <1>2 DEF Places
  <2>2. <<>> \in Seq(Piece)
    OBVIOUS
  <2>3. onFile' \in [Proc -> BOOLEAN] /\ exists' \in BOOLEAN
    BY <1>1
  <2> QED
    BY <1>1, <2>1, <2>2, <2>3 DEF LInv, Types
<1>4. \A q \in Proc : HandSound(q)'
  BY <1>1, <1>2 DEF LInv, HandSound, Flushes
<1>5. TextSound'
  BY <1>1 DEF TextSound, OfBuild
<1>6. OneBuildUp'
  BY <1>1, <1>2 DEF LInv, OneBuildUp
<1> QED
  BY <1>1, <1>3, <1>4, <1>5, <1>6 DEF LInv, OthersNeverReplay

LEMMA RecordLog ==
    ASSUME LInv, NEW p \in Proc, NEW k \in Key, Record(p, k)
    PROVE  LInv'
<1> DEFINE l == Line(build[p], k)
<1>1. /\ at[p] \notin {"off", "stale"} /\ build[p] \in Driver
      /\ pending' = [pending EXCEPT ![p] = Append(@, l)]
      /\ UNCHANGED <<exists, text, at, build, lines, onFile>>
  BY DEF Record, LInv, Types
<1>2. l \in Entry /\ l.driver = build[p]
  BY <1>1 DEF Line, Entry
<1>3. /\ \A q \in Proc : loaded'[q] \in
            UNION {[K -> [driver : Driver, whole : BOOLEAN]] : K \in SUBSET Key}
      /\ DOMAIN loaded' = Proc /\ loaded' = [q \in Proc |-> loaded'[q]]
      /\ \A q \in Proc : \A x \in DOMAIN loaded'[q] : loaded'[q][x].driver = build[q]
  <2>1. loaded \in [Proc -> UNION {[K -> [driver : Driver, whole : BOOLEAN]] : K \in SUBSET Key}]
    BY DEF LInv, Types
  <2>2. \A q \in Proc : \A x \in DOMAIN loaded[q] : loaded[q][x].driver = build[q]
    BY DEF LInv, OthersNeverReplay
  <2>3. CASE loaded' = loaded
    BY <2>1, <2>2, <2>3
  <2>4. CASE loaded' = [loaded EXCEPT ![p] =
                          [x \in DOMAIN @ \cup {k} |->
                              IF x = k THEN [driver |-> build[p], whole |-> TRUE]
                              ELSE @[x]]]
    <3> DEFINE m == [x \in DOMAIN loaded[p] \cup {k} |->
                        IF x = k THEN [driver |-> build[p], whole |-> TRUE]
                        ELSE loaded[p][x]]
    <3>1. PICK K \in SUBSET Key : loaded[p] \in [K -> [driver : Driver, whole : BOOLEAN]]
      BY <2>1
    <3>2. m \in [K \cup {k} -> [driver : Driver, whole : BOOLEAN]]
      BY <1>1, <3>1
    <3>3. \A x \in DOMAIN m : m[x].driver = build[p]
      BY <2>2
    <3>4. loaded' = [loaded EXCEPT ![p] = m]
      BY <2>4
    <3> HIDE DEF m
    <3>5. /\ DOMAIN loaded' = Proc /\ loaded'[p] = m
          /\ \A q \in Proc \ {p} : loaded'[q] = loaded[q]
          /\ loaded' = [q \in Proc |-> loaded'[q]]
      BY <2>1, <3>4
    <3>6. K \cup {k} \in SUBSET Key
      OBVIOUS
    <3> QED
      BY <2>1, <2>2, <3>2, <3>3, <3>5, <3>6
  <2> QED
    BY <2>3, <2>4 DEF Record
<1> HIDE DEF l
<1>4. Append(pending[p], l) \in Seq(Entry) /\ OfBuild(Append(pending[p], l), build[p])
  BY <1>2, AppendOfBuild DEF LInv, Types, HandSound
<1>5. Types'
  <2>1. pending' \in [Proc -> Seq(Entry)]
    BY <1>1, <1>4 DEF LInv, Types
  <2>2. loaded' \in [Proc -> UNION {[K -> [driver : Driver, whole : BOOLEAN]] : K \in SUBSET Key}]
    BY <1>3
  <2> QED
    BY <1>1, <2>1, <2>2 DEF LInv, Types
<1>6. ASSUME NEW q \in Proc PROVE HandSound(q)'
  <2>1. HandSound(q) /\ pending \in [Proc -> Seq(Entry)]
    BY DEF LInv, Types
  <2>2. CASE q = p
    BY <1>1, <1>4, <2>1, <2>2 DEF HandSound
  <2>3. CASE q # p
    BY <1>1, <2>1, <2>3 DEF HandSound
  <2> QED
    BY <2>2, <2>3
<1>7. TextSound' /\ OneBuildUp' /\ OthersNeverReplay'
  BY <1>1, <1>3 DEF LInv, TextSound, OneBuildUp, OthersNeverReplay
<1> QED
  BY <1>5, <1>6, <1>7 DEF LInv

LEMMA LookupLog ==
    ASSUME LInv, NEW p \in Proc, NEW k \in Key, Lookup(p, k)
    PROVE  LInv'
<1> DEFINE m == [x \in DOMAIN loaded[p] \ {k} |-> loaded[p][x]]
           Tables == UNION {[K -> [driver : Driver, whole : BOOLEAN]] : K \in SUBSET Key}
<1>1. /\ loaded' = [loaded EXCEPT ![p] = m]
      /\ UNCHANGED <<exists, text, at, build, pending, lines, onFile>>
  BY DEF Lookup
<1>2. loaded \in [Proc -> Tables]
  BY DEF LInv, Types
<1>3. m \in Tables
  <2>1. PICK K \in SUBSET Key : loaded[p] \in [K -> [driver : Driver, whole : BOOLEAN]]
    BY <1>2
  <2>2. m \in [K \ {k} -> [driver : Driver, whole : BOOLEAN]]
    BY <2>1
  <2> QED
    BY <2>2
<1>4. \A x \in DOMAIN m : m[x].driver = build[p]
  BY DEF LInv, OthersNeverReplay
<1> HIDE DEF m, Tables
<1>5. loaded' \in [Proc -> Tables] /\ loaded'[p] = m
      /\ \A q \in Proc \ {p} : loaded'[q] = loaded[q]
  BY <1>1, <1>2, <1>3
<1>6. Types'
  <2>1. loaded' \in [Proc -> UNION {[K -> [driver : Driver, whole : BOOLEAN]] : K \in SUBSET Key}]
    BY <1>5 DEF Tables
  <2> QED
    BY <1>1, <2>1 DEF LInv, Types
<1>7. OthersNeverReplay'
  BY <1>1, <1>4, <1>5 DEF LInv, OthersNeverReplay
<1> QED
  BY <1>1, <1>6, <1>7 DEF LInv, HandSound, TextSound, OneBuildUp

LEMMA FlushLog ==
    ASSUME LInv, NEW p \in Proc, Flush(p)
    PROVE  LInv'
<1>1. /\ at[p] = "up" /\ pending[p] # <<>>
      /\ lines' = [lines EXCEPT ![p] = pending[p]]
      /\ pending' = [pending EXCEPT ![p] = <<>>]
      /\ at' = [at EXCEPT ![p] = "open"]
      /\ UNCHANGED <<exists, text, build, loaded, onFile>>
  BY DEF Flush, TakePending
<1>2. /\ at \in [Proc -> Places]
      /\ pending \in [Proc -> Seq(Entry)] /\ lines \in [Proc -> Seq(Entry)]
      /\ <<>> \in Seq(Entry)
  BY DEF LInv, Types
<1>3. Types'
  <2>1. at' \in [Proc -> Places]
    BY <1>1, <1>2 DEF Places
  <2>2. lines' \in [Proc -> Seq(Entry)] /\ pending' \in [Proc -> Seq(Entry)]
    BY <1>1, <1>2
  <2> QED
    BY <1>1, <2>1, <2>2 DEF LInv, Types
<1>4. ASSUME NEW q \in Proc PROVE HandSound(q)'
  <2>1. HandSound(q)
    BY DEF LInv
  <2>2. CASE q = p
    <3>1. /\ at'[q] = "open" /\ pending'[q] = <<>> /\ lines'[q] = pending[q]
      BY <1>1, <1>2, <2>2
    <3>2. OfBuild(<<>>, build[q])
      BY DEF OfBuild
    <3> QED
      BY <1>1, <2>1, <2>2, <3>1, <3>2 DEF HandSound
  <2>3. CASE q # p
    BY <1>1, <2>1, <2>3 DEF HandSound
  <2> QED
    BY <2>2, <2>3
<1>5. TextSound' /\ OneBuildUp' /\ OthersNeverReplay'
  <2>1. \A q \in Proc : at'[q] \in {"off", "stale"} <=> at[q] \in {"off", "stale"}
    BY <1>1, <1>2
  <2>2. \A q \in Proc : at'[q] = "off" <=> at[q] = "off"
    BY <1>1, <1>2
  <2> QED
    BY <1>1, <2>1, <2>2 DEF LInv, TextSound, OneBuildUp, OthersNeverReplay
<1> QED
  BY <1>3, <1>4, <1>5 DEF LInv

(* A process that is flushing moves on, with what it has left to write.    *)
LEMMA FlushStep ==
    ASSUME LInv, NEW p \in Proc, at[p] \in Flushes,
           NEW a \in Flushes \cup {"up"}, at' = [at EXCEPT ![p] = a],
           NEW l \in Seq(Entry), lines' = [lines EXCEPT ![p] = l],
           OfBuild(l, build[p]), a # "up" => l # <<>>,
           NEW f \in BOOLEAN, onFile' = [onFile EXCEPT ![p] = f], f => exists',
           exists' \in {exists, TRUE},
           NEW x \in Piece, x.kind # "newline" => x.driver = build[p],
           text' = text \/ (exists /\ text' = Append(text, x)),
           UNCHANGED <<build, loaded, pending>>
    PROVE  LInv'
<1>1. /\ at \in [Proc -> Places] /\ exists \in BOOLEAN /\ text \in Seq(Piece)
      /\ lines \in [Proc -> Seq(Entry)] /\ onFile \in [Proc -> BOOLEAN]
  BY DEF LInv, Types
<1>2. /\ at'[p] = a /\ lines'[p] = l /\ onFile'[p] = f
      /\ \A q \in Proc \ {p} : at'[q] = at[q] /\ lines'[q] = lines[q] /\ onFile'[q] = onFile[q]
  BY <1>1
<1>3. OfBuild(text, build[p])
  BY DEF Flushes, LInv, TextSound
<1>4. text' \in Seq(Piece) /\ OfBuild(text', build[p])
  <2>1. CASE text' = text
    BY <1>1, <1>3, <2>1
  <2>2. CASE text' = Append(text, x)
    <3>1. Append(text, x) \in Seq(Piece) /\ OfBuild(Append(text, x), build[p])
      BY <1>1, <1>3, AppendOfBuild
    <3> QED
      BY <2>2, <3>1
  <2> QED
    BY <2>1, <2>2
<1>5. Types'
  <2>1. at' \in [Proc -> Places]
    BY <1>1 DEF Places, Flushes
  <2>2. lines' \in [Proc -> Seq(Entry)] /\ onFile' \in [Proc -> BOOLEAN] /\ exists' \in BOOLEAN
    BY <1>1
  <2> QED
    BY <1>4, <2>1, <2>2 DEF LInv, Types
<1>6. ASSUME NEW q \in Proc PROVE HandSound(q)'
  <2>1. HandSound(q)
    BY DEF LInv
  <2>2. CASE q = p
    BY <1>2, <2>1, <2>2 DEF HandSound, Flushes
  <2>3. CASE q # p
    BY <1>1, <1>2, <2>1, <2>3 DEF HandSound
  <2> QED
    BY <2>2, <2>3
<1>7. at[p] \notin {"off", "stale"} /\ a \notin {"off", "stale"}
  BY DEF Flushes
<1>8. TextSound'
  <2>1. TextSound /\ OneBuildUp
    BY DEF LInv
  <2>2. \A q \in Proc : at'[q] \notin {"off", "stale"} => build[q] = build[p]
    BY <1>2, <1>7, <2>1 DEF OneBuildUp
  <2>3. ~exists' => text' = <<>>
    BY <2>1, <1>1 DEF TextSound
  <2> QED
    BY <1>4, <2>2, <2>3 DEF TextSound
<1>9. OneBuildUp' /\ OthersNeverReplay'
  BY <1>2, <1>7 DEF LInv, OneBuildUp, OthersNeverReplay
<1> QED
  BY <1>5, <1>6, <1>8, <1>9 DEF LInv

LEMMA FlushingLog ==
    ASSUME LInv, NEW p \in Proc, Flushing(p)
    PROVE  LInv'
<1>1. /\ at \in [Proc -> Places] /\ exists \in BOOLEAN /\ build[p] \in Driver
      /\ lines \in [Proc -> Seq(Entry)] /\ onFile \in [Proc -> BOOLEAN]
      /\ HandSound(p)
  BY DEF LInv, Types
<1>2. /\ lines = [lines EXCEPT ![p] = lines[p]]
      /\ onFile = [onFile EXCEPT ![p] = onFile[p]]
      /\ lines[p] \in Seq(Entry) /\ onFile[p] \in BOOLEAN
  BY <1>1
<1>3. \A x : Put(p, x) => text' = text \/ (exists /\ text' = Append(text, x))
  BY <1>1 DEF Put, HandSound
<1>4. Newline \in Piece /\ Newline.kind = "newline"
  BY DEF Piece, Newline
<1>5. CASE Flush(p)
  BY <1>5, FlushLog
<1>6. CASE Open(p)
  <2>1. PICK a \in {"header", "line"} : at' = [at EXCEPT ![p] = a]
    BY <1>6 DEF Open
  <2>2. /\ at[p] \in Flushes /\ a \in Flushes
        /\ exists' = TRUE /\ onFile' = [onFile EXCEPT ![p] = TRUE]
        /\ UNCHANGED <<text, build, loaded, pending, lines>>
    BY <1>6, <2>1 DEF Open, Flushes, Places
  <2> QED
    BY <1>1, <1>2, <1>4, <2>1, <2>2, FlushStep DEF HandSound
<1>7. CASE PutHeader(p)
  <2>1. /\ at[p] \in Flushes /\ at' = [at EXCEPT ![p] = "header end"]
        /\ "header end" \in Flushes
        /\ Put(p, Header(build[p])) /\ UNCHANGED <<exists, build, loaded, pending, lines, onFile>>
    BY <1>7 DEF PutHeader, procVars, Flushes, Places
  <2>2. Header(build[p]) \in Piece /\ Header(build[p]).driver = build[p]
    BY <1>1 DEF Header, Piece
  <2> QED
    BY <1>1, <1>2, <1>3, <2>1, <2>2, FlushStep DEF HandSound
<1>8. CASE PutNewline(p)
  <2>1. /\ at[p] \in Flushes /\ at' = [at EXCEPT ![p] = "line"] /\ "line" \in Flushes
        /\ Put(p, Newline) /\ UNCHANGED <<exists, build, loaded, pending, lines, onFile>>
    BY <1>8 DEF PutNewline, procVars, Flushes, Places
  <2> QED
    BY <1>1, <1>2, <1>3, <1>4, <2>1, FlushStep DEF HandSound
<1>9. CASE PutLine(p)
  <2>1. /\ at[p] \in Flushes /\ at' = [at EXCEPT ![p] = "line end"] /\ "line end" \in Flushes
        /\ Put(p, Head(lines[p])) /\ UNCHANGED <<exists, build, loaded, pending, lines, onFile>>
    BY <1>9 DEF PutLine, procVars, Flushes, Places
  <2>2. lines[p] # <<>> /\ OfBuild(lines[p], build[p])
    BY <1>1, <2>1 DEF HandSound
  <2>3. Head(lines[p]) \in Entry /\ Head(lines[p]) = lines[p][1] /\ 1 \in 1..Len(lines[p])
    BY <1>2, <2>2
  <2>4. Head(lines[p]) \in Piece /\ Head(lines[p]).driver = build[p]
    BY <2>2, <2>3 DEF Piece, Entry, OfBuild
  <2>5. PICK x \in Piece : x = Head(lines[p])
    BY <2>4
  <2>6. x.driver = build[p] /\ (text' = text \/ (exists /\ text' = Append(text, x)))
    BY <1>3, <2>1, <2>4, <2>5
  <2> QED
    BY <1>1, <1>2, <2>1, <2>2, <2>6, FlushStep DEF HandSound
<1>10. CASE EndLine(p)
  <2>1. /\ at[p] \in Flushes /\ at[p] = "line end"
        /\ at' = [at EXCEPT ![p] = IF Len(lines[p]) = 1 THEN "up" ELSE "line"]
        /\ lines' = [lines EXCEPT ![p] = Tail(lines[p])]
        /\ Put(p, Newline) /\ UNCHANGED <<exists, build, loaded, pending, onFile>>
    BY <1>10 DEF EndLine, Flushes, Places
  <2>2. lines[p] # <<>> /\ OfBuild(lines[p], build[p])
    BY <1>1, <2>1 DEF HandSound
  <2>3. PICK l : l = Tail(lines[p])
    OBVIOUS
  <2>4. /\ l \in Seq(Entry) /\ Len(l) = Len(lines[p]) - 1 /\ Len(lines[p]) \in Nat
        /\ \A i \in 1..Len(l) : l[i] = lines[p][i + 1]
    BY <1>2, <2>2, <2>3
  <2>5. OfBuild(l, build[p])
    BY <2>2, <2>4 DEF OfBuild
  <2>6. PICK a \in Flushes \cup {"up"} :
           at' = [at EXCEPT ![p] = a] /\ (a # "up" => l # <<>>)
    <3>1. CASE Len(lines[p]) = 1
      BY <2>1, <3>1
    <3>2. CASE Len(lines[p]) # 1
      <4>1. l # <<>>
        <5>1. Len(lines[p]) # 0
          BY <1>2, <2>2
        <5>2. Len(l) # 0
          BY <2>4, <3>2
        <5> QED
          BY <5>2
      <4> QED
        BY <2>1, <3>2, <4>1 DEF Flushes, Places
    <3> QED
      BY <3>1, <3>2
  <2>7. text' = text \/ (exists /\ text' = Append(text, Newline))
    BY <1>3, <2>1
  <2>8. lines' = [lines EXCEPT ![p] = l] /\ exists' = exists /\ (onFile[p] => exists)
    BY <1>1, <2>1, <2>3 DEF HandSound
  <2>9. onFile' = [onFile EXCEPT ![p] = onFile[p]] /\ onFile[p] \in BOOLEAN
    BY <1>2, <2>1
  <2>10. UNCHANGED <<exists, build, loaded, pending>> /\ at[p] \in Flushes
    BY <2>1
  <2>11. l \in Seq(Entry) /\ lines' = [lines EXCEPT ![p] = l]
    BY <2>4, <2>8
  <2> QED
    BY <1>1, <1>4, <2>5, <2>6, <2>7, <2>9, <2>10, <2>11, FlushStep DEF HandSound
<1> QED
  BY <1>5, <1>6, <1>7, <1>8, <1>9, <1>10 DEF Flushing

(* The driver ends, or is killed. *)
LEMMA GoneLog ==
    ASSUME LInv, NEW p \in Proc, Gone(p)
    PROVE  LInv'
<1>1. /\ at' = [at EXCEPT ![p] = "off"] /\ loaded' = [loaded EXCEPT ![p] = Nothing]
      /\ pending' = [pending EXCEPT ![p] = <<>>] /\ lines' = [lines EXCEPT ![p] = <<>>]
      /\ onFile' = [onFile EXCEPT ![p] = FALSE]
      /\ UNCHANGED <<exists, text, build>>
  BY DEF Gone
<1> DEFINE Tables == UNION {[K -> [driver : Driver, whole : BOOLEAN]] : K \in SUBSET Key}
<1>2. /\ at \in [Proc -> Places] /\ onFile \in [Proc -> BOOLEAN] /\ loaded \in [Proc -> Tables]
      /\ pending \in [Proc -> Seq(Entry)] /\ lines \in [Proc -> Seq(Entry)]
      /\ <<>> \in Seq(Entry)
  BY DEF LInv, Types
<1>3. Nothing \in Tables /\ DOMAIN Nothing = {}
  <2>1. Nothing \in [{} -> [driver : Driver, whole : BOOLEAN]]
    BY DEF Nothing
  <2> QED
    BY <2>1
<1> HIDE DEF Tables
<1>4. Types'
  <2>1. at' \in [Proc -> Places]
    BY <1>1, <1>2 DEF Places
  <2>2. loaded' \in [Proc -> UNION {[K -> [driver : Driver, whole : BOOLEAN]] : K \in SUBSET Key}]
    BY <1>1, <1>2, <1>3 DEF Tables
  <2>3. /\ pending' \in [Proc -> Seq(Entry)] /\ lines' \in [Proc -> Seq(Entry)]
        /\ onFile' \in [Proc -> BOOLEAN]
    BY <1>1, <1>2
  <2> QED
    BY <1>1, <2>1, <2>2, <2>3 DEF LInv, Types
<1>5. ASSUME NEW q \in Proc PROVE HandSound(q)'
  <2>1. HandSound(q)
    BY DEF LInv
  <2>2. CASE q = p
    <3>1. OfBuild(<<>>, build[q])
      BY DEF OfBuild
    <3> QED
      BY <1>1, <1>2, <2>2, <3>1 DEF HandSound, Flushes
  <2>3. CASE q # p
    BY <1>1, <2>1, <2>3 DEF HandSound
  <2> QED
    BY <2>2, <2>3
<1>6. TextSound' /\ OneBuildUp'
  BY <1>1, <1>2 DEF LInv, TextSound, OneBuildUp
<1>7. OthersNeverReplay'
  BY <1>1, <1>2, <1>3 DEF LInv, OthersNeverReplay
<1> QED
  BY <1>4, <1>5, <1>6, <1>7 DEF LInv

LEMMA StepLog == ~mixed' /\ LInv /\ [Next]_vars => LInv'
<1> SUFFICES ASSUME ~mixed', LInv, [Next]_vars PROVE LInv'
  OBVIOUS
<1>1. ASSUME NEW p \in Proc, NEW d \in Driver, Start(p, d) PROVE LInv'
  BY <1>1, StartLog
<1>2. ASSUME NEW p \in Proc, Discard(p) PROVE LInv'
  BY <1>2, DiscardLog
<1>3. ASSUME NEW p \in Proc, NEW k \in Key, Record(p, k) PROVE LInv'
  BY <1>3, RecordLog
<1>4. ASSUME NEW p \in Proc, NEW k \in Key, Lookup(p, k) PROVE LInv'
  BY <1>4, LookupLog
<1>5. ASSUME NEW p \in Proc, Flushing(p) PROVE LInv'
  BY <1>5, FlushingLog
<1>6. ASSUME NEW p \in Proc, Gone(p) PROVE LInv'
  BY <1>6, GoneLog
<1>7. CASE UNCHANGED vars
  BY <1>7 DEF vars, procVars, LInv, Types, HandSound, TextSound, OneBuildUp, OthersNeverReplay
<1> QED
  BY <1>1, <1>2, <1>3, <1>4, <1>5, <1>6, <1>7 DEF Next

(* Builds that have been up together stay so in the log, and were shared.  *)
LEMMA StepMixed ==
    ASSUME [Next]_vars
    PROVE  /\ mixed => mixed'
           /\ (mixed => shared) => (mixed' => shared')
<1>1. ASSUME NEW p \in Proc, NEW d \in Driver, Start(p, d)
      PROVE  /\ mixed => mixed'
             /\ (mixed => shared) => (mixed' => shared')
  <2> DEFINE up == {q \in Proc : at[q] # "off"}
  <2>1. /\ shared' = (shared \/ up # {})
        /\ mixed' = (mixed \/ \E q \in up : build[q] # d)
    BY <1>1 DEF Start
  <2> HIDE DEF up
  <2> QED
    BY Zenon, <2>1
<1>2. ASSUME NEW p \in Proc, Discard(p) \/ Flushing(p) \/ Gone(p)
      PROVE  UNCHANGED <<mixed, shared>>
  BY <1>2 DEF Discard, Flushing, Flush, Open, PutHeader, PutNewline, PutLine, EndLine, Gone,
              pastVars
<1>3. ASSUME NEW p \in Proc, NEW k \in Key, Record(p, k) \/ Lookup(p, k)
      PROVE  UNCHANGED <<mixed, shared>>
  BY <1>3 DEF Record, Lookup, pastVars
<1>4. CASE UNCHANGED vars
  BY <1>4 DEF vars, pastVars
<1> QED
  BY <1>1, <1>2, <1>3, <1>4 DEF Next

(* A driver loads entries of its own build only, however many drivers      *)
(* share the file and wherever each of them is killed, until drivers of    *)
(* two builds have been up together (init, parse_persisted and flush of    *)
(* either cache).  Drivers of any builds may run one after the other, and  *)
(* those of one build together.                                            *)
THEOREM OwnEntries == Spec => []OwnDriverOnly
<1> DEFINE Unmixed == ~mixed => LInv
<1>1. Init => Unmixed
  BY InitLog
<1>2. Unmixed /\ [Next]_vars => Unmixed'
  BY StepLog, StepMixed
<1>3. Unmixed => OwnDriverOnly
  BY DEF LInv, OwnDriverOnly
<1> QED
  BY <1>1, <1>2, <1>3, PTL DEF Spec

-----------------------------------------------------------------------------
(* What finished flushes wrote.  A file that one driver at a time wrote,   *)
(* none of them killed while it did, is a header and entries in turn with  *)
(* their newlines.                                                         *)

Shape(t) ==
    \A i \in 1..Len(t) : /\ i = 1 => t[i].kind = "header"
                         /\ i % 2 = 0 => t[i] = Newline
                         /\ i # 1 /\ i % 2 = 1 => t[i].kind = "entry"

Whole(t) == Len(t) >= 2 /\ Len(t) % 2 = 0

(* How far the flush has come shows in the length of the text. *)
Phase(p) ==
    /\ at[p] \in {"header", "header end", "line", "line end"} => onFile[p]
    /\ at[p] = "open" /\ ~Discovery => heads[p] = ~exists
    /\ at[p] = "header" => text = <<>>
    /\ at[p] = "header end" => Len(text) = 1
    /\ at[p] = "line" => Whole(text)
    /\ at[p] = "line end" => /\ Len(text) >= 3 /\ Len(text) % 2 = 1
                             /\ text[Len(text)] = Head(lines[p])

Quiet == \A p \in Proc : at[p] \in {"off", "stale", "up", "open"}

Banked(b) ==
    \E i \in 1..(Len(text) - 1) : i % 2 = 1 /\ i >= 3 /\ text[i] = Line(b.driver, b.key)

OneUp == \A p, q \in Proc : at[p] # "off" /\ at[q] # "off" => p = q

Tidy ==
    /\ OneUp
    /\ Shape(text)
    /\ \A p \in Proc : Phase(p)
    /\ Quiet => (exists => Whole(text)) /\ (text = <<>> \/ Whole(text))
    /\ \A b \in banked : Banked(b)

BInv == ~torn /\ ~shared => Tidy

HeadsKnown == heads \in [Proc -> BOOLEAN]

LEMMA StepHeads == HeadsKnown /\ LInv /\ [Next]_vars => HeadsKnown'
  BY DEF HeadsKnown, LInv, Types, vars, procVars, Next, Start, Discard, Record, Lookup,
         Flushing, Flush, Open, PutHeader, PutNewline, PutLine, EndLine, Gone

LEMMA InitBanks == Init => BInv
  BY DEF Init, BInv, Tidy, OneUp, Shape, Phase, Quiet

(* A line of one piece, the first or an entry. *)
LEMMA LineOfOne ==
    ASSUME NEW t \in Seq(Piece), Shape(t), NEW i \in 1..Len(t), i % 2 = 1
    PROVE  LineAt(t, i) = <<t[i]>>
<1>1. PICK E : E = {j \in Newlines(t) : j >= i}
  OBVIOUS
<1>2. PICK c : c = CHOOSE j \in E : \A e \in E : j <= e
  OBVIOUS
<1>3. PICK n : n = IF E = {} THEN Len(t) ELSE c - 1
  OBVIOUS
<1>4. LineAt(t, i) = SubSeq(t, i, n)
  BY <1>1, <1>2, <1>3 DEF LineAt
<1>5. Len(t) \in Nat /\ i \in Nat /\ i <= Len(t) /\ i >= 1
  OBVIOUS
<1>6. \A e \in E : e \in Nat /\ e >= i /\ e <= Len(t)
  BY <1>1 DEF Newlines
<1>7. i \notin E
  BY <1>1, <1>5 DEF Shape, Newlines, Newline
<1>8. n = i
  <2>1. CASE i = Len(t)
    <3>1. E = {}
      BY <1>5, <1>6, <1>7, <2>1
    <3> QED
      BY <1>3, <2>1, <3>1
  <2>2. CASE i # Len(t)
    <3>1. i + 1 \in 1..Len(t) /\ (i + 1) % 2 = 0
      BY <1>5, <2>2
    <3>2. i + 1 \in E
      BY <1>1, <1>5, <3>1 DEF Shape, Newlines
    <3>3. \A e \in E : i + 1 <= e
      BY <1>5, <1>6, <1>7
    <3>4. c \in E /\ \A e \in E : c <= e
      BY <1>2, <3>2, <3>3
    <3>5. c = i + 1
      BY <1>5, <1>6, <3>2, <3>3, <3>4
    <3> QED
      BY <1>3, <1>5, <3>2, <3>5
  <2> QED
    BY <2>1, <2>2
<1>9. SubSeq(t, i, i) = <<t[i]>>
  <2>1. \A j \in i..i : t[j] \in Piece
    BY <1>5
  <2>2. /\ SubSeq(t, i, i) \in Seq(Piece) /\ Len(SubSeq(t, i, i)) = 1
        /\ SubSeq(t, i, i)[1] = t[i]
    BY <1>5, <2>1, SubSeqProperties
  <2>3. t[i] \in Piece
    BY <1>5, <2>1
  <2>4. PICK u \in Seq(Piece) : u = SubSeq(t, i, i)
    BY <2>2
  <2>5. PICK v : v = <<t[i]>>
    OBVIOUS
  <2>6. /\ v \in Seq(Piece)
        /\ Len(v) = 1
        /\ v[1] = t[i]
    BY <2>3, <2>5
  <2>7. \A j \in 1..Len(u) : u[j] = v[j]
    BY <2>2, <2>4, <2>6
  <2>8. u = v
    BY <2>2, <2>4, <2>6, <2>7, SeqEqual
  <2> QED
    BY <2>4, <2>5, <2>8
<1> QED
  BY <1>4, <1>8, <1>9

(* The file's shape answers for what a flush put there. *)
LEMMA BanksLoad ==
    ASSUME LInv, BInv
    PROVE  BankedLoads
<1> SUFFICES ASSUME ~torn, ~shared, NEW b \in banked
             PROVE  /\ HeaderFits(text, b.driver)
                    /\ b.key \in DOMAIN Parse(text)
                    /\ Parse(text)[b.key] = [driver |-> b.driver, whole |-> TRUE]
  BY DEF BankedLoads
<1>1. /\ text \in Seq(Piece) /\ Len(text) \in Nat /\ Shape(text) /\ Banked(b)
      /\ \E d : OfBuild(text, d)
  BY DEF LInv, Types, BInv, Tidy, TextSound
<1>2. PICK i \in 1..(Len(text) - 1) : i % 2 = 1 /\ i >= 3 /\ text[i] = Line(b.driver, b.key)
  BY <1>1 DEF Banked
<1>3. PICK d : OfBuild(text, d)
  BY <1>1
<1>4. i \in 1..Len(text) /\ 1 \in 1..Len(text) /\ i \in Nat /\ i - 1 \in 1..Len(text)
  BY <1>1, <1>2
<1>5. text[i].kind = "entry" /\ text[i].driver = b.driver /\ text[i].key = b.key
  BY <1>2 DEF Line
<1>6. d = b.driver
  BY <1>3, <1>4, <1>5 DEF OfBuild
<1>7. HeaderFits(text, b.driver)
  <2>1. text[1].kind = "header" /\ text[1] \in Piece
    BY <1>1, <1>4 DEF Shape
  <2>2. text[1].driver = b.driver
    BY <1>3, <1>4, <1>6, <2>1 DEF OfBuild
  <2>3. text[1] = Header(b.driver)
    BY <2>1, <2>2 DEF Piece, Entry, Newline, Header
  <2>4. LineAt(text, 1) = <<text[1]>>
    BY <1>1, <1>4, LineOfOne
  <2> QED
    BY <1>1, <1>4, <2>3, <2>4 DEF HeaderFits
<1> DEFINE K == {text[j].key : j \in EntryStarts(text)}
           last(k) == CHOOSE j \in EntryStarts(text) :
                         /\ text[j].key = k
                         /\ \A l \in EntryStarts(text) : text[l].key = k => l <= j
<1>8. i \in EntryStarts(text)
  <2>1. (i - 1) % 2 = 0
    BY <1>2, <1>4
  <2>2. i - 1 \in Newlines(text) \ {Len(text)}
    BY <1>1, <1>2, <1>4, <2>1 DEF Shape, Newlines
  <2>3. i = (i - 1) + 1
    BY <1>4
  <2> QED
    BY <1>4, <1>5, <2>2, <2>3 DEF EntryStarts
<1>9. b.key \in K
  BY <1>5, <1>8
<1>10. Parse(text) = [k \in K |->
          [driver |-> text[last(k)].driver, whole |-> Len(LineAt(text, last(k))) = 1]]
  BY DEF Parse
<1>11. last(b.key) \in EntryStarts(text)
  <2> DEFINE Of == {j \in EntryStarts(text) : text[j].key = b.key}
  <2>1. Of \in SUBSET (0..Len(text)) /\ Of # {}
    BY <1>1, <1>5, <1>8 DEF EntryStarts
  <2>2. \E m \in Of : \A j \in Of : j <= m
    <3> HIDE DEF Of
    <3> QED
      BY <1>1, <2>1, GreatestExists
  <2> QED
    BY <2>2
<1>12. PICK j : j = last(b.key)
  OBVIOUS
<1>13. j \in 1..Len(text) /\ text[j].kind = "entry" /\ j % 2 = 1
  <2>1. j \in 1..Len(text) /\ text[j].kind = "entry"
    BY <1>11, <1>12 DEF EntryStarts
  <2>2. j % 2 # 0
    BY <1>1, <2>1 DEF Shape, Newline
  <2> QED
    BY <2>1, <2>2
<1>14. Len(LineAt(text, j)) = 1
  <2>1. LineAt(text, j) = <<text[j]>>
    BY <1>1, <1>13, LineOfOne
  <2> QED
    BY <2>1
<1>15. text[j].driver = b.driver
  BY <1>3, <1>6, <1>13 DEF OfBuild
<1> HIDE DEF K, last
<1> QED
  BY <1>7, <1>9, <1>10, <1>12, <1>14, <1>15

(* Piece x may come n-th. *)
Suits(n, x) == /\ n = 1 => x.kind = "header"
               /\ n % 2 = 0 => x = Newline
               /\ n # 1 /\ n % 2 = 1 => x.kind = "entry"

(* The text grows by a piece that keeps the shape. *)
LEMMA Grown ==
    ASSUME NEW t \in Seq(Piece), Shape(t), NEW x \in Piece,
           NEW n \in Nat, n = Len(t) + 1, Suits(n, x)
    PROVE  /\ Shape(Append(t, x)) /\ Len(Append(t, x)) = n
           /\ Append(t, x)[n] = x /\ \A i \in 1..Len(t) : Append(t, x)[i] = t[i]
<1>1. /\ Len(Append(t, x)) = n /\ Append(t, x)[n] = x
      /\ \A i \in 1..Len(t) : Append(t, x)[i] = t[i]
  OBVIOUS
<1>2. \A i \in 1..n : i = n \/ i \in 1..Len(t)
  OBVIOUS
<1> QED
  BY <1>1, <1>2 DEF Shape, Suits

(* Outside a flush there is nothing to say. *)
LEMMA AtRest ==
    ASSUME NEW p \in Proc, at'[p] \in {"off", "stale", "up"}
    PROVE  Phase(p)'
  BY Zenon DEF Phase

(* A step of the one process that is up. *)
LEMMA Alone ==
    ASSUME Types, OneUp, NEW p \in Proc, at[p] # "off", NEW a,
           at' = [at EXCEPT ![p] = a]
    PROVE  /\ OneUp' /\ at'[p] = a
           /\ Phase(p)' => \A q \in Proc : Phase(q)'
           /\ a \notin {"off", "stale", "up", "open"} => ~Quiet'
           /\ at[p] \in {"off", "stale", "up", "open"} => Quiet
<1>1. \A q \in Proc : q # p => at'[q] = "off" /\ at[q] = "off"
  BY DEF Types, OneUp
<1>2. at'[p] = a
  BY DEF Types
<1>3. OneUp'
  BY <1>1 DEF OneUp
<1>4. \A q \in Proc : q # p => Phase(q)'
  BY <1>1 DEF Phase
<1> QED
  BY <1>1, <1>2, <1>3, <1>4 DEF Quiet

(* What finished flushes wrote stays where it is while the text grows. *)
LEMMA BankedStays ==
    ASSUME Types, NEW x \in Piece, text' = Append(text, x), NEW b, Banked(b)
    PROVE  Banked(b)'
<1>1. text \in Seq(Piece) /\ Len(text) \in Nat
  BY DEF Types
<1>2. PICK i \in 1..(Len(text) - 1) :
         i % 2 = 1 /\ i >= 3 /\ text[i] = Line(b.driver, b.key)
  BY DEF Banked
<1>3. i \in 1..(Len(text') - 1) /\ text'[i] = text[i]
  BY <1>1
<1> QED
  BY <1>2, <1>3 DEF Banked, Line

(* A write of the one process that is up, inside its flush. *)
LEMMA Written ==
    ASSUME Types, Tidy, NEW p \in Proc,
           at[p] \in {"header", "header end", "line", "line end"},
           NEW x \in Piece, Put(p, x),
           NEW n \in Nat, n = Len(text) + 1, Suits(n, x)
    PROVE  /\ text' = Append(text, x) /\ text' \in Seq(Piece)
           /\ Shape(text') /\ Len(text') = n /\ text'[n] = x
           /\ \A i \in 1..Len(text) : text'[i] = text[i]
           /\ \A b \in banked : Banked(b)'
<1>1. text \in Seq(Piece) /\ Shape(text)
  BY DEF Types, Tidy
<1>2. onFile[p]
  BY DEF Tidy, Phase
<1>3. text' = Append(text, x)
  BY <1>2 DEF Put
<1>4. /\ Shape(Append(text, x)) /\ Len(Append(text, x)) = n
      /\ Append(text, x)[n] = x
      /\ \A i \in 1..Len(text) : Append(text, x)[i] = text[i]
  BY <1>1, Grown
<1>5. \A b \in banked : Banked(b)'
  BY <1>3, BankedStays DEF Tidy
<1>6. text' \in Seq(Piece)
  <2>1. Append(text, x) \in Seq(Piece)
    BY <1>1, AppendProperties
  <2> QED
    BY Zenon, <1>3, <2>1
<1>7. /\ Shape(text') /\ Len(text') = n /\ text'[n] = x
      /\ \A i \in 1..Len(text) : text'[i] = text[i]
  BY Zenon, <1>3, <1>4
<1> QED
  BY <1>3, <1>5, <1>6, <1>7

(* Nothing that the shape of the text rests on changes. *)
LEMMA TextKept ==
    ASSUME UNCHANGED <<text, banked>>, Tidy
    PROVE  Shape(text)' /\ \A b \in banked' : Banked(b)'
  BY DEF Tidy, Shape, Banked

(* A driver starts with nobody up. *)
LEMMA StartTidy ==
    ASSUME LInv, Tidy, NEW p \in Proc, NEW d \in Driver, Start(p, d), ~shared'
    PROVE  Tidy'
<1>1. \A q \in Proc : at[q] = "off"
  BY DEF Start
<1>2. PICK a \in {"stale", "up"} : at' = [at EXCEPT ![p] = a]
  BY DEF Start
<1>3. UNCHANGED <<exists, text, onFile, heads, banked>>
  BY DEF Start
<1>4. \A q \in Proc : at'[q] = IF q = p THEN a ELSE "off"
  BY <1>1, <1>2 DEF LInv, Types
<1>5. OneUp'
  BY <1>2, <1>4 DEF OneUp
<1>6. \A q \in Proc : Phase(q)'
  BY <1>2, <1>4, AtRest
<1>7. (exists' => Whole(text)') /\ (text' = <<>> \/ Whole(text)')
  BY <1>1, <1>3 DEF Tidy, Quiet, Whole
<1> QED
  BY <1>3, <1>5, <1>6, <1>7, TextKept DEF Tidy

(* The stale file goes, and all that was in it. *)
LEMMA DiscardTidy ==
    ASSUME LInv, Tidy, NEW p \in Proc, Discard(p)
    PROVE  Tidy'
<1>1. /\ at[p] = "stale" /\ at' = [at EXCEPT ![p] = "up"]
      /\ text' = <<>> /\ ~exists' /\ banked' = {}
  BY DEF Discard, RemoveStale
<1>2. /\ OneUp' /\ at'[p] = "up"
      /\ Phase(p)' => \A q \in Proc : Phase(q)'
  BY <1>1, Alone DEF LInv, Tidy
<1>3. Phase(p)'
  BY <1>2, AtRest
<1>4. Shape(text)'
  BY <1>1 DEF Shape
<1> QED
  BY <1>1, <1>2, <1>3, <1>4 DEF Tidy

(* Entries are recorded and looked up in memory. *)
LEMMA InMemoryTidy ==
    ASSUME LInv, Tidy, NEW p \in Proc, NEW k \in Key, Record(p, k) \/ Lookup(p, k)
    PROVE  Tidy'
<1>1. UNCHANGED <<exists, text, at, lines, onFile, heads, banked, cache>>
  BY DEF Record, Lookup
<1> QED
  BY <1>1 DEF Tidy, OneUp, Shape, Phase, Quiet, Whole, Banked, Discovery

(* A driver that is not in a flush ends. *)
LEMMA GoneTidy ==
    ASSUME LInv, Tidy, NEW p \in Proc, Gone(p), ~torn'
    PROVE  Tidy'
<1>1. /\ at[p] \in {"stale", "up"} /\ at' = [at EXCEPT ![p] = "off"]
      /\ UNCHANGED <<exists, text, banked>>
  BY DEF Gone
<1>2. /\ OneUp' /\ at'[p] = "off"
      /\ Phase(p)' => \A q \in Proc : Phase(q)'
      /\ Quiet
  BY <1>1, Alone DEF LInv, Tidy
<1>3. Phase(p)'
  BY <1>2, AtRest
<1>4. (exists' => Whole(text)') /\ (text' = <<>> \/ Whole(text)')
  BY <1>1, <1>2 DEF Tidy, Whole
<1> QED
  BY <1>1, <1>2, <1>3, <1>4, TextKept DEF Tidy

(* The flush takes the list and asks whether the file exists. *)
LEMMA FlushTidy ==
    ASSUME LInv, Tidy, HeadsKnown, NEW p \in Proc, Flush(p)
    PROVE  Tidy'
<1>1. /\ at[p] = "up" /\ at' = [at EXCEPT ![p] = "open"]
      /\ heads' = [heads EXCEPT ![p] = ~exists]
      /\ UNCHANGED <<exists, text, banked>>
  BY DEF Flush
<1>2. /\ OneUp' /\ at'[p] = "open"
      /\ Phase(p)' => \A q \in Proc : Phase(q)'
      /\ Quiet
  BY <1>1, Alone DEF LInv, Tidy
<1>3. Phase(p)'
  <2>1. heads'[p] = ~exists'
    BY <1>1 DEF HeadsKnown
  <2> QED
    BY Zenon, <1>2, <2>1 DEF Phase
<1>4. (exists' => Whole(text)') /\ (text' = <<>> \/ Whole(text)')
  BY <1>1, <1>2 DEF Tidy, Whole
<1> QED
  BY <1>1, <1>2, <1>3, <1>4, TextKept DEF Tidy

(* The flush opens the file; a file that is there has a header. *)
LEMMA OpenTidy ==
    ASSUME LInv, Tidy, HeadsKnown, NEW p \in Proc, Open(p)
    PROVE  Tidy'
<1>1. /\ at[p] = "open" /\ exists' /\ onFile' = [onFile EXCEPT ![p] = TRUE]
      /\ at' = [at EXCEPT ![p] = IF (IF Discovery THEN text = <<>> ELSE heads[p])
                                 THEN "header" ELSE "line"]
      /\ UNCHANGED <<text, banked>>
  BY DEF Open
<1>2. /\ exists => Whole(text)
      /\ text = <<>> \/ Whole(text)
      /\ ~exists => text = <<>>
      /\ ~Discovery => heads[p] = ~exists
  <2>1. Quiet
    BY <1>1, Alone DEF LInv, Tidy
  <2>2. ~Discovery => heads[p] = ~exists
    BY Zenon, <1>1 DEF Tidy, Phase
  <2> QED
    BY <2>1, <2>2 DEF Tidy, LInv, TextSound
<1>3. onFile'[p]
  BY <1>1 DEF LInv, Types
<1>4. ASSUME NEW a, at' = [at EXCEPT ![p] = a],
             \/ a = "header" /\ text = <<>>
             \/ a = "line" /\ Whole(text)
      PROVE  Tidy'
  <2>1. /\ OneUp' /\ at'[p] = a
        /\ Phase(p)' => \A q \in Proc : Phase(q)'
        /\ ~Quiet'
    BY <1>1, <1>4, Alone DEF LInv, Tidy
  <2>2. text' = <<>> \/ Whole(text)'
    BY <1>1, <1>2 DEF Whole
  <2>3. a = "header" => text' = <<>>
    BY <1>1, <1>4
  <2>4. a = "line" => Whole(text)'
    BY <1>1, <1>4 DEF Whole
  <2>5. Phase(p)'
    BY Zenon, <1>3, <1>4, <2>1, <2>3, <2>4 DEF Phase
  <2> QED
    BY <1>1, <2>1, <2>5, TextKept DEF Tidy
<1>5. CASE text = <<>>
  <2>1. ~exists
    BY <1>2, <1>5 DEF Whole
  <2>2. at' = [at EXCEPT ![p] = "header"]
    BY <1>1, <1>2, <1>5, <2>1
  <2> QED
    BY <1>4, <1>5, <2>2
<1>6. CASE text # <<>>
  <2>1. exists /\ Whole(text)
    BY <1>2, <1>6 DEF LInv, Types
  <2>2. at' = [at EXCEPT ![p] = "line"]
    BY <1>1, <1>2, <1>6, <2>1
  <2> QED
    BY <1>4, <2>1, <2>2
<1> QED
  BY <1>5, <1>6

(* The header goes to an empty file. *)
LEMMA HeaderTidy ==
    ASSUME LInv, Tidy, NEW p \in Proc, PutHeader(p)
    PROVE  Tidy'
<1>1. /\ at[p] = "header" /\ at' = [at EXCEPT ![p] = "header end"]
      /\ Put(p, Header(build[p])) /\ UNCHANGED <<exists, onFile, banked>>
  BY DEF PutHeader, procVars
<1>2. PICK x \in Piece : x = Header(build[p]) /\ x.kind = "header"
  <2>1. Header(build[p]) \in [kind : {"header"}, driver : Driver]
    BY DEF Header, LInv, Types
  <2> QED
    BY <2>1 DEF Piece
<1>3. text = <<>> /\ onFile[p]
  BY Zenon, <1>1 DEF Tidy, Phase
<1>4. PICK n \in Nat : n = Len(text) + 1 /\ n = 1
  BY <1>3
<1>5. Suits(n, x)
  BY <1>2, <1>4 DEF Suits
<1>6. Types
  BY DEF LInv
<1>7. /\ Shape(text') /\ Len(text') = n /\ \A b \in banked : Banked(b)'
  BY <1>1, <1>2, <1>4, <1>5, <1>6, Written
<1>8. /\ OneUp' /\ at'[p] = "header end"
      /\ Phase(p)' => \A q \in Proc : Phase(q)'
      /\ ~Quiet'
  BY <1>1, <1>6, Alone DEF Tidy
<1>9. Phase(p)'
  <2>1. onFile'[p] /\ Len(text') = 1
    BY <1>1, <1>3, <1>4, <1>7
  <2> QED
    BY Zenon, <1>8, <2>1 DEF Phase
<1> QED
  BY <1>1, <1>7, <1>8, <1>9 DEF Tidy

(* The newline after the header. *)
LEMMA NewlineTidy ==
    ASSUME LInv, Tidy, NEW p \in Proc, PutNewline(p)
    PROVE  Tidy'
<1>1. /\ at[p] = "header end" /\ at' = [at EXCEPT ![p] = "line"]
      /\ Put(p, Newline) /\ UNCHANGED <<exists, onFile, banked>>
  BY DEF PutNewline, procVars
<1>2. PICK x \in Piece : x = Newline
  BY DEF Piece
<1>3. Len(text) = 1 /\ onFile[p]
  BY Zenon, <1>1 DEF Tidy, Phase
<1>4. PICK n \in Nat : n = Len(text) + 1 /\ n = 2
  BY <1>3
<1>5. Suits(n, x)
  BY <1>2, <1>4 DEF Suits
<1>6. Types
  BY DEF LInv
<1>7. /\ Shape(text') /\ Len(text') = n /\ \A b \in banked : Banked(b)'
  BY <1>1, <1>2, <1>4, <1>5, <1>6, Written
<1>8. /\ OneUp' /\ at'[p] = "line"
      /\ Phase(p)' => \A q \in Proc : Phase(q)'
      /\ ~Quiet'
  BY <1>1, <1>6, Alone DEF Tidy
<1>9. Phase(p)'
  <2>1. onFile'[p]
    BY <1>1, <1>3
  <2>2. Whole(text)'
    BY <1>4, <1>7 DEF Whole
  <2> QED
    BY Zenon, <1>8, <2>1, <2>2 DEF Phase
<1> QED
  BY <1>1, <1>7, <1>8, <1>9 DEF Tidy

(* The first line that is left, after whole ones. *)
LEMMA LineTidy ==
    ASSUME LInv, Tidy, NEW p \in Proc, PutLine(p)
    PROVE  Tidy'
<1>1. /\ at[p] = "line" /\ at' = [at EXCEPT ![p] = "line end"]
      /\ Put(p, Head(lines[p])) /\ UNCHANGED <<exists, onFile, lines, banked>>
  BY DEF PutLine, procVars
<1>2. PICK x \in Piece : x = Head(lines[p]) /\ x.kind = "entry"
  <2>1. lines[p] \in Seq(Entry) /\ lines[p] # <<>>
    BY <1>1 DEF LInv, Types, HandSound, Flushes, Places
  <2>2. Head(lines[p]) \in Entry
    BY <2>1
  <2> QED
    BY <2>2 DEF Piece, Entry
<1>3. Whole(text) /\ onFile[p]
  BY Zenon, <1>1 DEF Tidy, Phase
<1>4. PICK n \in Nat : n = Len(text) + 1 /\ n % 2 = 1 /\ n >= 3
  <2>1. Len(text) \in Nat
    BY DEF LInv, Types
  <2>2. PICK m \in Nat : m = Len(text) + 1
    BY <2>1
  <2>3. m % 2 = 1 /\ m >= 3
    BY <1>3, <2>1, <2>2 DEF Whole
  <2> QED
    BY <2>2, <2>3
<1>5. Suits(n, x)
  BY <1>2, <1>4 DEF Suits
<1>6. Types
  BY DEF LInv
<1>7. /\ Shape(text') /\ Len(text') = n /\ text'[n] = x /\ \A b \in banked : Banked(b)'
  BY <1>1, <1>2, <1>4, <1>5, <1>6, Written
<1>8. /\ OneUp' /\ at'[p] = "line end"
      /\ Phase(p)' => \A q \in Proc : Phase(q)'
      /\ ~Quiet'
  BY <1>1, <1>6, Alone DEF Tidy
<1>9. Phase(p)'
  <2>1. /\ onFile'[p] /\ Len(text') >= 3 /\ Len(text') % 2 = 1
        /\ text'[Len(text')] = Head(lines'[p])
    BY <1>1, <1>2, <1>3, <1>4, <1>7
  <2> QED
    BY Zenon, <1>8, <2>1 DEF Phase
<1> QED
  BY <1>1, <1>7, <1>8, <1>9 DEF Tidy

(* The newline after a line: the line is banked. *)
LEMMA LineEndTidy ==
    ASSUME LInv, Tidy, NEW p \in Proc, EndLine(p)
    PROVE  Tidy'
<1>1. /\ at[p] = "line end"
      /\ at' = [at EXCEPT ![p] = IF Len(lines[p]) = 1 THEN "up" ELSE "line"]
      /\ Put(p, Newline) /\ UNCHANGED <<exists, onFile>>
      /\ banked' \subseteq banked \cup {[key |-> Head(lines[p]).key, driver |-> build[p]]}
  BY DEF EndLine
<1>2. PICK x \in Piece : x = Newline
  BY DEF Piece
<1>3. /\ onFile[p] /\ Len(text) >= 3 /\ Len(text) % 2 = 1
      /\ text[Len(text)] = Head(lines[p])
  BY Zenon, <1>1 DEF Tidy, Phase
<1>4. PICK n \in Nat : n = Len(text) + 1 /\ n % 2 = 0 /\ n >= 4
  <2>1. Len(text) \in Nat
    BY DEF LInv, Types
  <2>2. PICK m \in Nat : m = Len(text) + 1
    BY <2>1
  <2>3. m % 2 = 0 /\ m >= 4
    BY <1>3, <2>1, <2>2
  <2> QED
    BY <2>2, <2>3
<1>5. Suits(n, x)
  BY <1>2, <1>4 DEF Suits
<1>6. Types
  BY DEF LInv
<1>7. /\ Shape(text') /\ Len(text') = n /\ \A b \in banked : Banked(b)'
      /\ \A i \in 1..Len(text) : text'[i] = text[i]
  BY <1>1, <1>2, <1>4, <1>5, <1>6, Written
<1>8. PICK a \in {"up", "line"} : at' = [at EXCEPT ![p] = a]
  BY <1>1
<1>9. /\ OneUp' /\ at'[p] = a
      /\ Phase(p)' => \A q \in Proc : Phase(q)'
  BY <1>1, <1>6, <1>8, Alone DEF Tidy
<1>10. Whole(text)'
  BY <1>4, <1>7 DEF Whole
<1>11. Phase(p)'
  <2>1. onFile'[p]
    BY <1>1, <1>3
  <2> QED
    BY Zenon, <1>8, <1>9, <1>10, <2>1 DEF Phase
<1>12. ASSUME NEW b, b = [key |-> Head(lines[p]).key, driver |-> build[p]]
       PROVE  Banked(b)'
  <2>1. lines[p] \in Seq(Entry) /\ lines[p] # <<>> /\ OfBuild(lines[p], build[p])
    BY <1>1 DEF LInv, Types, HandSound, Flushes, Places
  <2>2. PICK e \in Entry : e = Head(lines[p]) /\ e.driver = build[p]
    <3>1. /\ Head(lines[p]) = lines[p][1] /\ lines[p][1] \in Entry
          /\ 1 \in 1..Len(lines[p])
      BY <2>1
    <3>2. lines[p][1].kind = "entry"
      BY <3>1 DEF Entry
    <3>3. lines[p][1].driver = build[p]
      BY <2>1, <3>1, <3>2 DEF OfBuild
    <3> QED
      BY <3>1, <3>3
  <2>3. e = Line(b.driver, b.key)
    BY <1>12, <2>2 DEF Entry, Line
  <2>4. /\ Len(text) \in 1..(Len(text') - 1) /\ Len(text) \in 1..Len(text)
        /\ Len(text) \in Nat
    BY <1>3, <1>4, <1>7
  <2>5. text'[Len(text)] = Line(b.driver, b.key)
    BY <1>3, <1>7, <2>2, <2>3, <2>4
  <2> QED
    BY <1>3, <2>4, <2>5 DEF Banked, Line
<1>13. \A b \in banked' : Banked(b)'
  BY <1>1, <1>7, <1>12
<1> QED
  BY <1>7, <1>9, <1>10, <1>11, <1>13 DEF Tidy

LEMMA StepShared ==
    ASSUME [Next]_vars
    PROVE  (torn => torn') /\ (shared => shared')
<1>1. ASSUME NEW p \in Proc, NEW d \in Driver, Start(p, d)
      PROVE  (torn => torn') /\ (shared => shared')
  BY Zenon, <1>1 DEF Start
<1>2. ASSUME NEW p \in Proc, Gone(p)
      PROVE  (torn => torn') /\ (shared => shared')
  BY Zenon, <1>2 DEF Gone
<1>3. ASSUME NEW p \in Proc, Discard(p) \/ Flushing(p)
      PROVE  UNCHANGED <<torn, shared>>
  BY <1>3 DEF Discard, Flushing, Flush, Open, PutHeader, PutNewline, PutLine, EndLine,
              pastVars
<1>4. ASSUME NEW p \in Proc, NEW k \in Key, Record(p, k) \/ Lookup(p, k)
      PROVE  UNCHANGED <<torn, shared>>
  BY <1>4 DEF Record, Lookup, pastVars
<1> QED
  BY <1>1, <1>2, <1>3, <1>4 DEF Next, vars, pastVars

LEMMA StepBanks ==
    ASSUME LInv, HeadsKnown, BInv, [Next]_vars
    PROVE  BInv'
<1> SUFFICES ASSUME ~torn', ~shared' PROVE Tidy'
  BY DEF BInv
<1>1. ~torn /\ ~shared
  BY StepShared
<1>2. Tidy
  BY <1>1 DEF BInv
<1>3. ASSUME NEW p \in Proc, NEW d \in Driver, Start(p, d) PROVE Tidy'
  BY <1>2, <1>3, StartTidy
<1>4. ASSUME NEW p \in Proc, Discard(p) PROVE Tidy'
  BY <1>2, <1>4, DiscardTidy
<1>5. ASSUME NEW p \in Proc, NEW k \in Key, Record(p, k) \/ Lookup(p, k) PROVE Tidy'
  BY <1>2, <1>5, InMemoryTidy
<1>6. ASSUME NEW p \in Proc, Flushing(p) PROVE Tidy'
  BY <1>2, <1>6, FlushTidy, OpenTidy, HeaderTidy, NewlineTidy, LineTidy, LineEndTidy
     DEF Flushing
<1>7. ASSUME NEW p \in Proc, Gone(p) PROVE Tidy'
  BY <1>2, <1>7, GoneTidy
<1>8. CASE UNCHANGED vars
  BY <1>2, <1>8 DEF vars, procVars, Tidy, OneUp, Shape, Phase, Quiet, Whole, Banked, Discovery
<1> QED
  BY <1>3, <1>4, <1>5, <1>6, <1>7, <1>8 DEF Next

(* What a finished flush wrote is there, whole and under a header that     *)
(* fits, for the next run of its build, until another build discards the   *)
(* file: the file has the shape a flush gives it wherever it stops between *)
(* two lines, so the next one may append (flush of either cache).          *)
THEOREM BanksAreFound == Spec => []BankedLoads
<1> DEFINE One == /\ mixed => shared
                  /\ ~shared => LInv /\ HeadsKnown /\ BInv
<1>1. Init => One
  BY InitLog, InitBanks DEF Init, HeadsKnown
<1>2. One /\ [Next]_vars => One'
  <2> SUFFICES ASSUME One, [Next]_vars PROVE One'
    OBVIOUS
  <2>1. mixed' => shared'
    BY StepMixed
  <2>2. ASSUME ~shared' PROVE LInv' /\ HeadsKnown' /\ BInv'
    <3>1. ~shared /\ ~mixed'
      BY <2>1, <2>2, StepShared
    <3> QED
      BY <3>1, StepLog, StepHeads, StepBanks
  <2> QED
    BY <2>1, <2>2
<1>3. One => BankedLoads
  <2>1. shared => BankedLoads
    BY DEF BankedLoads
  <2> QED
    BY <2>1, BanksLoad
<1> QED
  BY <1>1, <1>2, <1>3, PTL DEF Spec

==============================================================================
