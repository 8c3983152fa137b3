-------------------------- MODULE UploadMemo_proofs ---------------------------
(***************************************************************************)
(* Proofs about UploadMemo, for every directory, every set of task threads *)
(* and any number of changes and invocations.                              *)
(***************************************************************************)
EXTENDS UploadMemo, FiniteSetTheorems, SequenceTheorems, WellFoundedInduction, TLAPS

(* A set of naturals up to c that is not empty has a greatest element. *)
LEMMA GreatestExists ==
    ASSUME NEW c \in Nat, NEW T \in SUBSET (0..c), T # {}
    PROVE  \E m \in T : \A t \in T : t <= m
<1> DEFINE D == {c - t : t \in T}
<1>1. D \in SUBSET Nat /\ D # {}
  <2>1. \A t \in T : t \in 0..c /\ c - t \in Nat
    OBVIOUS
  <2>2. PICK t \in T : TRUE
    OBVIOUS
  <2> QED
    BY <2>1, <2>2
<1>2. PICK x \in D : \A y \in D : x <= y
  <2> HIDE DEF D
  <2>1. PICK x \in D : \A y \in D : ~ (<<y, x>> \in OpToRel(<, Nat))
    BY <1>1, NatLessThanWellFounded, WFMin
  <2>2. \A y \in D : ~ (y < x)
    BY <1>1, <2>1 DEF OpToRel
  <2> QED
    BY <1>1, <2>2
<1>3. PICK m \in T : x = c - m
  OBVIOUS
<1>4. \A t \in T : x <= c - t
  BY <1>2
<1> QED
  BY <1>3, <1>4

(* A bounded set of times that is not empty has a greatest element. *)
LEMMA Latest ==
    ASSUME NEW c \in Nat, NEW T \in SUBSET (0..c), T # {}
    PROVE  Max(T) \in T /\ \A t \in T : Max(T) >= t
<1>1. \E m \in T : \A t \in T : t <= m
  BY GreatestExists
<1>2. \A m, t \in T : t <= m <=> m >= t
  OBVIOUS
<1> QED
  BY <1>1, <1>2 DEF Max

-----------------------------------------------------------------------------
(* Types.  A job's fields come with where it is.                           *)

OnDisk == [content : Content, mtime : Nat]
Stamp  == [size : Nat, mtime : Nat]
Upload1 == [size : Nat, mtime : Nat, object : Content]

Some(T) == {{}} \cup {{t} : t \in T}

Job == [at : {"idle"}]
       \cup [at : {"stat"}, file : File, copy : Some(Content)]
       \cup [at : {"send"}, file : File, copy : Some(Content), stamp : Some(Stamp)]
       \cup [at : {"sent"}, file : File, stamp : Some(Stamp), object : Content]

Table(T) == UNION {[S -> T] : S \in SUBSET File}

Types ==
    /\ disk \in Table(OnDisk)
    /\ dirTime \in Nat
    /\ clock \in Nat
    /\ disturbed \in BOOLEAN
    /\ main \in {"off", "fresh", "walking", "resolved"}
    /\ job \in [Uploader -> Job]
    /\ uploads \in Table(Upload1)
    /\ stamps \in Table(Upload1)

(* No time noted anywhere is later than the clock, so that a file changed  *)
(* from now on fits no stamp there is.                                     *)
Times ==
    /\ \A f \in Present : disk[f].mtime <= clock
    /\ \A f \in DOMAIN uploads : uploads[f].mtime <= clock
    /\ \A f \in DOMAIN stamps : stamps[f].mtime <= clock
    /\ \A w \in Uploader : job[w].at \in {"send", "sent"} =>
          \A s \in job[w].stamp : s.mtime <= clock

(* A driver that is off uploads nothing: what is made of a file during an  *)
(* upload in progress is still so, unless the directory was disturbed.     *)
JobSound(j) ==
    /\ main = "off" => j = Idle
    /\ j # Idle /\ ~disturbed => j.file \in Present
    /\ j.at \in {"stat", "send"} /\ j.file \notin Rewritten => j.copy = {}
    /\ j.at \in {"stat", "send"} /\ j.file \in Rewritten /\ ~disturbed
          => j.copy = {disk[j.file].content}
    /\ j.at = "sent" /\ ~disturbed => j.object = disk[j.file].content
    /\ j.at = "sent" /\ j.file \in Present \ Rewritten /\ j.stamp = {Stat(j.file)}
          => j.object = disk[j.file].content

UInv == Types /\ Times /\ UploadsSound /\ \A w \in Uploader : JobSound(job[w])

LEMMA WithTable ==
    ASSUME NEW T, NEW m \in Table(T), NEW f \in File, NEW v \in T
    PROVE  /\ With(m, f, v) \in Table(T)
           /\ DOMAIN With(m, f, v) = DOMAIN m \cup {f}
           /\ With(m, f, v)[f] = v
           /\ \A g \in DOMAIN m \ {f} : With(m, f, v)[g] = m[g]
<1>1. PICK S \in SUBSET File : m \in [S -> T]
  BY DEF Table
<1>2. With(m, f, v) \in [S \cup {f} -> T]
  BY <1>1 DEF With
<1> QED
  BY <1>1, <1>2 DEF With, Table

LEMMA WithoutTable ==
    ASSUME NEW T, NEW m \in Table(T), NEW f \in File
    PROVE  /\ Without(m, f) \in Table(T)
           /\ DOMAIN Without(m, f) = DOMAIN m \ {f}
           /\ \A g \in DOMAIN m \ {f} : Without(m, f)[g] = m[g]
<1>1. PICK S \in SUBSET File : m \in [S -> T]
  BY DEF Table
<1>2. Without(m, f) \in [S \ {f} -> T]
  BY <1>1 DEF Without
<1> QED
  BY <1>1, <1>2 DEF Without, Table

LEMMA EmptyTable == ASSUME NEW T PROVE Nothing \in Table(T) /\ DOMAIN Nothing = {}
<1>1. Nothing \in [{} -> T]
  BY DEF Nothing
<1> QED
  BY <1>1 DEF Table, Nothing

(* What a table holds. *)
LEMMA InTable ==
    ASSUME NEW T, NEW m \in Table(T)
    PROVE  DOMAIN m \subseteq File /\ \A f \in DOMAIN m : m[f] \in T
  BY DEF Table

LEMMA InTables ==
    ASSUME Types
    PROVE  /\ \A f \in Present : /\ f \in File
                                 /\ disk[f].content \in Content
                                 /\ disk[f].mtime \in Nat
           /\ \A f \in DOMAIN uploads : f \in File /\ uploads[f].mtime \in Nat
           /\ \A f \in DOMAIN stamps : f \in File /\ stamps[f].mtime \in Nat
<1>1. /\ Present \subseteq File /\ DOMAIN uploads \subseteq File /\ DOMAIN stamps \subseteq File
      /\ \A f \in Present : disk[f] \in OnDisk
      /\ \A f \in DOMAIN uploads : uploads[f] \in Upload1
      /\ \A f \in DOMAIN stamps : stamps[f] \in Upload1
  BY InTable DEF Types, Present
<1> QED
  BY <1>1 DEF OnDisk, Upload1

LEMMA InJobs ==
    ASSUME Types, NEW w \in Uploader
    PROVE  /\ job[w].at \in {"idle", "stat", "send", "sent"}
           /\ job[w] # Idle => job[w].file \in File /\ job[w].at # "idle"
           /\ job[w].at = "stat" => job[w].copy \in Some(Content)
           /\ job[w].at = "send" => /\ job[w].copy \in Some(Content)
                                    /\ job[w].stamp \in Some(Stamp)
           /\ job[w].at = "sent" => /\ job[w].stamp \in Some(Stamp)
                                    /\ job[w].object \in Content
           /\ job[w].at \in {"send", "sent"} => \A s \in job[w].stamp : s.mtime \in Nat
<1>1. job[w] \in Job
  BY DEF Types
<1>2. \A T : T \in Some(Stamp) => \A s \in T : s.mtime \in Nat
  BY DEF Some, Stamp
<1>3. job[w] \in [at : {"idle"}] => job[w] = Idle
  BY DEF Idle
<1> QED
  BY <1>1, <1>2, <1>3 DEF Job, Idle

LEMMA InitUploads == Init => UInv
<1> SUFFICES ASSUME Init PROVE UInv
  OBVIOUS
<1>1. PICK S \in SUBSET File : disk \in [S -> [content : Content, mtime : {0}]]
  BY DEF Init
<1>2. disk \in [S -> OnDisk] /\ \A f \in Present : disk[f].mtime = 0
  BY <1>1 DEF OnDisk, Present
<1>3. disk \in Table(OnDisk)
  BY <1>2 DEF Table
<1>4. /\ Nothing \in Table(Upload1) /\ DOMAIN Nothing = {}
      /\ Idle \in Job /\ Idle.at = "idle"
  BY EmptyTable DEF Job, Idle
<1>5. job \in [Uploader -> Job] /\ \A w \in Uploader : job[w] = Idle
  BY <1>4 DEF Init
<1>6. Types
  BY <1>3, <1>4, <1>5 DEF Init, Types
<1>7. Times
  BY <1>2, <1>4, <1>5 DEF Init, Times
<1>8. UploadsSound
  BY <1>4 DEF Init, UploadsSound, FreshStamps
<1>9. \A w \in Uploader : JobSound(job[w])
  BY <1>4, <1>5 DEF JobSound
<1> QED
  BY <1>6, <1>7, <1>8, <1>9 DEF UInv

-----------------------------------------------------------------------------
(* A change of the directory.                                              *)

LEMMA WriteUploads ==
    ASSUME UInv, NEW f \in File, NEW c \in Content, Write(f, c)
    PROVE  UInv'
<1> USE DEF UInv
<1>1. /\ clock' = clock + 1 /\ clock \in Nat
      /\ disturbed' = (disturbed \/ main # "off")
      /\ UNCHANGED <<memVars, fileVars>>
  BY DEF Write, Change, Types
<1>2. /\ main' = main /\ job' = job /\ uploads' = uploads /\ stamps' = stamps
  BY <1>1 DEF memVars, fileVars
<1> DEFINE v == [content |-> c, mtime |-> clock']
<1>3. disk' = With(disk, f, v) /\ v.content = c /\ v.mtime = clock' /\ v \in OnDisk
  BY <1>1 DEF Write, OnDisk
<1> HIDE DEF v
<1>4. /\ disk' \in Table(OnDisk) /\ Present' = Present \cup {f}
      /\ disk'[f] = v
      /\ \A g \in Present \ {f} : disk'[g] = disk[g]
  <2>1. disk \in Table(OnDisk)
    BY DEF Types
  <2>2. v \in OnDisk
    BY <1>3
  <2>3. /\ With(disk, f, v) \in Table(OnDisk)
        /\ DOMAIN With(disk, f, v) = DOMAIN disk \cup {f}
        /\ With(disk, f, v)[f] = v
        /\ \A g \in DOMAIN disk \ {f} : With(disk, f, v)[g] = disk[g]
    BY <2>1, <2>2, WithTable
  <2> QED
    BY <1>3, <2>3 DEF Present
<1>5. Types'
  <2>1. dirTime' \in Nat
    BY <1>1 DEF Write, Types
  <2> QED
    BY <1>1, <1>2, <1>4, <2>1 DEF Types
<1>6. Times'
  <2>1. \A g \in Present' : disk'[g].mtime <= clock'
    BY <1>1, <1>3, <1>4, InTables DEF Times
  <2> QED
    BY <1>1, <1>2, <2>1, InTables, InJobs DEF Times
<1>7. /\ \A g \in Present \ {f} : Stat(g)' = Stat(g)
      /\ \A z, t : t <= clock => Stat(f)' # [size |-> z, mtime |-> t]
  BY <1>1, <1>3, <1>4 DEF Stat
<1>8. UploadsSound'
  <2>1. \A g \in DOMAIN uploads \cap Present' :
           Stat(g)' = [size |-> uploads[g].size, mtime |-> uploads[g].mtime]
              => g \in Present \ {f}
    BY <1>4, <1>7 DEF Times
  <2>2. \A g \in DOMAIN stamps \cap Present' :
           Stat(g)' = [size |-> stamps[g].size, mtime |-> stamps[g].mtime]
              => g \in Present \ {f}
    BY <1>4, <1>7 DEF Times
  <2>3. FreshStamps(uploads)'
    BY <1>1, <1>2, <1>4, <1>7, <2>1 DEF UploadsSound, FreshStamps
  <2>4. FreshStamps(stamps)'
    BY <1>1, <1>2, <1>4, <1>7, <2>2 DEF UploadsSound, FreshStamps
  <2> QED
    BY <2>3, <2>4 DEF UploadsSound
<1>9. ASSUME NEW w \in Uploader, NEW j, j = job[w] PROVE JobSound(j)'
  <2>1. JobSound(j)
    BY <1>9
  <2>2. CASE main = "off"
    BY <1>2, <2>1, <2>2 DEF JobSound, Idle
  <2>3. CASE main # "off"
    <3>1. j.at = "sent" /\ j.stamp = {Stat(f)'} => FALSE
      <4>1. Stat(f)'.mtime = clock'
        BY <1>3, <1>4 DEF Stat
      <4>2. j.at = "sent" => \A s \in j.stamp : s.mtime <= clock
        BY <1>9 DEF Times
      <4> QED
        BY <1>1, <4>1, <4>2
    <3>2. disturbed' /\ main' # "off"
      BY <1>1, <1>2, <2>3
    <3>3. ASSUME j.at = "sent", j.file \in Present' \ Rewritten, j.stamp = {Stat(j.file)'}
          PROVE  j.object = disk'[j.file].content
      <4>1. j.file \in Present \ {f}
        BY <1>4, <3>1, <3>3
      <4> QED
        BY <1>4, <1>7, <2>1, <3>3, <4>1 DEF JobSound
    <3> QED
      BY <2>1, <3>2, <3>3 DEF JobSound
  <2> QED
    BY <2>2, <2>3
<1>10. \A w \in Uploader : JobSound(job[w])'
  BY <1>2, <1>9
<1> QED
  BY <1>5, <1>6, <1>8, <1>10

LEMMA DeleteUploads ==
    ASSUME UInv, NEW f \in File, Delete(f)
    PROVE  UInv'
<1> USE DEF UInv
<1>1. /\ clock' = clock + 1 /\ clock \in Nat
      /\ disturbed' = (disturbed \/ main # "off")
      /\ UNCHANGED <<memVars, fileVars>>
  BY DEF Delete, Change, Types
<1>2. /\ main' = main /\ job' = job /\ uploads' = uploads /\ stamps' = stamps
  BY <1>1 DEF memVars, fileVars
<1>3. /\ disk' \in Table(OnDisk) /\ Present' = Present \ {f}
      /\ \A g \in Present' : disk'[g] = disk[g]
  <2>1. disk \in Table(OnDisk)
    BY DEF Types
  <2> QED
    BY <2>1, WithoutTable DEF Delete, Present
<1>4. Types'
  <2>1. dirTime' \in Nat
    BY <1>1 DEF Delete, Types
  <2> QED
    BY <1>1, <1>2, <1>3, <2>1 DEF Types
<1>5. Times'
  BY <1>1, <1>2, <1>3, InTables, InJobs DEF Times
<1>6. \A g \in Present' : Stat(g)' = Stat(g)
  BY <1>3 DEF Stat
<1>7. UploadsSound'
  <2>1. FreshStamps(uploads)'
    BY <1>1, <1>2, <1>3, <1>6 DEF UploadsSound, FreshStamps
  <2>2. FreshStamps(stamps)'
    BY <1>1, <1>2, <1>3, <1>6 DEF UploadsSound, FreshStamps
  <2> QED
    BY <2>1, <2>2 DEF UploadsSound
<1>8. ASSUME NEW w \in Uploader, NEW j, j = job[w] PROVE JobSound(j)'
  <2>1. JobSound(j)
    BY <1>8
  <2>2. CASE main = "off"
    BY <1>2, <2>1, <2>2 DEF JobSound, Idle
  <2>3. CASE main # "off"
    BY <1>1, <1>2, <1>3, <1>6, <2>1, <2>3 DEF JobSound
  <2> QED
    BY <2>2, <2>3
<1>9. \A w \in Uploader : JobSound(job[w])'
  BY <1>2, <1>8
<1> QED
  BY <1>4, <1>5, <1>7, <1>9

-----------------------------------------------------------------------------
(* Nobody changes anything: what was so of a table or a job is still so.   *)

LEMMA Still ==
    ASSUME UNCHANGED diskVars
    PROVE  /\ Present' = Present /\ disk' = disk /\ dirTime' = dirTime
           /\ clock' = clock /\ disturbed' = disturbed
           /\ \A f : Stat(f)' = Stat(f)
           /\ \A m : FreshStamps(m) => FreshStamps(m)'
           /\ \A j : JobSound(j) /\ (main' = "off" => main = "off") => JobSound(j)'
           /\ JobSound(Idle)'
<1>1. /\ disk' = disk /\ dirTime' = dirTime /\ clock' = clock /\ disturbed' = disturbed
  BY DEF diskVars
<1>2. Present' = Present /\ \A f : Stat(f)' = Stat(f)
  BY <1>1 DEF Present, Stat
<1>3. \A m : FreshStamps(m) => FreshStamps(m)'
  BY <1>1, <1>2 DEF FreshStamps
<1>4. \A j : JobSound(j) /\ (main' = "off" => main = "off") => JobSound(j)'
  BY <1>1, <1>2 DEF JobSound
<1>5. JobSound(Idle)'
  BY DEF JobSound, Idle
<1> QED
  BY <1>1, <1>2, <1>3, <1>4, <1>5

(* The driver is gone. *)
LEMMA GoneUploads ==
    ASSUME UInv, Gone, UNCHANGED <<diskVars, stamps>>
    PROVE  UInv'
<1> USE DEF UInv
<1>1. /\ main' = "off" /\ uploads' = Nothing /\ stamps' = stamps
      /\ job' = [w \in Uploader |-> Idle]
  BY DEF Gone
<1>2. /\ Nothing \in Table(Upload1) /\ DOMAIN Nothing = {}
      /\ Idle \in Job /\ Idle.at = "idle"
  BY EmptyTable DEF Job, Idle
<1>3. Types'
  BY <1>1, <1>2, Still DEF Types
<1>4. Times'
  BY <1>1, <1>2, Still DEF Times
<1>5. UploadsSound'
  <2>1. FreshStamps(uploads)'
    BY <1>1, <1>2 DEF FreshStamps
  <2> QED
    BY <1>1, <2>1, Still DEF UploadsSound
<1>6. \A w \in Uploader : JobSound(job[w])'
  BY <1>1, Still
<1> QED
  BY <1>3, <1>4, <1>5, <1>6

(* Another invocation, and steps that touch neither uploads nor jobs. *)
LEMMA StartUploads == ASSUME UInv, Start PROVE UInv'
<1> USE DEF UInv
<1>1. /\ main = "off" /\ main' = "fresh" /\ uploads' = stamps /\ stamps' = stamps
      /\ job' = job /\ UNCHANGED diskVars
  BY DEF Start, fileVars
<1>2. Types'
  BY <1>1, Still DEF Types
<1>3. Times'
  BY <1>1, Still DEF Times
<1>4. UploadsSound'
  BY <1>1, Still DEF UploadsSound
<1>5. \A w \in Uploader : JobSound(job[w])'
  BY <1>1, Still
<1> QED
  BY <1>2, <1>3, <1>4, <1>5

LEMMA OtherUploads ==
    ASSUME UInv, UNCHANGED <<diskVars, job, uploads>>, stamps' \in {stamps, uploads},
           main' = main \/ (main # "off" /\ main' \in {"walking", "resolved"})
    PROVE  UInv'
<1> USE DEF UInv
<1>1. /\ uploads' = uploads /\ job' = job
      /\ main' = "off" => main = "off"
  BY DEF Types
<1>2. Types'
  BY <1>1, Still DEF Types
<1>3. Times'
  BY <1>1, Still DEF Times
<1>4. UploadsSound'
  BY <1>1, Still DEF UploadsSound
<1>5. \A w \in Uploader : JobSound(job[w])'
  BY <1>1, Still
<1> QED
  BY <1>2, <1>3, <1>4, <1>5

-----------------------------------------------------------------------------
(* An upload moves on: one job changes, and perhaps the table of uploads.  *)

LEMMA OneJob ==
    ASSUME UInv, UNCHANGED <<diskVars, main, stamps>>,
           NEW w \in Uploader, NEW k \in Job, job' = [job EXCEPT ![w] = k],
           JobSound(k), k.at \in {"send", "sent"} => \A s \in k.stamp : s.mtime <= clock,
           uploads' \in Table(Upload1), \A f \in DOMAIN uploads' : uploads'[f].mtime <= clock,
           FreshStamps(uploads')
    PROVE  UInv'
<1> USE DEF UInv
<1>1. job' \in [Uploader -> Job] /\ job'[w] = k /\ \A v \in Uploader \ {w} : job'[v] = job[v]
  BY DEF Types
<1>2. Types'
  BY <1>1, Still DEF Types
<1>3. Times'
  BY <1>1, Still DEF Times
<1>4. UploadsSound'
  BY Still DEF UploadsSound
<1>5. \A v \in Uploader : JobSound(job[v])'
  BY <1>1, Still
<1> QED
  BY <1>2, <1>3, <1>4, <1>5

(* As OneJob, where no upload is remembered. *)
LEMMA OneJobOnly ==
    ASSUME UInv, UNCHANGED <<diskVars, main, stamps, uploads>>,
           NEW w \in Uploader, NEW k \in Job, job' = [job EXCEPT ![w] = k],
           JobSound(k), k.at \in {"send", "sent"} => \A s \in k.stamp : s.mtime <= clock
    PROVE  UInv'
<1>1. /\ uploads' \in Table(Upload1)
      /\ \A f \in DOMAIN uploads' : uploads'[f].mtime <= clock
      /\ FreshStamps(uploads')
  BY DEF UInv, Types, Times, UploadsSound
<1> QED
  BY <1>1, OneJob

LEMMA BackToIdle ==
    ASSUME UInv
    PROVE  /\ Idle \in Job /\ JobSound(Idle)
           /\ Idle.at \in {"send", "sent"} => \A s \in Idle.stamp : s.mtime <= clock
  BY DEF Job, Idle, JobSound

LEMMA BeginUploads ==
    ASSUME UInv, NEW w \in Uploader, NEW f \in File, Begin(w, f)
    PROVE  UInv'
<1> DEFINE k == [at |-> "stat", file |-> f,
                 copy |-> IF f \in Rewritten THEN {disk[f].content} ELSE {}]
<1>1. /\ f \in Present /\ disk[f].content \in Content /\ main # "off"
  BY InTables DEF Begin, UInv
<1>2. k \in Job
  <2>1. k.copy \in Some(Content)
    BY <1>1 DEF Some
  <2> QED
    BY <2>1 DEF Job
<1>3. JobSound(k)
  BY <1>1 DEF JobSound
<1>4. k.at = "stat" /\ job' = [job EXCEPT ![w] = k]
  BY DEF Begin
<1>5. UNCHANGED <<diskVars, main, stamps, uploads>>
  BY DEF Begin, fileVars
<1> HIDE DEF k
<1> QED
  BY <1>2, <1>3, <1>4, <1>5, OneJobOnly

LEMMA StampUploads ==
    ASSUME UInv, NEW w \in Uploader, TakeStamp(w)
    PROVE  UInv'
<1> DEFINE f == job[w].file
           stamp == IF f \in Present THEN {Stat(f)} ELSE {}
           k == [at |-> "send", file |-> f, copy |-> job[w].copy, stamp |-> stamp]
<1>1. /\ job[w].at = "stat" /\ f \in File /\ job[w].copy \in Some(Content) /\ job[w] # Idle
      /\ JobSound(job[w])
  BY InJobs DEF TakeStamp, UInv, Idle
<1>2. stamp \in Some(Stamp) /\ \A s \in stamp : s.mtime <= clock
  <2>1. f \in Present => Stat(f) \in Stamp /\ Stat(f).mtime <= clock
    BY InTables, SizeAssumption DEF UInv, Times, Stat, Stamp
  <2> QED
    BY <2>1 DEF Some
<1>3. UNCHANGED <<diskVars, main, stamps, uploads>>
  BY DEF TakeStamp, fileVars
<1>4. CASE job' = [job EXCEPT ![w] = Idle]
  BY <1>3, <1>4, BackToIdle, OneJobOnly
<1>5. CASE job' = [job EXCEPT ![w] = k]
  <2>1. k \in Job
    BY <1>1, <1>2 DEF Job
  <2>2. JobSound(k)
    BY <1>1 DEF JobSound, Idle
  <2>3. \A s \in k.stamp : s.mtime <= clock
    BY <1>2
  <2> HIDE DEF k
  <2> QED
    BY <1>3, <1>5, <2>1, <2>2, <2>3, OneJobOnly
<1>6. job' = [job EXCEPT ![w] = Idle] \/ job' = [job EXCEPT ![w] = k]
  BY DEF TakeStamp, Deliver
<1> QED
  BY <1>4, <1>5, <1>6

LEMMA SendUploads ==
    ASSUME UInv, NEW w \in Uploader, Send(w)
    PROVE  UInv'
<1> DEFINE f == job[w].file
<1>1. /\ job[w].at = "send" /\ f \in File /\ job[w] # Idle
      /\ job[w].copy \in Some(Content) /\ job[w].stamp \in Some(Stamp)
      /\ JobSound(job[w])
  BY InJobs DEF Send, UInv, Idle
<1>2. PICK o \in Sent(w) :
         job' = [job EXCEPT ![w] = [at |-> "sent", file |-> @.file,
                                    stamp |-> @.stamp, object |-> o]]
  BY DEF Send
<1> DEFINE k == [at |-> "sent", file |-> f, stamp |-> job[w].stamp, object |-> o]
<1>3. job' = [job EXCEPT ![w] = k]
  BY <1>2
<1>4. o \in Content /\ (job[w].copy = {} => f \in Present /\ o = disk[f].content)
                    /\ (job[w].copy # {} => job[w].copy = {o})
  BY <1>1, InTables DEF Sent, Some, UInv
<1>5. k \in Job
  BY <1>1, <1>4 DEF Job
<1>6. JobSound(k)
  BY <1>1, <1>4 DEF JobSound, Idle
<1>7. \A s \in k.stamp : s.mtime <= clock
  BY <1>1 DEF UInv, Times
<1>8. UNCHANGED <<diskVars, main, stamps, uploads>>
  BY DEF Send, fileVars
<1> HIDE DEF k
<1> QED
  BY <1>3, <1>5, <1>6, <1>7, <1>8, OneJobOnly

LEMMA RememberUploads ==
    ASSUME UInv, NEW w \in Uploader, Remember(w)
    PROVE  UInv'
<1> DEFINE f == job[w].file
           o == job[w].object
<1>1. /\ job[w].at = "sent" /\ f \in File /\ job[w] # Idle /\ o \in Content
      /\ job[w].stamp \in Some(Stamp) /\ JobSound(job[w])
      /\ \A s \in job[w].stamp : s.mtime <= clock
  BY InJobs DEF Remember, UInv, Idle, Times
<1>2. UNCHANGED <<diskVars, main, stamps>> /\ job' = [job EXCEPT ![w] = Idle]
  BY DEF Remember, fileVars, Deliver
<1>3. CASE job[w].stamp = {}
  <2>1. uploads' = uploads
    BY <1>3 DEF Remember, StampOf
  <2> QED
    BY <1>2, <2>1, BackToIdle, OneJobOnly
<1>4. CASE job[w].stamp # {}
  <2>1. PICK s \in Stamp : job[w].stamp = {s}
    BY <1>1, <1>4 DEF Some
  <2> DEFINE u == [size |-> s.size, mtime |-> s.mtime, object |-> o]
  <2>2. uploads' = With(uploads, f, u)
    BY <2>1 DEF Remember, StampOf
  <2>3. u \in Upload1 /\ u.mtime <= clock /\ u.object = o
        /\ s = [size |-> u.size, mtime |-> u.mtime]
    BY <1>1, <2>1 DEF Upload1, Stamp
  <2> HIDE DEF u
  <2>4. /\ uploads' \in Table(Upload1)
        /\ DOMAIN uploads' = DOMAIN uploads \cup {f}
        /\ uploads'[f] = u
        /\ \A g \in DOMAIN uploads \ {f} : uploads'[g] = uploads[g]
    <3>1. uploads \in Table(Upload1)
      BY DEF UInv, Types
    <3>2. f \in File /\ u \in Upload1
      BY <1>1, <2>3
    <3> HIDE DEF f
    <3>3. /\ With(uploads, f, u) \in Table(Upload1)
          /\ DOMAIN With(uploads, f, u) = DOMAIN uploads \cup {f}
          /\ With(uploads, f, u)[f] = u
          /\ \A g \in DOMAIN uploads \ {f} : With(uploads, f, u)[g] = uploads[g]
      BY <3>1, <3>2, WithTable
    <3> QED
      BY <2>2, <3>3
  <2>5. \A g \in DOMAIN uploads' : uploads'[g].mtime <= clock
    BY <2>3, <2>4 DEF UInv, Times
  <2>6. FreshStamps(uploads')
    <3>1. ASSUME f \in Present, f \in Rewritten => ~disturbed,
                 Stat(f) = [size |-> u.size, mtime |-> u.mtime]
          PROVE  o = disk[f].content
      BY <1>1, <2>1, <2>3, <3>1 DEF JobSound
    <3>2. FreshStamps(uploads)
      BY DEF UInv, UploadsSound
    <3>3. ASSUME NEW g \in DOMAIN uploads' \cap Present, g \in Rewritten => ~disturbed,
                 Stat(g) = [size |-> uploads'[g].size, mtime |-> uploads'[g].mtime]
          PROVE  uploads'[g].object = disk[g].content
      <4>1. CASE g = f
        <5>1. uploads'[g] = u
          BY <2>4, <4>1
        <5> QED
          BY <2>3, <3>1, <3>3, <4>1, <5>1
      <4>2. CASE g # f
        <5>1. g \in DOMAIN uploads /\ uploads'[g] = uploads[g]
          BY <2>4, <3>3, <4>2
        <5> QED
          BY <3>2, <3>3, <5>1 DEF FreshStamps
      <4> QED
        BY <4>1, <4>2
    <3> QED
      BY <3>3 DEF FreshStamps
  <2> QED
    BY <1>2, <2>4, <2>5, <2>6, BackToIdle, OneJob
<1> QED
  BY <1>3, <1>4

LEMMA VanishedUploads ==
    ASSUME UInv, NEW w \in Uploader, Vanished(w)
    PROVE  UInv'
<1>1. CASE Gone
  BY <1>1, GoneUploads DEF Vanished, fileVars
<1>2. CASE job' = [job EXCEPT ![w] = Idle] /\ UNCHANGED <<main, uploads>>
  <2>1. UNCHANGED <<diskVars, main, stamps, uploads>>
    BY <1>2 DEF Vanished, fileVars
  <2> QED
    BY <1>2, <2>1, BackToIdle, OneJobOnly
<1> QED
  BY <1>1, <1>2 DEF Vanished

LEMMA StepUploads == UInv /\ [Next]_vars => UInv'
<1> SUFFICES ASSUME UInv, [Next]_vars PROVE UInv'
  OBVIOUS
<1>1. ASSUME NEW f \in File, Delete(f) PROVE UInv'
  BY <1>1, DeleteUploads
<1>2. ASSUME NEW f \in File, NEW c \in Content, Write(f, c) PROVE UInv'
  BY <1>2, WriteUploads
<1>3. CASE Start
  BY <1>3, StartUploads
<1>4. CASE Stop
  BY <1>4, GoneUploads DEF Stop, fileVars
<1>5. ASSUME NEW w \in Uploader, Upload(w) PROVE UInv'
  <2>1. ASSUME NEW f \in File, Begin(w, f) PROVE UInv'
    BY <2>1, BeginUploads
  <2> QED
    BY <1>5, <2>1, StampUploads, SendUploads, RememberUploads, VanishedUploads DEF Upload
<1>6. CASE Resolve
  <2>1. main # "off" /\ main' \in {"walking", "resolved"}
    BY <1>6 DEF Resolve
  <2> QED
    BY <1>6, <2>1, OtherUploads DEF Resolve, fileVars
<1>7. CASE Record
  <2>1. main # "off" /\ main' \in {"walking", "resolved"}
    BY <1>7 DEF Record
  <2> QED
    BY <1>7, <2>1, OtherUploads DEF Record, fileVars
<1>8. CASE Persist
  BY <1>8, OtherUploads DEF Persist
<1>9. CASE PersistHalf
  BY <1>9, GoneUploads DEF PersistHalf
<1>10. CASE UNCHANGED vars
  BY <1>10, OtherUploads DEF vars, memVars, fileVars
<1> QED
  BY <1>1, <1>2, <1>3, <1>4, <1>5, <1>6, <1>7, <1>8, <1>9, <1>10 DEF Next

LEMMA UploadsInvariant == Spec => []UInv
<1> QED
  BY InitUploads, StepUploads, PTL DEF Spec

(* A stamp that fits a file names an object of the file's present bytes,   *)
(* in the memory of every invocation and in the file between them, however *)
(* many threads upload at once, and whatever is killed at any point        *)
(* (add_to_store_nar_cached, nar_stamp_hit, remember_nar_stamp).           *)
THEOREM StampsTell == Spec => []UploadsSound
<1>1. UInv => UploadsSound
  BY DEF UInv
<1> QED
  BY <1>1, UploadsInvariant, PTL

-----------------------------------------------------------------------------
(* The resolve memo.  An entry's directory and latest times are enough to  *)
(* tell a change by; its sum of sizes is not needed.                       *)

Fits(e) ==
    /\ Listed(e) # {}
    /\ Listed(e) \subseteq Present
    /\ e.print.dir = dirTime
    /\ e.print.max = MaxTime(Listed(e))

Told(e) ==
    /\ e.print.dir \in 0..clock
    /\ e.print.max \in 0..clock
    /\ Fits(e) => Current(e) /\ Present \ Below \subseteq Listed(e)

(* The walk has found, or has still to upload, what there is. *)
WalkSound ==
    main = "walking" => /\ DOMAIN found \cup todo = Present
                        /\ \A f \in DOMAIN found : found[f] = disk[f].content

Entries == memo \cup log \cup pending

(* What the walk's own steps keep, disturbed or not. *)
WalkShape ==
    /\ todo # {} => main = "walking"
    /\ main \in {"off", "fresh"} => found = Nothing
    /\ job[Resolver] # Idle => job[Resolver].file \in todo

MInv ==
    /\ dirTime <= clock
    /\ WalkShape
    /\ ~disturbed => WalkSound /\ \A e \in Entries : Told(e)

LEMMA LatestOf ==
    ASSUME NEW d, NEW c \in Nat, NEW F, F # {}, \A f \in F : d[f].mtime \in 0..c,
           NEW T, T = {d[f].mtime : f \in F}
    PROVE  Max(T) \in 0..c /\ \A f \in F : d[f].mtime <= Max(T)
<1>1. T \in SUBSET (0..c) /\ T # {} /\ \A f \in F : d[f].mtime \in T
  OBVIOUS
<1>2. Max(T) \in T /\ \A t \in T : Max(T) >= t
  BY <1>1, Latest
<1> QED
  BY <1>1, <1>2

LEMMA InitMemo == Init => MInv
<1> SUFFICES ASSUME Init PROVE MInv
  OBVIOUS
<1>1. Nothing = Nothing /\ job[Resolver] = Idle
  BY DEF Init, Uploader
<1> QED
  BY <1>1 DEF Init, MInv, WalkShape, WalkSound, Entries

(* A change while the driver is up is a disturbance. *)
LEMMA ChangeMemo ==
    ASSUME UInv, UInv', MInv, Change, UNCHANGED <<memVars, fileVars>>,
           NEW f \in File, f \in Present' => disk'[f].mtime = clock',
           Present' \ {f} = Present \ {f}, \A g \in Present \ {f} : disk'[g] = disk[g],
           dirTime' = dirTime \/ dirTime' = clock',
           dirTime' = dirTime => f \in Below \/ (f \in Present /\ f \in Present')
    PROVE  MInv'
<1>1. /\ clock' = clock + 1 /\ clock \in Nat /\ dirTime \in Nat
      /\ disturbed' = (disturbed \/ main # "off")
      /\ dirTime <= clock
  BY DEF Change, UInv, Types, MInv
<1>2. /\ main' = main /\ job' = job /\ todo' = todo /\ found' = found
      /\ memo' = memo /\ pending' = pending /\ log' = log
  BY DEF memVars, fileVars
<1>3. dirTime' <= clock'
  BY <1>1
<1>4. WalkShape'
  BY <1>2 DEF MInv, WalkShape, Idle, Nothing
<1>5. ASSUME ~disturbed' PROVE WalkSound' /\ \A e \in Entries' : Told(e)'
  <2>1. main = "off" /\ ~disturbed
    BY <1>1, <1>5
  <2>2. WalkSound'
    BY <1>2, <2>1 DEF WalkSound
  <2>3. ASSUME NEW e \in Entries' PROVE Told(e)'
    <3>1. Told(e)
      BY <1>2, <2>1, <2>3 DEF MInv, Entries
    <3>2. e.print.dir \in 0..clock' /\ e.print.max \in 0..clock'
      BY <1>1, <3>1 DEF Told
    <3>3. ASSUME Fits(e)' PROVE Current(e)' /\ Present' \ Below \subseteq Listed(e)
      <4>1. /\ Listed(e) # {} /\ Listed(e) \subseteq Present'
            /\ e.print.dir = dirTime'
            /\ e.print.max = Max({disk'[g].mtime : g \in Listed(e)})
        BY <3>3 DEF Fits, MaxTime, Listed
      <4>2. f \notin Listed(e)
        <5>1. \A g \in Listed(e) : disk'[g].mtime \in 0..clock'
          <6>1. Types' /\ Times' /\ Listed(e) \subseteq DOMAIN disk'
            BY <4>1 DEF UInv, Present
          <6>2. \A g \in DOMAIN disk' : disk'[g].mtime \in Nat
            <7>1. disk' \in Table(OnDisk)
              BY <6>1 DEF Types
            <7>2. \A g \in DOMAIN disk' : disk'[g] \in OnDisk
              BY <7>1, InTable
            <7> QED
              BY <7>2 DEF OnDisk
          <6> QED
            BY <1>1, <6>1, <6>2 DEF Times, Present
        <5>2. clock' \in Nat
          BY <1>1
        <5>3. \A g \in Listed(e) : disk'[g].mtime <= e.print.max
          <6>1. PICK T : T = {disk'[g].mtime : g \in Listed(e)}
            OBVIOUS
          <6>2. \A g \in Listed(e) : disk'[g].mtime <= Max(T)
            BY <4>1, <5>1, <5>2, <6>1, LatestOf
          <6> QED
            BY <4>1, <6>1, <6>2
        <5> QED
          <6>1. e.print.max \in 0..clock
            BY <3>1 DEF Told
          <6>2. ASSUME f \in Listed(e) PROVE FALSE
            <7>1. disk'[f].mtime = clock' /\ clock' <= e.print.max
              BY <4>1, <5>3, <6>2
            <7> QED
              BY <1>1, <6>1, <7>1
          <6> QED
            BY <6>2
      <4>3. dirTime' = dirTime /\ f \in Present \cup Below
        BY <1>1, <3>1, <4>1 DEF Told
      <4>4. /\ Listed(e) \subseteq Present \ {f}
            /\ \A g \in Listed(e) : disk'[g] = disk[g]
        BY <4>1, <4>2
      <4>5. {disk'[g].mtime : g \in Listed(e)} = {disk[g].mtime : g \in Listed(e)}
        BY <4>4
      <4>6. Fits(e)
        BY <4>1, <4>3, <4>4, <4>5 DEF Fits, MaxTime
      <4>7. Current(e) /\ Present \ Below \subseteq Listed(e)
        BY <3>1, <4>6 DEF Told
      <4>8. Current(e)'
        BY <4>4, <4>7 DEF Current, Listed
      <4>9. Present' \ Below \subseteq Listed(e)
        BY <4>2, <4>3, <4>7
      <4> QED
        BY <4>8, <4>9
    <3> QED
      BY <3>2, <3>3 DEF Told, Listed
  <2> QED
    BY <2>2, <2>3
<1> QED
  BY <1>3, <1>4, <1>5 DEF MInv

LEMMA WriteMemo ==
    ASSUME UInv, UInv', MInv, NEW f \in File, NEW c \in Content, Write(f, c)
    PROVE  MInv'
<1> DEFINE v == [content |-> c, mtime |-> clock']
<1>1. /\ Change /\ UNCHANGED <<memVars, fileVars>> /\ disk' = With(disk, f, v)
      /\ v.mtime = clock'
  BY DEF Write
<1> HIDE DEF v
<1>2. /\ Present' = Present \cup {f} /\ disk'[f] = v
      /\ \A g \in Present \ {f} : disk'[g] = disk[g]
  BY <1>1 DEF With, Present
<1>3. dirTime' = dirTime \/ dirTime' = clock'
  BY DEF Write
<1>4. dirTime' = dirTime => f \in Below \/ (f \in Present /\ f \in Present')
  BY <1>1, <1>2 DEF Write, Change, UInv, Types, MInv
<1> QED
  BY <1>1, <1>2, <1>3, <1>4, ChangeMemo

LEMMA DeleteMemo ==
    ASSUME UInv, UInv', MInv, NEW f \in File, Delete(f)
    PROVE  MInv'
<1>1. /\ Change /\ UNCHANGED <<memVars, fileVars>> /\ disk' = Without(disk, f)
  BY DEF Delete
<1>2. /\ Present' = Present \ {f}
      /\ \A g \in Present \ {f} : disk'[g] = disk[g]
  BY <1>1 DEF Without, Present
<1>3. dirTime' = dirTime \/ dirTime' = clock'
  BY DEF Delete
<1>4. dirTime' = dirTime => f \in Below
  BY <1>1 DEF Delete, Change, UInv, Types, MInv
<1> QED
  BY <1>1, <1>2, <1>3, <1>4, ChangeMemo

(* Steps of the driver: no entry is new, and the walk's own part is shown. *)
LEMMA DriverMemo ==
    ASSUME MInv, UNCHANGED diskVars, WalkShape', ~disturbed => WalkSound',
           Entries' \subseteq Entries
    PROVE  MInv'
<1>1. \A e : Told(e) => Told(e)'
  BY Still DEF Told, Fits, Current, Listed, MaxTime
<1> QED
  BY <1>1, Still DEF MInv

LEMMA GoneMemo ==
    ASSUME MInv, Gone, UNCHANGED diskVars, log' \subseteq log \cup pending
    PROVE  MInv'
<1>1. /\ main' = "off" /\ todo' = {} /\ found' = Nothing /\ memo' = {} /\ pending' = {}
      /\ job'[Resolver] = Idle
  BY DEF Gone, Uploader
<1>2. WalkShape' /\ WalkSound' /\ Entries' \subseteq Entries
  BY <1>1 DEF WalkShape, WalkSound, Entries
<1> QED
  BY <1>2, DriverMemo

(* An upload moves on without the walk's hearing of it. *)
LEMMA JobMemo ==
    ASSUME UInv, MInv, UNCHANGED <<diskVars, main, todo, found, memo, pending, log>>,
           NEW w \in Uploader, NEW k, job' = [job EXCEPT ![w] = k],
           w = Resolver => k = Idle \/ k.file \in todo
    PROVE  MInv'
<1>1. job'[Resolver] = Idle \/ job'[Resolver].file \in todo
  BY DEF UInv, Types, MInv, WalkShape, Uploader
<1>2. WalkShape' /\ (~disturbed => WalkSound') /\ Entries' \subseteq Entries
  BY <1>1, Still DEF MInv, WalkShape, WalkSound, Entries, Idle, Nothing
<1> QED
  BY <1>2, DriverMemo

(* An upload is over. *)
LEMMA DeliverMemo ==
    ASSUME UInv, MInv, UNCHANGED <<diskVars, main, memo, pending, log>>,
           NEW w \in Uploader, job[w] # Idle, NEW o, Deliver(w, job[w].file, o),
           ~disturbed => job[w].file \in Present /\ o = disk[job[w].file].content
    PROVE  MInv'
<1>1. CASE w # Resolver
  BY <1>1, JobMemo DEF Deliver
<1>2. CASE w = Resolver
  <2>1. PICK f : f = job[w].file
    OBVIOUS
  <2>2. /\ job'[Resolver] = Idle /\ todo' = todo \ {f} /\ found' = With(found, f, o)
        /\ f \in todo /\ main = "walking"
    BY <1>2, <2>1 DEF Deliver, UInv, Types, MInv, WalkShape
  <2>3. /\ DOMAIN found' = DOMAIN found \cup {f} /\ found'[f] = o
        /\ \A g \in DOMAIN found \ {f} : found'[g] = found[g]
    BY <2>2 DEF With
  <2>4. WalkShape'
    BY <2>2 DEF WalkShape
  <2>5. ASSUME ~disturbed PROVE WalkSound'
    <3>1. WalkSound
      BY <2>5 DEF MInv
    <3> QED
      BY <2>1, <2>2, <2>3, <2>5, <3>1, Still DEF WalkSound
  <2>6. Entries' \subseteq Entries
    BY DEF Entries
  <2> QED
    BY <2>4, <2>5, <2>6, DriverMemo
<1> QED
  BY <1>1, <1>2

LEMMA UploadMemoStep ==
    ASSUME UInv, MInv, NEW w \in Uploader, Upload(w)
    PROVE  MInv'
<1>1. ASSUME NEW f \in File, Begin(w, f) PROVE MInv'
  <2> DEFINE k == [at |-> "stat", file |-> f,
                   copy |-> IF f \in Rewritten THEN {disk[f].content} ELSE {}]
  <2>1. job' = [job EXCEPT ![w] = k] /\ k.file = f
    BY <1>1 DEF Begin
  <2> HIDE DEF k
  <2> QED
    BY <1>1, <2>1, JobMemo DEF Begin, fileVars
<1>2. CASE TakeStamp(w)
  <2> DEFINE f == job[w].file
             stamp == IF f \in Present THEN {Stat(f)} ELSE {}
             k == [at |-> "send", file |-> f, copy |-> job[w].copy, stamp |-> stamp]
  <2>1. /\ job[w].at = "stat" /\ job[w] # Idle /\ JobSound(job[w])
        /\ UNCHANGED <<diskVars, main, memo, pending, log>>
    BY <1>2 DEF TakeStamp, UInv, Idle, fileVars
  <2>2. CASE Hit(f, stamp) /\ Deliver(w, f, uploads[f].object)
    <3>1. ASSUME ~disturbed PROVE f \in Present /\ uploads[f].object = disk[f].content
      <4>1. f \in Present
        BY <2>1, <3>1 DEF JobSound
      <4>2. f \in DOMAIN uploads /\ Stat(f) = [size |-> uploads[f].size, mtime |-> uploads[f].mtime]
        BY <2>2, <4>1 DEF Hit
      <4> QED
        BY <3>1, <4>1, <4>2 DEF UInv, UploadsSound, FreshStamps
    <3> QED
      BY <2>1, <2>2, <3>1, DeliverMemo
  <2>3. CASE job' = [job EXCEPT ![w] = k] /\ UNCHANGED <<todo, found>>
    <3>1. w = Resolver => k.file \in todo
      BY <2>1 DEF MInv, WalkShape
    <3> HIDE DEF k
    <3> QED
      BY <2>1, <2>3, <3>1, JobMemo
  <2> QED
    BY <1>2, <2>2, <2>3 DEF TakeStamp
<1>3. CASE Send(w)
  <2>1. PICK k : job' = [job EXCEPT ![w] = k] /\ k.file = job[w].file
    BY <1>3 DEF Send
  <2>2. job[w] # Idle
    BY <1>3 DEF Send, Idle
  <2> QED
    BY <1>3, <2>1, <2>2, JobMemo DEF Send, fileVars, MInv, WalkShape
<1>4. CASE Remember(w)
  <2>1. /\ job[w].at = "sent" /\ job[w] # Idle /\ JobSound(job[w])
        /\ UNCHANGED <<diskVars, main, memo, pending, log>>
        /\ Deliver(w, job[w].file, job[w].object)
    BY <1>4 DEF Remember, UInv, Idle, fileVars
  <2>2. ~disturbed => job[w].file \in Present
                      /\ job[w].object = disk[job[w].file].content
    BY <2>1 DEF JobSound
  <2> QED
    BY <2>1, <2>2, DeliverMemo
<1>5. CASE Vanished(w)
  <2>1. CASE Gone
    BY <1>5, <2>1, GoneMemo DEF Vanished, fileVars
  <2>2. CASE job' = [job EXCEPT ![w] = Idle] /\ UNCHANGED <<main, todo, found, uploads, memo, pending>>
    BY <1>5, <2>2, JobMemo DEF Vanished, fileVars
  <2> QED
    BY <1>5, <2>1, <2>2 DEF Vanished
<1> QED
  BY <1>1, <1>2, <1>3, <1>4, <1>5 DEF Upload

LEMMA ResolveMemo == ASSUME UInv, MInv, Resolve PROVE MInv'
<1>1. /\ main = "fresh" /\ memo' = {} /\ job' = job /\ found' = found
      /\ pending' = pending /\ log' = log /\ UNCHANGED diskVars
  BY DEF Resolve, fileVars
<1>2. todo = {} /\ found = Nothing /\ job[Resolver] = Idle
  BY <1>1 DEF MInv, WalkShape
<1>3. \/ main' = "resolved" /\ todo' = {}
      \/ main' = "walking" /\ todo' = Present
  BY <1>2 DEF Resolve
<1>4. DOMAIN Nothing = {}
  BY DEF Nothing
<1>5. WalkShape' /\ WalkSound'
  BY <1>1, <1>2, <1>3, <1>4, Still DEF WalkShape, WalkSound
<1>6. Entries' \subseteq Entries
  BY <1>1 DEF Entries
<1> QED
  BY <1>1, <1>5, <1>6, DriverMemo

LEMMA RecordMemo == ASSUME UInv, MInv, Record PROVE MInv'
<1>1. /\ main = "walking" /\ todo = {} /\ main' = "resolved" /\ todo' = {} /\ found' = found
      /\ job' = job /\ memo' = memo /\ log' = log /\ UNCHANGED diskVars
  BY DEF Record, fileVars
<1>2. WalkShape' /\ WalkSound'
  BY <1>1 DEF MInv, WalkShape, WalkSound
<1> DEFINE r == [print |-> Fingerprint(DOMAIN found), objects |-> found]
<1>3. ASSUME ~disturbed PROVE Told(r)
  <2>1. DOMAIN found = Present /\ \A f \in DOMAIN found : found[f] = disk[f].content
    BY <1>1, <1>3 DEF MInv, WalkSound
  <2>2. r.print.dir \in 0..clock
    BY DEF Fingerprint, MInv, UInv, Types
  <2>3. r.print.max \in 0..clock
    <3>1. clock \in Nat
      BY DEF UInv, Types
    <3>2. PICK T : T = {disk[f].mtime : f \in Present}
      OBVIOUS
    <3>3. \A f \in Present : disk[f].mtime \in 0..clock
      BY <3>1, InTables DEF UInv, Times
    <3>4. Present # {} => Max(T) \in 0..clock
      BY <3>1, <3>2, <3>3, LatestOf
    <3>5. MaxTime(Present) \in 0..clock
      BY <3>1, <3>2, <3>4 DEF MaxTime
    <3> QED
      BY <2>1, <3>5 DEF Fingerprint
  <2>4. Current(r) /\ Present \ Below \subseteq Listed(r)
    BY <2>1 DEF Current, Listed
  <2> QED
    BY <2>2, <2>3, <2>4 DEF Told
<1>4. Entries' \subseteq Entries \cup {r}
  BY <1>1 DEF Record, Entries
<1> HIDE DEF r
<1>5. \A e : Told(e) => Told(e)'
  BY <1>1, Still DEF Told, Fits, Current, Listed, MaxTime
<1> QED
  BY <1>1, <1>2, <1>3, <1>4, <1>5, Still DEF MInv

LEMMA StepMemo == UInv /\ UInv' /\ MInv /\ [Next]_vars => MInv'
<1> SUFFICES ASSUME UInv, UInv', MInv, [Next]_vars PROVE MInv'
  OBVIOUS
<1>1. ASSUME NEW f \in File, Delete(f) PROVE MInv'
  BY <1>1, DeleteMemo
<1>2. ASSUME NEW f \in File, NEW c \in Content, Write(f, c) PROVE MInv'
  BY <1>2, WriteMemo
<1>3. CASE Start
  <2>1. WalkShape' /\ WalkSound' /\ Entries' \subseteq Entries /\ UNCHANGED diskVars
    BY <1>3 DEF Start, MInv, WalkShape, WalkSound, Entries, fileVars
  <2> QED
    BY <2>1, DriverMemo
<1>4. CASE Stop
  BY <1>4, GoneMemo DEF Stop, fileVars
<1>5. ASSUME NEW w \in Uploader, Upload(w) PROVE MInv'
  BY <1>5, UploadMemoStep
<1>6. CASE Resolve
  BY <1>6, ResolveMemo
<1>7. CASE Record
  BY <1>7, RecordMemo
<1>8. CASE Persist
  <2>1. /\ UNCHANGED <<diskVars, main, job, todo, found, memo>>
        /\ Entries' \subseteq Entries
    BY <1>8 DEF Persist, LogWith, Entries
  <2>2. WalkShape' /\ (~disturbed => WalkSound')
    BY <2>1, Still DEF MInv, WalkShape, WalkSound, Idle, Nothing
  <2> QED
    BY <2>1, <2>2, DriverMemo
<1>9. CASE PersistHalf
  BY <1>9, GoneMemo DEF PersistHalf, LogWith
<1>10. CASE UNCHANGED vars
  <2>1. UNCHANGED <<diskVars, main, job, todo, found, memo, pending, log>>
    BY <1>10 DEF vars, memVars, fileVars
  <2>2. WalkShape' /\ (~disturbed => WalkSound') /\ Entries' \subseteq Entries
    BY <2>1, Still DEF MInv, WalkShape, WalkSound, Entries, Idle, Nothing
  <2> QED
    BY <2>1, <2>2, DriverMemo
<1> QED
  BY <1>1, <1>2, <1>3, <1>4, <1>5, <1>6, <1>7, <1>8, <1>9, <1>10 DEF Next

(* Where files change between invocations only, an entry of the resolve    *)
(* memo that validates names objects of the present bytes of its files and *)
(* lists every file of the directory itself, whoever was killed where      *)
(* (upload_referenced_dir with lookup and record).                         *)
THEOREM MemoTells == Spec => []MemoSound
<1>1. MInv => MemoSound
  <2> SUFFICES ASSUME MInv, ~disturbed, NEW e \in memo \cup log, Validates(e)
               PROVE  Current(e) /\ Present \ Below \subseteq Listed(e)
    BY DEF MemoSound
  <2>1. Told(e)
    BY DEF MInv, Entries
  <2>2. Fits(e)
    BY DEF Validates, Fits, Fingerprint
  <2> QED
    BY <2>1, <2>2 DEF Told
<1>2. Spec => []MInv
  <2>1. Init => MInv
    BY InitMemo
  <2>2. UInv /\ UInv' /\ MInv /\ [Next]_vars => MInv'
    BY StepMemo
  <2> QED
    BY <2>1, <2>2, UploadsInvariant, PTL DEF Spec
<1> QED
  BY <1>1, <1>2, PTL

==============================================================================
