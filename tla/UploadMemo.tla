----------------------------- MODULE UploadMemo ------------------------------
(***************************************************************************)
(* The two memories of uploads.  The store client remembers, for each file *)
(* it uploaded, the object it got and the size and mtime the file had      *)
(* (add_to_store_nar_cached in crates/nix-builder-rpc-client/src/lib.rs).  *)
(* The resolve memo remembers, for a directory walked whole, the objects   *)
(* of its files with a fingerprint of the directory                        *)
(* (crates/nix-ninja/src/resolve_cache.rs).  Both outlive the invocation,  *)
(* and both are trusted when what they noted still fits the files.         *)
(*                                                                         *)
(* Meanwhile somebody edits the files.  A write gives a file an mtime no   *)
(* file had before.                                                        *)
(***************************************************************************)
EXTENDS Integers, FiniteSets, FiniteSetsExt

CONSTANTS File,         \* the files of one directory
          Below,        \* those in a subdirectory of it
          Content,      \* what a file may hold; an object is named by it
          Size,         \* Size[c]: the bytes of content c
          Rewritten,    \* files uploaded as a rewritten copy: scripts, config.h
          Worker,       \* task threads, which upload what discovery finds
          Resolver,     \* the main thread, which walks the directory
          MaxClock      \* bound on the number of changes

ASSUME FileAssumption  == IsFiniteSet(File) /\ Below \cup Rewritten \subseteq File
ASSUME SizeAssumption  == Size \in [Content -> Nat]
ASSUME OwnerAssumption == Resolver \notin Worker
ASSUME ClockAssumption == MaxClock \in Nat

VARIABLES
    disk,       \* disk[f]: content and mtime of each file that exists
    dirTime,    \* the directory's own mtime
    clock,      \* the latest mtime given out
    disturbed,  \* a file has changed while the driver was running
    main,       \* "off", "fresh", "walking" or "resolved"
    job,        \* job[w]: the upload w is at
    todo,       \* files listed by the walk and not uploaded yet
    found,      \* objects of the files the walk has uploaded
    uploads,    \* nar_uploads: file to size, mtime and object
    memo,       \* unvalidated: the entry loaded for the directory, if any
    pending,    \* the entry computed by this run and not flushed
    stamps,     \* the stamps file
    log         \* the resolve memo's file

diskVars == <<disk, dirTime, clock, disturbed>>
fileVars == <<stamps, log>>
memVars  == <<main, job, todo, found, uploads, memo, pending>>
vars     == <<diskVars, memVars, fileVars>>

Uploader == Worker \cup {Resolver}

With(f, x, v) == [y \in DOMAIN f \cup {x} |-> IF y = x THEN v ELSE f[y]]
Without(f, x) == [y \in DOMAIN f \ {x} |-> f[y]]
Nothing       == [x \in {} |-> {}]

Present == DOMAIN disk

Stat(f) == [size |-> Size[disk[f].content], mtime |-> disk[f].mtime]

Idle == [at |-> "idle"]

Init ==
    /\ \E S \in SUBSET File :
          disk \in [S -> [content : Content, mtime : {0}]]
    /\ dirTime = 0
    /\ clock = 0
    /\ disturbed = FALSE
    /\ main = "off"
    /\ job = [w \in Uploader |-> Idle]
    /\ todo = {}
    /\ found = Nothing
    /\ uploads = Nothing
    /\ memo = {}
    /\ pending = {}
    /\ stamps = Nothing
    /\ log = {}

-----------------------------------------------------------------------------
(* Somebody edits the directory.                                           *)

Change == /\ clock < MaxClock
          /\ clock' = clock + 1
          /\ disturbed' = (disturbed \/ main # "off")

Write(f, c) ==
    /\ Change
    /\ disk' = With(disk, f, [content |-> c, mtime |-> clock'])
    /\ dirTime' = IF f \in Present \cup Below THEN dirTime ELSE clock'
    /\ UNCHANGED <<memVars, fileVars>>

Delete(f) ==
    /\ Change
    /\ f \in Present
    /\ disk' = Without(disk, f)
    /\ dirTime' = IF f \in Below THEN dirTime ELSE clock'
    /\ UNCHANGED <<memVars, fileVars>>

-----------------------------------------------------------------------------
(* An invocation: Runner::new loads both files.                            *)

Start ==
    /\ main = "off"
    /\ main' = "fresh"
    /\ uploads' = stamps
    /\ memo' = log
    /\ UNCHANGED <<diskVars, job, todo, found, pending, fileVars>>

(* It ends, or is killed, and its memory goes with it. *)
Gone ==
    /\ main' = "off"
    /\ job' = [w \in Uploader |-> Idle]
    /\ todo' = {}
    /\ found' = Nothing
    /\ uploads' = Nothing
    /\ memo' = {}
    /\ pending' = {}

Stop == main # "off" /\ Gone /\ UNCHANGED <<diskVars, fileVars>>

-----------------------------------------------------------------------------
(* One upload, by the resolver or a task thread.                           *)

(* new_opaque_file reads the file to see whether it must be rewritten, and *)
(* makes the rewritten copy.                                               *)
Begin(w, f) ==
    /\ main # "off"
    /\ job[w] = Idle
    /\ f \in Present
    /\ w = Resolver => f \in todo
    /\ job' = [job EXCEPT ![w] =
                  [at |-> "stat", file |-> f,
                   copy |-> IF f \in Rewritten THEN {disk[f].content} ELSE {}]]
    /\ UNCHANGED <<diskVars, main, todo, found, uploads, memo, pending, fileVars>>

(* The upload is over: the walk has its object. *)
Deliver(w, f, o) ==
    /\ job' = [job EXCEPT ![w] = Idle]
    /\ IF w = Resolver
       THEN todo' = todo \ {f} /\ found' = With(found, f, o)
       ELSE UNCHANGED <<todo, found>>

(* nar_stamp_hit: a file that could be statted, with the size and the mtime *)
(* of the entry.                                                            *)
Hit(f, stamp) ==
    /\ stamp # {}
    /\ f \in DOMAIN uploads
    /\ stamp = {[size |-> uploads[f].size, mtime |-> uploads[f].mtime]}

(* The stamp is taken first, and answers from the memory if it can. *)
TakeStamp(w) ==
    /\ job[w].at = "stat"
    /\ LET f     == job[w].file
           stamp == IF f \in Present THEN {Stat(f)} ELSE {}
       IN IF Hit(f, stamp)
          THEN Deliver(w, f, uploads[f].object)
          ELSE /\ job' = [job EXCEPT ![w] =
                             [at |-> "send", file |-> f, copy |-> @.copy, stamp |-> stamp]]
               /\ UNCHANGED <<todo, found>>
    /\ UNCHANGED <<diskVars, main, uploads, memo, pending, fileVars>>

(* What is sent: the copy if there is one, else the file as it is now. *)
Sent(w) == IF job[w].copy # {} THEN job[w].copy
           ELSE {disk[f].content : f \in {job[w].file} \cap Present}

Send(w) ==
    /\ job[w].at = "send"
    /\ \E o \in Sent(w) :
          job' = [job EXCEPT ![w] = [at |-> "sent", file |-> @.file,
                                     stamp |-> @.stamp, object |-> o]]
    /\ UNCHANGED <<diskVars, main, todo, found, uploads, memo, pending, fileVars>>

(* Mutant: the stamp is taken when the upload is over. *)
StampAfterwards(w) ==
    IF job[w].file \in Present THEN {Stat(job[w].file)} ELSE {}

StampOf(w) == job[w].stamp

(* remember_nar_stamp: a file that could not be statted is not remembered. *)
Remember(w) ==
    /\ job[w].at = "sent"
    /\ LET f == job[w].file
           o == job[w].object
       IN /\ uploads' = IF StampOf(w) = {} THEN uploads
                        ELSE With(uploads, f,
                                  [size   |-> (CHOOSE s \in StampOf(w) : TRUE).size,
                                   mtime  |-> (CHOOSE s \in StampOf(w) : TRUE).mtime,
                                   object |-> o])
          /\ Deliver(w, f, o)
    /\ UNCHANGED <<diskVars, main, memo, pending, fileVars>>

(* The file went away: a task thread's edge fails, the resolver's error    *)
(* ends the run.                                                           *)
Vanished(w) ==
    /\ \/ w = Resolver /\ main = "walking" /\ job[w] = Idle /\ todo \ Present # {}
       \/ job[w].at = "send" /\ Sent(w) = {}
    /\ IF w = Resolver THEN Gone
       ELSE /\ job' = [job EXCEPT ![w] = Idle]
            /\ UNCHANGED <<main, todo, found, uploads, memo, pending>>
    /\ UNCHANGED <<diskVars, fileVars>>

-----------------------------------------------------------------------------
(* The directory: upload_referenced_dir and python_closure_cached.         *)

Listed(e) == DOMAIN e.objects

MaxTime(F) == IF F = {} THEN 0 ELSE Max({disk[f].mtime : f \in F})

Bytes(F) == MapThenSumSet(LAMBDA f : Size[disk[f].content], F)

(* files_fingerprint: the directory's mtime and an aggregate over the      *)
(* entry's files.  (Its count is that of the entry's own list.)            *)
Fingerprint(F) == [dir |-> dirTime, sum |-> Bytes(F), max |-> MaxTime(F)]

(* Mutant: the directory's own mtime is not compared. *)
ValidatesFilesOnly(e) ==
    /\ Listed(e) # {}
    /\ Listed(e) \subseteq Present
    /\ e.print.sum = Bytes(Listed(e))
    /\ e.print.max = MaxTime(Listed(e))

(* lookup: every file listed still there, and the fingerprint the same.    *)
(* An entry without files does not decode.                                 *)
Validates(e) ==
    /\ Listed(e) # {}
    /\ Listed(e) \subseteq Present
    /\ e.print = Fingerprint(Listed(e))

(* The first use of the directory takes the loaded entry, or walks. *)
Resolve ==
    /\ main = "fresh"
    /\ memo' = {}
    /\ IF \E e \in memo : Validates(e)
       THEN main' = "resolved" /\ UNCHANGED todo
       ELSE main' = "walking" /\ todo' = Present
    /\ UNCHANGED <<diskVars, job, found, uploads, pending, fileVars>>

(* record: the fingerprint is taken now, after the uploads. *)
Record ==
    /\ main = "walking"
    /\ todo = {}
    /\ main' = "resolved"
    /\ pending' = IF DOMAIN found \subseteq Present
                  THEN {[print   |-> Fingerprint(DOMAIN found),
                         objects |-> found]}
                  ELSE {}
    /\ UNCHANGED <<diskVars, job, todo, found, uploads, memo, fileVars>>

(* The last entry of a directory counts. *)
LogWith == IF pending = {} THEN log ELSE pending

(* persist_resolve_caches, at a progress tick and when the run ends: the   *)
(* memo's new entry is appended, then the stamps file is replaced.         *)
Persist ==
    /\ main \in {"fresh", "resolved"}
    /\ log' = LogWith
    /\ pending' = {}
    /\ stamps' = uploads
    /\ UNCHANGED <<diskVars, main, job, todo, found, uploads, memo>>

(* Killed between the two. *)
PersistHalf ==
    /\ main \in {"fresh", "resolved"}
    /\ log' = LogWith
    /\ Gone
    /\ UNCHANGED <<diskVars, stamps>>

Upload(w) == \/ \E f \in File : Begin(w, f)
             \/ TakeStamp(w)
             \/ Send(w)
             \/ Remember(w)
             \/ Vanished(w)

Next == \/ \E f \in File : Delete(f) \/ \E c \in Content : Write(f, c)
        \/ Start
        \/ Stop
        \/ \E w \in Uploader : Upload(w)
        \/ Resolve
        \/ Record
        \/ Persist
        \/ PersistHalf

Spec == Init /\ [][Next]_vars

-----------------------------------------------------------------------------
(* "Size+mtime are still validated per hit": a stamp that fits the file    *)
(* belongs to an object made of the file's present bytes, in the memory    *)
(* and in the file, whoever edits the file while an upload is under way; a *)
(* rewritten copy is made before the stamp is taken, so for those files    *)
(* nobody may.                                                             *)
FreshStamps(m) ==
    \A f \in {g \in DOMAIN m \cap Present : g \in Rewritten => ~disturbed} :
        Stat(f) = [size |-> m[f].size, mtime |-> m[f].mtime]
            => m[f].object = disk[f].content

UploadsSound == FreshStamps(uploads) /\ FreshStamps(stamps)

Current(e) == \A f \in Listed(e) : e.objects[f] = disk[f].content

(* "A changed or added file drops the entry": where files change between   *)
(* invocations only, an entry of the resolve memo that validates has the   *)
(* present bytes of every file it lists, and lists every file the          *)
(* directory itself holds.                                                 *)
MemoSound ==
    ~disturbed => \A e \in memo \cup log :
        Validates(e) => Current(e) /\ Present \ Below \subseteq Listed(e)

==============================================================================
