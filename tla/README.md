# nix-ninja in TLA+

nix-ninja is a drop-in `ninja`: it loads a `build.ninja`, and instead of running
each command in the build directory it writes one Nix derivation per edge and
leaves the building to Nix.  Its logic is in three places.  The *driver* loads the
graph, decides when an edge may start, works out what the edge reads, writes the
derivation and reacts to what its threads find out, the graph's own incompleteness
included.  The *build directory* outlives a driver: later passes read it, take
derivations over from earlier ones and put built files into it.  The *builder-side
runner* runs one edge's command inside a derivation, and has to come to what the
command would have come to in the build directory.  These modules model all three,
with the driver's client of the Nix daemon.

1. [Inventory](#inventory)
2. [Modules and the code they model](#modules-and-the-code-they-model)
3. [Runs](#runs)
4. [Bounds](#bounds)
5. [Fairness](#fairness)
6. [Proofs](#proofs)
7. [Disagreements found](#disagreements-found)
8. [What is not modelled](#what-is-not-modelled)
9. [Plan](#plan)

## Inventory

Each part with its state, what changes that state, who it talks to, what is hard
about it, and what makes it correct.  `hazards` in PROJECT.json puts the hard
parts at their lines.

**Scheduler** (`build.rs`: `BuildStates`, `Scheduler`, `Scheduler::run`).  State:
one of Unneeded, Want, Ready, Running, Done per edge, the count of edges owed
(`total_pending`), the FIFO of ready edges, and inside `run` the counts of edges
out and of failures.  Operations: `want_file`/`want_build` (a depth-first walk
with a stack of files for the cycle error), `pop_ready`, `ready_dependents`,
`handle_deferred_input`, the failure arm with and without
`NIX_NINJA_KEEP_GOING`.  It calls `Runner::start` for each ready edge and
`Runner::wait` when nothing is ready.  Hard: the run ends on `total_pending == 0`
or on "nothing ready, nothing running", and each of those is a redundant copy of
the edge states kept by hand over requeues and half-finished walks.  Correct
when: nothing starts before its inputs are built, no run stops silently with
edges unbuilt, "ok" means built, keep-going abandons only what depends on a
failure, every run ends.

**Deferred inputs** (`build.rs` `handle_deferred_input`, `producer_cycle`; `dyndep.rs`
`add_implicit_input`; `task.rs` `DeferMiss`, `no_defer`).  Include discovery in a
task thread meets a header that another edge produces and this edge is not ordered
after.  The thread answers `Deferred` before anything is written; the main thread
adds the input to the graph, wants the producer, and sends the edge back to the
queue; an edge that defers without naming anything new is built once more with
the producer index switched off.  Hard: the graph is edited while other threads
run, an edit may close a cycle, a walk may fail half way with the edit kept, and
a repeat must not go round for ever.

**Dyndep passes** (`build.rs` `build`, `load_all_dyndep`; `dyndep.rs` `apply_entry`).
All dyndep files are wanted and run first, then read and folded into the graph
(inputs for an edge, and a producer for files that had none), then the targets are
wanted by the same scheduler with the edge states the first pass left.  Hard: an
amendment for an edge that has already run, two amendments that collide.

**Runner threads** (`task.rs` `Runner::start`, `start_local_edge`, `wait`).  State:
`in_flight`, the result channel with its two ends, the running threads.  `start`
answers a phony edge itself; any other edge takes its job permits, then its
pool's permit, then gets a thread that sends one result and drops the permits.
`wait` prints a stall line on every timeout and hands one result to the
scheduler.  Hard: result and permits leave the thread in two steps; a thread may
die without having sent.

**Job permits** (`task.rs` `JobPermits`, `PermitState`, `JobPermit`, the admission
budget).  A weighted semaphore under a mutex and a condition variable: weights are
clamped to the cap, a task that weighs the whole cap raises a latch that holds
the light ones back, the budget shrinks with free memory and with load, a waiter
that sees no permit come back for long enough gives up.  There is only ever one
waiter, the main thread.  Hard: a unit lost or granted twice, taking permits of two
semaphores, giving up while things do move.

**Producer index and registry** (`task.rs` `derived_files`, `co_outputs`,
`phony_aliases`, stamp records, soname links, `resolve_target`,
`output_supersedes`, `ProducerIndex`).  What each finished edge made, under the names
later edges ask for.  Written by `wait` and `start`, read when tasks are assembled.
Hard: an upload registered for a name before its edge has run, merges that must not
be replacements, directories that several steps edit in place, stamps that stand
for other stamps.  Correct when a name stands for what the edges before its reader
made of it last.

**Task assembly** (`task.rs` `new_task`, some forty readers of command
lines, response files, linker words).  Runs in the main thread: an edge in,
the set of its inputs out, each an object at a path.  Hard: the readers take what
lies on disk, and the disk has copies of what edges write; stages drop, rebind and
merge what earlier stages found, and the last ones run after the sweep that was to
catch stale copies.

**Discovery and derivation building** (`task.rs` `build_task_derivation`,
`handle_derivation_result`, `subtool/dynamic_task.rs`; `deps-infer`).  Runs in the
task's own thread: scans includes or asks the preprocessor, may answer Deferred,
adds what was found, writes the derivation.  Hard: what it reads on disk may be
rewritten meanwhile, by a tool or by an edge that runs in the build directory.
Correct when a compile carries each header as its own edge writes it, a derivation
stages one content per path, and refers to all it carries.

**Local mode** (`local.rs`, `local_edge.rs`).  An edge that has to see the build
directory runs there, under every job permit; and after a successful run the
requested outputs are realised and placed in the directory.

**Recorded state** (`configure_state.rs`, `ninja_state.rs`).  State: what configure
left (`configure.v1`), kept originals, the journal of what was placed (`placed.v1`),
files set aside, and the derivations, inputs and hashes of earlier passes
(`emitted.v1`, `inputs.v1`, `files.v1`), a copy of these outside the directory for a
build that is tried again.  A pass begins by setting aside what earlier passes
placed, so that it reads the directory as configure and hooks left it, and puts it
back after it placed its own.  Hard: every one of these is done file by file and a
pass may die anywhere; what hooks edit must be told from what was placed by stamps
and inodes; a hash may have been recorded at an exit that did not hold the file the
task was given.  Correct when nothing written is lost, a pass sees configure's
directory, and a reused derivation is what a new one would be or is reported.

**Caches** (`resolve_cache.rs`, `discovery_cache.rs`).  State: entries loaded and
not yet validated, lines waiting for a flush, the files.  An entry of the resolve
memo stands for a directory that was walked and uploaded, one of the discovery
cache for what an edge's discovery found.  Hard: the files an entry vouches for are
edited by people, before, during and between runs; drivers are killed at any write,
are rebuilt, and share the files.  Correct when: what validates is what a fresh walk
would give, no build uses another's entries, what was flushed is found again.

**Store client** (`nix-builder-rpc-client`).  State: a pool of connections, the gate
retries pass through, memos of realised paths, of failed builds and of uploads
(`nar_uploads` with the files' stamps).  `build_paths` splits a call by derivation,
asks from several threads, and waits with a patience that depends on the caller.
Hard: answers come back out of order and by output name; every wait (gate, pool,
daemon) must count against something; a file is statted, read and remembered in
three steps.  Correct when each index of a call gets its own path, every call
returns, and a stamp that fits a file names an object of its present bytes.

**Builder-side runner** (`nix-ninja-task`).  Per derivation, in an empty directory:
place the inputs (links into the store, trees as trees of links, files the command
edits as copies), prepare headers and aliases, run the command, write stamps, patch
run paths, copy the outputs and the aliases beside them to the store.  Hard: the
same path may come as a file and inside a tree, as input and output, in two
spellings; an alias leads nowhere until the step after next.  Correct when the
command reads and leaves what it would in the one directory ninja has.

**Command line** (`cli.rs`, `main.rs`, `compdb.rs`): the order of a pass, arguments,
subtools.  **Vendored n2** (`vendor-n2`): third party, used as the loader of
`build.ninja`.  Its graph is an input here; its own scheduler is never run.

How they meet: `run` begins a pass over the directory, and `build` (one main thread)
owns the scheduler and the runner; the scheduler calls the runner, which assembles
a task, parks on the permits and starts a thread; the threads share the permits,
the caches and the client's pool with everybody and the channel with the main
thread; everything a thread learns reaches the graph and the registry through the
channel and is applied by the main thread alone.  The derivations meet the
builder-side runner only through the store.

## Modules and the code they model

```
TopoBuild                      what a run promises
   ^  implements (TopoSpec, proved)
Scheduler  <--- implements (SchedulerSpec, proved) --- WantWalk
   ^  extends
DyndepPass

JobPermits  <--- two instances --- Driver      the permits and the threads

Registry <- Readers <- Writers <- TaskInputs <- Discovery <- TaskDerivation <- Runner
                               each extends the one before

BuildDir <- Passes             passes over one build directory
StoreClient                    calls, pool, gate
UploadMemo, MemoLog            memories of uploads, of walks and of discoveries
BuilderTask                    one command in a builder, beside ninja's directory

Scheduler_proofs               of Scheduler, WantWalk and DyndepPass
Folding <- Runner_proofs       of the chain from Registry to Runner
Driver_proofs, Passes_proofs, UploadMemo_proofs, MemoLog_proofs, StoreClient_proofs
```

### TopoBuild

The promise, with no queue, thread or counter: edges that are wanted finish one at
a time, each when everything it depends on has finished; more edges and more
dependencies may turn up, but never for an edge that has finished; "ok" is said
only when nothing is owed.  It models no code.

### Scheduler

`state`, `pending`, `ready` are the three fields of `BuildStates`; `running` and
`failed` are the locals of `run`; `ordering` is the ordering inputs of every edge,
a variable since deferrals edit them; `noDefer` is `Runner.no_defer`; `threads` and
`results` are the runner as the scheduler sees it; `phase` says how far `build` has
come.

| action | code |
| --- | --- |
| `WantTarget`, `WantTargetRefused`, `BeginRun` | the want loop of `build`, and `want_file` for each target |
| `StartEdge`, `StartFails` | the inner loop of `run`: pop, set Running, `Runner::start` |
| `TaskEmits`, `TaskFails`, `TaskDefers` | the end of a task thread |
| `HandleDone` | `run`'s success arm and `ready_dependents` |
| `HandleFailure` | the failure arm: local edge, keep-going, stop |
| `DeferralAddsNothing`, `DeferralRefused`, `DeferralRequeued`, `DeferralWantFails` | the four ways through `handle_deferred_input` |
| `EndRun` | the loop's condition, its break, and the final verdict |

The walk is taken in one step: `NewlyWanted` is the set of edges it marks, and the
order in which it appends to the queue is any order.  What a thread's discovery may
miss is part of the graph (`Graph.miss`); `Runner` has how a miss comes about.  All
the main thread's handling of one result is one action: no other thread reads what
it writes meanwhile.

### WantWalk

The same driver with `want_file` and `want_build` taken call by call: `stack` is the
stack of open calls with what is left of each one's loops, and the state is
marked on the way back up.  Task threads work on between the steps.  The
order in which inputs are taken is any order.  `SchedulerSpec` is the refinement to
`Scheduler`: while a walk is under way, `Scheduler` still sees the state the walk
began in and a deferral as not yet received, and the whole walk is the step that
its end takes.  A file that is open already breaks the walk off; which edges are
marked by then depends on the order of the inputs.

### DyndepPass

`Scheduler` run twice with the edges' states kept: `DInit` wants the dyndep files
(in any order: the code goes through a hash map), `ReadDyndep`, `SkipEntry`,
`RefuseEntry`, `ApplyEntry` are `load_all_dyndep` after its run and `apply_entry`,
`BeginTargets` is `build` going on.  `graph.producer` changes here, since an entry
gives files a producer.

### JobPermits and Driver

`JobPermits` is a component of `Driver`, which has two instances of it: the job
permits, where a local edge asks for all, and a ninja pool's.  `count`, `heavy`,
`held` are `PermitState`; `prev` and `quiet` are the locals of a wait (the count seen
last, the clock since it fell); `looked` makes a waiter look once per tick or
change; `dry` records, for the property only, how long no permit has come back.
`Park`, `Admit`, `LookAgain`, `GiveUp` are the parts of `acquire_weighted`, `Release`
is `Drop`, `Tick` is `PERMIT_WAIT_TICK`.  `Budget` is the admission budget; the
readings it depends on are any of `AvailGib` and either answer about the load, at
every look.

In `Driver`, `Pick`, `TakeJobPermits`, `TakePoolPermit`, `WaitForPermits`,
`StallOnPermits` are `start` and `start_local_edge`; `StartWaiting`, `Receive`,
`HearNothing` are `wait`; `SendResult`, `Panic`, `DropPoolPermit`, `DropJobPermits`
are a thread's end, one step each.  All edges are ready from the start: order is
`Scheduler`'s subject.

### Registry, Readers, Writers, TaskInputs, Discovery, TaskDerivation, Runner

One driver from the start of an edge to the registration of what it wrote, with the
data that flows through it.  `world` is the build: the graph, what each command and
each file says to its readers, which files are on disk; `rev` counts how often a
file was rewritten.  An object is who made it (an edge, or an upload of the file on
disk at a revision) and what it holds; a path is a name.

`Registry` has the maps of the `Runner` that outlive a task (`derived_files`,
`phony_aliases`, `stamp_inputs`, `stamp_records`, `co_outputs`, `soname_links`,
`gir_includes`, `runtime_lib_deps`, `path_defines`, `py_closures`), each written as the
code writes it, and what they answer: `ResolveTarget`, `Supersedes`, the producer index.

`Readers` has the readers of `new_task`: what a tool opens that no edge declares.  A
command, a file's text and a script's calls are records of what the reader picks out of
them (`world.argv`, `world.text`, `world.calls`); `world.join` and `world.forms` say which
place a name is under a directory, and what it may be short for.  The reader's own part
is the model: where it looks and in which order, what it follows on, how deep, what it
reports though it is missing, what it drops.  Most are a closure over `Said` (`Reached`)
with a search order of their own; the python readers walk directories of scripts, within
`TreeLimit`, `DataLimit` and `ClosureLimit`.  `py_closures` is `CLOSURE_MEMO`: the closure
of a directory is worked out once a run, and a script that an edge in the build directory
rewrites later is not looked into again.

`Writers` has what a command writes beside its declared outputs: directories that
outputs stand for, steps of external projects, and the tools that write more than they
are told.  The code reads a command for it when the derivation declares its outputs and
again when its result is registered; `WithOutputs` and `Registers` are those two places,
and `RegisteredAreWritten` is what they owe each other.  `ProjectReferences` is the part
that is known before any edge runs: `co_outputs` as the producer index is built.

`TaskInputs` is `new_task`, a pipeline of stages in the order of the code, each a
function of the record of the work so far: own outputs, the worklist through stamps,
aliases and what inputs bring, the words of the command and of its response files,
the readers, configure's blanket, drops and joins, linker words, resource lists, the
rebinding to producers and the sweep: where a reader's answer goes, what it may replace
and what is dropped after it.

`Discovery` is include discovery: the breadth-first scan with its search order and its
memory of paths (`path_cache`), forced includes, an earlier depfile, the preprocessor,
macro arms, missed headers, confirmation and the deferral.  A place is one the build makes
if an edge writes it, or if it lies in a tree that an edge fills and is asked for from
outside that tree (`Made`, `hit_at`).  The preprocessor confirms what it reads or does not
find; where its run fails, since a condition needs what a lost header says
(`world.needed`), every candidate stays (`Fails`).  An answer that an earlier attempt banked
in the discovery cache (`world.banked`: the view it was asked with, its seeds, what it lists)
is given again before any of this, without a deferral, while its seeds are unmoved
(`Banked`, `Replayed`).  What a run itself banks is not followed: an entry is taken out as
it is looked up, and a key is asked twice in a run only by a compile that is built once
more without the index, whose answer would be worked out the same.  `TaskDerivation` is
`build_task_derivation` and `handle_derivation_result` stage by stage, the dynamic
task's additions included.  A derivation is the entries it stages, the objects it
refers to, and the outputs it declares.

`Runner` runs them: the main thread starts edges and receives results, each task is
built on a thread of its own.

| action | code |
| --- | --- |
| `StartPhony`, `StartTask` (`Resolved`, `LeftUnresolved`), `StartLocal` | `start`, `start_local_edge`, `reused_task` |
| `Reuse`, `Unresolved` | the thread of an edge an earlier pass derived |
| `Assemble`, `Emit` | the thread: `build_task_derivation`, then `handle_derivation_result` and what goes to the outer output |
| `RunLocal` | an edge that runs in the build directory: place what it is ordered after, run, read back |
| `Receive`, `ReceiveDeferred`, `ReceiveFailed`, `Return` | `wait` and what `run` does with the result |
| `Rewrite` | somebody rewrites a file meanwhile |

### BuildDir and Passes

`BuildDir` is one build directory: files with bytes and stamps, directories, and which
inodes changed since they were last recorded (`fresh`).  Its operations are those of
`configure_state.rs` on it, one file or directory a step: settling what an earlier
pass left behind, noting what changed, setting aside, removing emptied directories,
putting back, keeping originals, placing, the journal.

`Passes` is the life of a pass around it (`run` in `cli.rs`, `begin_pass` to
`pass_report`): `Begin`, `Refuse`, `Rewinds`, `WalkStep`, then `Reuse` or `Derive` for each
edge, `Built`, `KeepStep`, `PlaceStep`, `JournalStep`, then the record, a file a step
(`Merge` with `files.v1`, `WriteInputs`, `WriteEmitted`; to the attempt's directory
`BackEmitted`, `BackFiles`, `BackInputs`, `DropJournal`), `Report` with the count, `Exit`;
`Fail` ends a pass in an error, `Kill` at any step.  `inputs.v1` names files by their index
in `files.v1`.  In one directory the indices never move; while the attempt's two files come
from different directories (`attempt.dir`), any file may be read for an index, or neither file
can be read at all (`Readings`).  Between passes `Write` and `Delete` are hooks,
`Collect` takes a derivation out of the store, and `Retry` begins the whole build again
in a fresh directory with the record kept outside.  A derivation is its edge and what
it was given, so that "what a new one would be" can be compared.  The variables
`outside`, `latest`, `loose`, `touched`, `torn` are there for the properties: what configure and
hooks left, what was written last at each path, what placement may have left
unrecorded, what somebody changed, and over which edges a pass died between the two
halves of their record.

### UploadMemo

One directory whose files `Write` and `Delete` change, and the driver's two memories
of uploads: `uploads` is the client's `nar_uploads` and `stamps` its file; `memo`,
`pending` and `log` are the resolve memo's `unvalidated`, `pending` and file, cut
down to the one entry of this directory.

| action | code |
| --- | --- |
| `Start`, `Stop` | `Runner::new` loading both; a run that ends or is killed |
| `Begin` | `new_opaque_file` up to the upload, the rewritten copy included |
| `TakeStamp`, `Send`, `Remember` | `add_to_store_nar_cached_inner`: stat and `nar_stamp_hit`, the upload, `remember_nar_stamp` |
| `Vanished` | a file that is gone when it is read |
| `Resolve`, `Record` | `upload_referenced_dir` with `lookup` and the walk, `record` |
| `Persist`, `PersistHalf` | `persist_resolve_caches`, and being killed inside it |

`Resolver` is the main thread, which uploads what it listed; a `Worker` is a task
thread uploading anything.  An object is named by the content it was made from.
A write gives the file an mtime no file had before, and moves the mtime of the
directory only if it adds a file directly in it (`Below` are the files of a
subdirectory).  Whether a file is uploaded as a rewritten copy (`Rewritten`) does not
change with its content here.  `disturbed` remembers, for the properties, that a
file changed while the driver was up.  Listing a directory is one step, and so is a
fingerprint.  An entry's `count` is left out: it is the length of the entry's own
list on both sides of the comparison.

### MemoLog

The append-only file of either cache, as a sequence of headers, entries and
newlines (`text`).  `Start`, `Discard` are `init` (`DiscoveryCache::new`); `Record`,
`Lookup`; `Flush`, `Open`, `PutHeader`, `PutNewline`, `PutLine`, `EndLine` are `flush`,
a write each; `Gone` is a driver ending or being killed anywhere.  `Parse` is
`parse_persisted`, on lines that may have been glued together.  `cache`
says which of the two it is; they differ in when the header is decided on and in
whether a record is visible in its own run.  `banked`, `torn`, `shared` and `mixed` are there
for the properties only.  A file that was removed while another driver had it open is
written on unseen (`onFile`).

### StoreClient

`build_paths` call by call and request by request: `Lookup` in the memo and `Decide` on
the split, `TakeGroup` by the fan's threads, then for each request `Acquire`,
`ConnectFails`, `PoolWait` on the pool, `Timeout`, `ConnectionError`, `Succeed`,
`BuildFails` on the exchange, `Gate` before a retry, `NoteFailure` and `Return`.
`UploadStep` is another customer of the pool and `Reap` closes idle connections.
Time is not counted: an allowance is spent by a step that may be taken while its
wait lasts, so a call with patience for two stalls may stall twice however short
the waits are.  `daemon` says what may happen to each derivation and on the way.

### BuilderTask

Tasks one after the other, each `Begin`, `LayOutInputs`, `RunCommand` or `CommandFails`,
`StoreOutputs`.  `tree` is the task's own directory, where a path holds a file, a link
into the store, or an alias; `real` is the one directory in which ninja would have run
the same commands.  A command is a sequence of reads, writes and executions, applied
in both.  A file's content is what it was made from, so two files are the same if they
come from the same things.  `given` has a task's inputs in any order.

Every action and operator that stands for code is listed with its lines in
PROJECT.json under `map`.  Definitions marked "Mutant" are never used by a
specification: each is one plausible mistake in the definition that follows
it, and the property PROJECT.json names for it fails once the mistake is made.

## Runs

| run | asks |
| --- | --- |
| `scheduler` | Over every schedule of four graphs, with a failure, a refused start and a deferral possible at every edge, with and without keep-going: do the redundant counts and queues stay right (`Bookkeeping`), is the order kept for inputs added late too (`OrderRespected`), is the loop's break reached only with a failure recorded, as its comment says (`NoSilentStall`), does ok mean built (`OkMeansBuilt`), is a derivation written once and never before a deferral (`WrittenOnce`), does keep-going abandon only what depends on a failure (`KeepGoingDrains`), is an edge ordered after what it deferred on (`DeferralOrders`), and is all this an implementation of the promise (`TopoSpec`)? Does every run end, deferrals notwithstanding (`Termination`)? Yes, the last under the fairness below. |
| `walk` | Does the recursion mark what `Scheduler` says in one step, also when it breaks off on a cycle (`SchedulerSpec`)? Yes. Does it refuse ordering cycles only (`RefusedOnlyOnCycle`)? Yes: of all graphs here but one validation inputs close no cycle that ordering inputs do not (`CyclesThroughInputs`), and that one (`Validated`) is entered by a file outside the cycle. |
| `dyndep` | Two dyndep files over six plans: amendments before the edges they amend (`AmendedBeforeRun`), targets built with what was added (`TargetsBuilt`), outputs never taken over (`ProducersKept`). Yes, where no dyndep file depends on an edge that names one. |
| `driver` | Under both limits and with a panicking thread: do the limits hold for the work itself (`WithinLimits`), do permits leave with their threads and with nobody else (`PermitsFollowThreads`), does a start give up only when nothing has come back for the whole bail time (`StartsGiveUpDry`), and does the run end as long as no thread dies (`Ends`)? Yes. |
| `runner` | A hundred and four small builds: does the registry follow the producers (`RegistryFollowsProducer`), is no copy on disk carried for a file that an edge before makes (`NoStaleInput`), does a compile carry each header as its edge writes it (`HeadersFromTheirMakers`), is there one content per path (`OneContentPerPath`) and a reference for all that is carried (`SurvivorsReferenced`), is what is registered what derivations declare (`RegisteredAreWritten`), does skipping covered stamps lose nothing (`CoversSound`), does a target stand for all its name covers (`TargetsResolved`), and does every run return however often it defers (`Returns`)? Yes, with the conditions below. |
| `runner_reuse` | Does an edge that cannot be resolved again keep its earlier derivation? No: disagreement 1. |
| `passes` | Three passes with a hook's edit or a collected derivation, a failure, a death at any step and a retry: does each pass read what configure and hooks left (`SeesConfigure`), is nothing written ever lost (`NothingLost`), is a reused derivation what a new one would be, or counted (`ReuseSound`), and is nothing counted without an edit (`StaleNeedsAnEdit`)? Yes, with the conditions below. |
| `passes_counted` | Is it counted also where the record disagrees with itself? No: disagreement 2. |
| `uploads` | Files edited at any moment, two uploaders, restarts and kills: is a stamp that fits a file of the file's present bytes (`UploadsSound`), and has a memo entry that validates the present bytes of its files, missing none that lies in the directory (`MemoSound`)? Yes; for a rewritten copy and for the memo, where files change between invocations only. |
| `memo_log` | Two builds of the driver one after the other, or two drivers of one build at once, killed at any write: does each load its own entries only (`OwnDriverOnly`), and find what finished flushes wrote (`BankedLoads`)? Yes; the second, where drivers do not overlap and none was killed inside a flush. |
| `client` | Two calls and an upload on a small pool, under a daemon that is silent, refuses, breaks off or fails builds: has each index of a call that ends well its own path, and the memo too (`AnswersMatch`)? Does every call return (`CallsEnd`)? Yes, the last under the fairness below. |
| `builder` | Four builds in tasks and in ninja's directory: does every input read the same in any order (`InputsAsReal`), is every stored output what the directory holds (`OutputsAsReal`), and does a task fail where the command would (`FailsLikeReal`)? Yes, with the conditions below. |

The models of a run terminate by themselves: a finished run stutters (`Stopped`,
`Rest`), so a deadlock anywhere else would be reported, and none is.  `UploadMemo` can
always start and stop.  Only the run of `MemoLog` does not look for deadlocks: with
all its invocations used up, the model really stops.

## Bounds

`Scheduler`, `WantWalk` and `DyndepPass` need no bound on counters: every run of a
finite graph is finite.  Six edges and seven files suffice for the shapes that
matter, and each graph of `MCScheduler` is there for some of them: a diamond under a
phony with compiles that defer on each other (`Colliding`), a generator outside
the first walk and one on a cycle of the ninja file (`OneObject`), an edge with two
outputs, a validation, a local edge and a target already wanted (`Validated`), three
edges that may each miss what the others make, in chains and in rings
(`SideBySide`).  `MCWantWalk` adds a cycle behind a good target, entered from outside
(`RingBehind`).  `MCDyndepPass` has amendments that use each other, that close a
cycle, that name one output twice, that name an edge not bound to the file, that
say nothing, and collations in a chain and apart.  An edge may defer at most on the
sets in `miss`, and a second time on the same one.

`driver`: two job permits, a pool of depth one with two edges, a link of whole
weight, a local edge and a compile that may panic; readings of memory below and above
the marks; bail after 2 ticks.  `quiet` and `dry` saturate at `Bail`; nothing compares
them with anything larger.  A waiter's reading of memory and load is chosen anew at
every look, which includes every history the real readings could have.

`runner`: at most five edges a build, 104 builds; `Path` is the paths they name between them, the
bound of worklists and closures.  Some worlds of `MCRunner` are aimed at
one way an input reaches a task: stamps of stamps, with and without a file dropped; a
library, its link and what runs with it; headers missed by two compiles, one behind a
branch that is not taken and one in a tree; a header the preprocessor cannot go on without; a
tree that is an include directory itself; answers banked by an earlier attempt, that fit and
that do not; a header made from what includes it; an
unpacked tree that later steps edit; stale copies reached by a word, a reader, the blanket
and another name; a header rewritten during its compiles; an edge in the build directory;
what cannot be built, with and without an earlier record.  The others take the tools one
by one: files that include files (`Including`), lists (`Listing`), scripts of cmake and of
node (`Scripting`), directories walked whole (`Walking`), python's imports and roots
(`Importing`, `Rooted`), generators and what they write (`Tools`), the steps of external
projects (`Steps`), projects of typescript (`Projects`), `Autogen`.  There an edge writes a
file the tool comes to read, of which a copy is on disk, the tool runs after it, and an
edge takes what the tool writes: three edges are every pair of a reader and a maker or
taker.  `MaxEdits` is one rewriting of one file, which suffices for a task to hold two
revisions; `ImplicitLimit` 2, `MacroArmScanCap` 6, `TreeLimit` 2, `DataLimit` 3 and
`ClosureLimit` 3 let a set or a directory be both within and over the limit.

`passes`: two edges, four files of which one is a placeholder configure left, two
directories below each other; three passes (one to record, one to replace, one to
reuse), and one each of edits, kills, retries and failures, in any order.  `Patched` is
what a retry may find changed; `Same` says which output comes out as the placeholder.

`UploadMemo`: a script, of which a rewritten copy is uploaded, and a file in a
subdirectory; two contents of one size (so that only mtimes tell them apart), one
task thread beside the main thread, two changes (`MaxClock`): one to go wrong and one
to be wrong against.  Invocations are not bounded.  `MemoLog`: two keys and three
invocations (`MaxStarts`), enough for one build to write and be killed, for another
to follow it and for the first to come back; nothing is recorded once the file has
five pieces (`MaxText`), which leaves room for a header, an ended entry, and what the
next invocation and a pending flush add.  `memo_log` goes no further than the first time two
builds are up at once (`ApartByBuild`): both its properties speak of the states before, and
`mixed` stays.  Processes, builds and keys are symmetric.

`client`: a call for outputs of two derivations, one derivation twice, a best-effort
call for one of them, and an upload; two connections (`PoolMax`), so that a request
finds the pool full, a gate of one (`GateWidth`), one stall (`MaxStalls`) and one failed
connection (`ConnectRetries`) to spare.  `McDaemons` has a daemon that is silent and
fails a build in a way that may pass, one that can only fail it, and one behind a socket
that refuses and breaks.

`builder`: four builds of two or three tasks: a library with an alias its own edge makes
and a tool that finds it (`OwnAlias`), the same with configure's alias
(`ConfiguredAlias`), headers synced into a tree (`Sync`), a tree and a file edited in
place (`Patch`).  Tasks run one at a time, which is no loss: they share nothing but the
store, where each only adds objects of its own.  Inputs, at most five a task, come in
every order.

## Fairness

`Scheduler!FairSpec`: the main thread moves when it can (it never parks while a
result is there or an edge is ready, `recv_timeout` returns when there is one), and
every task thread ends.  That a thread ends is an assumption about compilers, the
Nix daemon and the store: `client` shows the part of it that is the client's.  No
fairness is asked of a particular outcome: which way a thread ends is free.

`Driver!FairSpec`: the main thread, the clock (`wait_timeout`), and every thread to its
end, panics included.  All are weak.

`Runner!Fairness` is the same: main thread and threads, weakly.  It is written with the
guards of the actions in the place of ENABLED, which would compute a whole derivation
to learn that a thread may move.

`StoreClient!Fairness`: weak for calls, attempts and uploads, since each of their waits
has a timer.  Strong for the gate: it is free again and again while others pass it, and
tokio's semaphore is a first-in-first-out queue.

`Passes`, `BuilderTask`, `UploadMemo` and `MemoLog` have safety properties only and no
fairness.  A pass or a task that stops half way is a case of a death.

## Proofs

All modules with theorems are checked to the last leaf.  They assume what the
modules assume of their constants and nothing of the graphs, which may be cyclic and
whose edges may miss any file.

`Scheduler_proofs` proves `TypeCorrect`, `BooksBalance` and `BuiltInOrder` first.  Their
first invariant is `BInv`: types, `total_pending` equal to the number of edges owed
(`PendingExact`), the queue free of repetitions and equal to the Ready edges
(`QueueExact`), and every edge that is out Running and out once (`OutExact`).  It is
inductive by itself: a count moves only with the state it counts.  Order is not:
that a dependent readied by `HandleDone` is not ready too early, and that none is
forgotten, needs an edge in Want to have an unbuilt producer, and this survives a
walk only because a walk marks everything it reaches and refuses cycles.  So `OInv`
adds `OrderRespected`, that no part of the wanted edges waits on itself (`NoKnots`),
that wanted edges depend on wanted edges (`Closed`), both leaving the stuck edges out
(a deferral whose walk broke off keeps its new inputs and is stuck), and that an edge
is stuck only once a failure is recorded (`NoneStuck`).  `NoKnots` is where the deferral's
cycle guard is used: an edit that passes it adds an edge from the consumer to producers that do
not reach it, and a knot made by the edit would be one that was there before.

The same module draws the consequences.  `NeverStallsInSilence`: if
nothing is ready and nothing is out, the edges owed are in Want or stuck; were none
stuck, the edges in Want would be a knot.  `KeepGoingBuildsTheRest`: the same
argument on the part of the owed edges that does not reach a stuck one.
`WrittenAtMostOnce` adds `EInv`: what is emitted is what is Done or answered "ok",
phonies apart (`EmittedExact`), and a phony has no thread and no answer but "ok"
(`PhonyAnswers`).  `OkBuiltEverything` adds `VInv`: targets
taken off the list have their producers wanted, and "ok" is reached with nothing
owed.  `DeferredIsOrdered` is about graphs where no edge may miss a file it
has as a validation input (`MissesApart`); in the others the edge is queued again with
nothing ordered (see Scheduler below).  `ImplementsTopoBuild` shows each action to be an `Amend`, a `Finish`, a
`Succeed`, a `Fail` or a stutter of `TopoBuild` (`StepGrows`: wanted and dependencies
only grow, those of finished edges stay).

The queue is a sequence that lists a set (`Lists`); the module begins with what
appending a permutation of a set and taking the head make of one.

Of `WantWalk` the module proves that the recursion implements the one step (`WalksAsScheduled`),
for every set of graphs, cyclic ones included.  Both say what is marked, one by where calls
have been and the other by what the walk will have reached (`ToMark`, from the state the
walk began in), and `WInv` ties them.  `MarksSound`: what is marked so far is part
of `ToMark`, was unneeded, comes after the unneeded among its inputs, has no
cycle, and is counted and queued as one step would.  `CallSound` is about an open
call and the file it has in hand: whatever it is through with has been visited, and it is
ready just if all of that is Done or a source (`InputsLeft`), or it is marked and in
its second loop (`InputsOver`).  Two more parts are needed.  An edge with two outputs
may be entered a second time while it is open; the inner call still has before it the input
the outer one was left by (`Reentered`), which is open, so that it is refused before it
may mark: no edge is marked twice.  And an edge that is marked is still open as
long as its validations are not all walked (`ValidationOwed`).
When the stack is empty and nothing is left to start from, what is marked is closed under the
walk and so is all of `ToMark` (`WalkComplete`); when a file closes the stack, the edges from
where it is open are a cycle in `ToMark` (`KnotMet`).  Steps of the task threads and of the idle
main thread are `Scheduler`'s own.  `RefusedOnCycle` adds that nothing edits the inputs
before the run (`RefusalMet`); its graphs are those where validation inputs close no cycle of their own
(`CyclesThroughInputs`).

Of `DyndepPass` it proves `ProducersStay` for every plan, and `AmendedFirst`,
`BothPassesBuild` and `OrderedOverBoth` for the plans that are `Separate`: some set C of
edges suffices to make the dyndep files, its misses included, no dyndep file is bound to an
edge of C, and none gives a producer to a source file that C reads.  The code checks
none of this, and the plans of `dyndep` are such plans (`SeparatePlans`).  `SepInv` carries
`OInv` through both runs: in the first nothing outside C is ever wanted, since a walk from C
along what C reads stays there (`Ahead`, `WalkInside`), so an amendment touches no edge that
has a state; when the second begins nothing is out, nothing is stuck, and a count that starts
again from zero is exact.

`Driver_proofs` proves `PermitsFollow`, `LimitsHold` and `StallsAreDry` for every `-j`,
depth, weight and reading.  The count of a semaphore is a sum of weights; it becomes the
cardinality of the set of slots its holders fill, a holder of weight w filling w of
them.  `GBooks` and `PBooks` say so of the two semaphores, `Follow` says whose the
permits are, and together they are inductive (`IInv`).  Two holders of which one is
whole would fill more slots than there are, whence `LimitsHold`; that the budget never
exceeds the cap is arithmetic on its linear part (`Share`).  `StallsAreDry` is about
clocks (`Clocks`): the one waiter has either seen every release, and then has waited no
longer than nothing came back, or the count is below what it saw last, and then its next
look restarts its clock instead of giving up.

`UploadMemo_proofs` proves `StampsTell` and `MemoTells`, for every directory, any number
of uploaders, changes and invocations.  `UInv`: no time noted anywhere is later than the
clock (`Times`), so a file changed from now on fits no stamp there is, and what an upload
under way holds is what was on disk when its stamp was taken, or the stamp no longer fits
(`JobSound`).  `MInv` adds that an entry whose two mtimes fit the directory (`Fits`) has the present
bytes of its files and misses none (`Told`), and that a walk under way has found, or has
still to upload, what there is (`WalkSound`), as long as nothing is disturbed.  The argument uses the directory's mtime and the greatest mtime
of the files: the sum of sizes in the fingerprint is not needed for it.

`MemoLog_proofs` proves `OwnEntries` and `BanksAreFound` for any number of processes, builds,
keys and invocations.  Up to the first time drivers of two builds are up together (`mixed`)
`LInv` holds: all text of the file is of one build (`TextSound`), so a header that fits speaks for every
line after it, wherever writers were killed; `HandSound` and `OneBuildUp` say it of the
lines drivers hold.  After it `LInv` may be lost (see Logs below).  `BInv` has the shape a file has while nobody was killed inside a
flush and no two drivers overlapped: header and entries in turn with their newlines
(`Shape`), how far a flush has come (`Phase`), and that a banked line stands at an odd
place with its newline behind it (`Banked`).  `BanksLoad` shows that `Parse` finds it there:
a line of such a text is one piece (`LineOfOne`), and the last line of its key is of the
same build.

`StoreClient_proofs` proves `AnswersMatch` (`EachPathItsOwn`) for any calls, any paths in any
order, any daemon and any widths.  `CInv`: what a slot or the memo holds is the path's own
output, of a derivation that can be built (`SlotsSound`, `MemoSound`); a request that has
its answers has one for each miss of its derivation and for nothing else (`RequestSound`);
and of a call that fans out each group is still to be taken, asked for, or given up after a
failure (`FanOut`), so that a call that returns misses none.  Under one derivation the name
of an output says which it is: that each request names one derivation is what makes the
pooling of answers by name sound.

`Passes_proofs` proves `NothingIsLost`, `ReadsAsConfigured` and `ReusedAsDerived`, for every tree of files and
directories without a cycle, every build, and any number of passes, edits, retries, failures
and deaths.  `PInv` follows each last-written file: it stands where it was written or lies
aside (`Kept`), what stands over a file set aside is configure's own version of it
(`StandsOver`, `GaveWay`), the journal and the originals speak of placed files only
(`Records`), and each stage of a pass has done what the next relies on (`Progress`,
`Settled`): a stage that was broken off is done again by the next pass, which is why these
speak of the directory and not of the pass.  For what a pass reads, `SInv` adds that the clock
is ahead of every stamp (`TInv`), that a placed file whose stamp and inode fit its journal
entry is what was placed (`FileSound`), and what the rewind has still to set aside or to put
back (`Seeing`, `Aligned`, `Recall`); `Dirs` says of each directory configure did not make that
it is in the journal or above a file a hook left.  That `Above` is transitive, a function
defined by recursion, follows from the assumption that directories have no cycle: the
unfolding is proved for the least directory that would break it.

For what is reused, `RInv` adds to `SInv` that a pass moves and writes only files that edges
make (`MadeOnly`), so that whatever it read of the others stands until its report
(`ThisPass`); that every record of a derivation agrees with the record of what its edge read
(`RecordsAgree`), across reports, edge journals, retries and a death between any two of the
writes.  This has a part for each place a record is in: the state's files, of all edges but
those a pass died over (`StateAgrees`, `torn`, `Halves`), what the pass loaded
(`EarlierAgrees`), what it is about to write (`MergedAgrees`), and the attempt's directory,
where the journal answers for an edge until the last of the files it supersedes is there
(`AttemptAgrees`); and that makers come first, each with its recorded derivation unless its
readers are refused or a fallback is reported (`MakersFirst`, `AsRecorded`).  The last is why
`ReuseSound` needs no induction over the graph: an edge is reused when its makers are settled.

`Folding` and `Runner_proofs` are about the chain from `Registry` to `Runner`.  Its algorithms
are folds over sequences and sets, worklists (`Visits`, a fold over the tags there are) and
closures (`Reached`).  `Folding` has the lemmas, by induction, that a fold keeps what each step keeps (`SetKeeps`,
`SeqKeeps`), its step and what is kept being constants of the module; `Runner_proofs` takes an instance for each
loop of the code, with the loop's body for the step.

- `OneContentHeld` and `SurvivorsHeld`.  `Sofar` says what holds of a derivation after
  each of the ten stages of `build_task_derivation`: until collisions are resolved the
  entries are the inputs and what was found; after that, one object a path; what is put
  back raw is referred to again at the ninth stage.  The dynamic half adds only at paths
  that nothing claims.  What is found is an upload or a banked answer (`DiscoveredAs`): that a
  banked answer lists nothing that is rewritten or placed while the run goes on (`Banked_`,
  from `BankedAssumption`) is why it stages what the disk has.  `OneHeld` and `ReferredHeld` say it of built and emitted derivations, and
  `Drafts` ties these to the task they were made from.  Two hypotheses say what the code does not
  check.  `StagedApart`: headers staged for a command go to places where neither an input nor the
  disk has a file.  `NoneMixed`: a command that must see the outer paths raw (LTO) has
  no staged headers, as otherwise the second list is staged beside the first (see Runner below).
- `RegisteredHeld`.  Whatever the forty readers of `new_task` find, they add to the registry
  uploads at keys that have nothing, and no product of an edge (`Grown`, `TaskGrown`): that is proved
  stage by stage, worklists and lists that name lists included.  So a product comes in by a result
  alone, and `RegHeld` follows results from the draft to the channel to the registry.  The code reads
  a command for what it writes twice, when its derivation declares it and when its result is
  registered (`WithOutputs`, `Registers`), with files on disk in between: the theorem is about runs
  in which both readings agree (`WritesKept`), and an earlier pass's record agrees with this
  pass's reading (`EarlierWrites`).  Nothing in the code compares the two.
- `ProducerFollowed` adds to `RegHeld` what is on its way (`Bringing`), that an output of an edge that
  is not done has no product (`Unwritten`), and what done edges left (`OwnHeld`, `TreesHeld`).
  `output_supersedes` is what the proof turns on: the product of an edge displaces an upload or
  another's tree, and no other edge has a product for the same name (`OutputsAssumption`).  The
  trees that a step edits are read off the disk too, hence `TreesKept` and `EditsTrees`.

TLC finds the hypotheses, `StagedApart`, `NoneMixed`, `EarlierWrites` and `EditsTrees` in every
state, `WritesKept` and `TreesKept` of every step, to hold in all worlds of `runner`.  What the module
assumes of `Worlds` (an output is a file of one command, no output or depfile is a
directory, an earlier pass's derivations were sound, a banked answer's files stay as they are) TLC evaluates on every run.

Only model-checked: `Termination`, `Ends`, `Returns` and `CallsEnd` (liveness under
fairness and ENABLED are beyond the prover); of `Runner`, `NoStaleInput`, `HeadersFromTheirMakers`,
`CoversSound` and `TargetsResolved`, which say of a reader or a worklist that it finds enough
and not only that it adds nothing wrong, and so depend on what the readers look for in
each world; all of `BuilderTask`, whose algorithms are recursive operators, which no module
with proofs may reach; of `Passes`, `StaleNeedsAnEdit`, which is false of some builds (see Passes
below).

## Disagreements found

1. `runner_reuse`: the thread asks for an earlier pass's derivation only of an edge that
   was resolved again, but the comment at `reused_task` says an edge that could not be
   resolved keeps it.  Such an edge always fails.
2. `passes_counted`: "one no exit has held yet reuses exactly as before and the exit still
   counts it stale".  The exit of the pass that replaced the maker may fill the unknown
   hash with the replaced file's, and the edge then compares equal.  Pass 1 makes `bin`
   alone, a hook edits `src`, pass 2 makes `hdr` alone, pass 3 reuses the old `bin` and
   reports 0 stale.

More are conditions of the properties, or choices of the instances, rather than runs:

- *Scheduler.*  `add_implicit_input` returns when the file is any input of the edge,
  validation inputs included, and `new_ids` looks at ordering inputs only: an edge that
  misses a header it has as a validation input is queued again with nothing ordered
  (`DeferralOrders` is said of graphs without it, `MissesApart`).  Validation inputs are walked with
  the stack of the walk they are met in, where n2 starts a new one and has a test for it,
  so a validation that reads what it validates is refused as a cycle when the walk came
  by the file it reads, and walked when it came by another output of the same edge.
- *Dyndep.*  All dyndep files are run in one pass and applied after it: an edge that names
  one and is needed for another runs before its amendment (plans that are not `Separate`);
  the comment says this pass is "never a compile".
- *Driver.*  `wait` "fails loudly" when a thread is gone, but the runner itself keeps a
  sender, so the Disconnected arm is unreachable and a thread that panics leaves the main
  thread waiting for ever.  `Ends` excepts `Lost`.  An error from `Runner::start` ends
  the run even under keep-going.  A waiter that gives up says that nothing was released,
  not that the holder is dead: a local edge may hold every permit for as long as it runs.
- *Runner.*  The sweep that exchanges stale copies is called the one choke point
  (`task.rs` 4606), but later stages of `new_task` add inputs (4699-4997); an edge may
  then carry its own output of an earlier build.  With LTO a second list is staged beside
  the first (7471 and 7519-7536).  A missed header is known by its spelling (28016, 28081),
  so two spellings of one file are two misses.  Outputs a command writes undeclared have no
  producer node.  An include or output without an extension is taken for a tree.
  `PATH_CACHE` keeps negative answers for the whole run.  The worlds of `MCRunner` leave
  these out.
- *Passes.*  `loose` excepts what cannot be told: a file placed by a pass that then failed
  or died before its journal; a file a hook deleted while an older version lay aside, which
  recovery brings back; and a journaled file whose inode a dead pass moved and whose bytes no
  edge is recorded to have read, even where a hook changed it before it was journaled or left
  its stamp.  `NothingLost` excepts an output that comes out as configure left the file
  (`AsConfigured`): if the pass that placed it then fails or dies, the restore takes it for
  configure's version and brings back the product of the pass before, although `restore`
  says that a path "holding anything else was placed again by this pass, or edited, and
  keeps it" (`configure_state.rs` 2100-2101).
  `ReuseSound` excepts `Split` (disagreement 2), edges in `torn`, and passes that report a
  fallback.  *Torn*: `inputs.v1` and `emitted.v1` are written one after the other.  A pass that
  derived an edge again, as its source was edited, and dies between them leaves the new hashes
  with the old derivation; the next pass reuses that and counts nothing, against
  `configure_state.rs` 472-475 and 983 ("a source edited between passes never reaches here").
  *Fallbacks*: a collected derivation's edge is derived anew, but its outputs are not taken for
  replaced.  `StaleNeedsAnEdit` is said of builds without the outside record:
  with it, the memory of hashes that `journal_edge` fills in the middle of a pass answers at
  the exit, against the comment at `configure_state.rs` 540.  It also excepts a recorded hash
  that is a placeholder's, against the comment at 843; and it is not so of every build.  Where
  an edge probes for an output that configure has no version of, a pass that died may have left
  one; if then the edge's derivation is collected from the store and derived anew, it is
  given that file, makes other bytes, and its readers are counted although nothing was
  edited.  That takes three edges; `passes` has two.  After a retry, edges reused from
  the outside record are not in what is written back to it, which loses them for the next
  retry.  The journal lists outputs whether placed or not.  A hook that deletes
  configure's own file makes the pass that replaces it fail, and a first pass killed after
  its walk leaves a directory that later passes refuse.
- *Upload memory.*  A rewritten copy (a patched shebang, a `config.h`) is made before the
  file is statted.  Changed in between, the file is remembered with its new stamp and its
  old object, although the comment at `add_to_store_nar_cached` says the copy is covered
  by the stamp.  The resolve memo's fingerprint is taken after the uploads, where
  `resolve_cache.rs` promises "never a stale store path".  `files_fingerprint` has the mtime of
  the key directory only: a file added in a subdirectory does not drop the entry of a
  directory walked whole.
- *Logs.*  `writeln!` writes text and newline separately.  A kill between them glues the
  next run's first entry to the last one, which then loads with the next entry's kind as
  a path inside the store object.  `flush` trusts that a file with something in it has
  its own header: with drivers of two builds at once, which no lock prevents, one may append
  under a header the other wrote since, and the next driver of that other build loads its
  entries, although `discovery_cache.rs` 19-21 says that "entries computed by another scanner
  never replay".  `OwnDriverOnly` speaks of the time before (`mixed`).
- *Store client.*  Entries of `realised` are only ever inserted with `true`, so the branch
  that confirms one by looking is dead.  Failed connections count against the same
  allowance as stalls, so a best-effort call may wait for the whole of it.  A build that
  failed because an input of it failed for a passing reason is remembered as failed.
  `by_key` keeps the last chunk's result of a derivation.
- *Builder.*  A file declared beside the tree it lies in, where the tree is edited in
  place, makes `copy_tree` write through the link and fail.  An alias that is both input
  and output fails.  Of two trees that overlap, the first wins without a word.  A library
  reached through an alias its edge made needs the library and the alias as inputs: the run
  path that is added leads to the library's own object, which has no alias.  What a custom
  command leaves unwritten is stored empty, and its consumer reads an empty file where
  ninja's would find none (`InputsAsReal` says so).

## What is not modelled

*Text.*  The syntax of ninja files, dyndep files, depfiles, response files, AUTOGEN plans
and command lines, the tokenizer and the macro evaluator of `deps-infer`: what a reader
picks out of a text is given by the world of a run.  Names of store objects,
the derivation's text, the daemon's wire protocol.  The wording of messages, stall lines,
progress and heartbeats, the dry run.

*Driver.*  Collecting the outputs after a run (`NIX_NINJA_MATERIALIZE_ALL`, the edges
handed to `ninja_state`), the cgroup arithmetic behind a memory reading, the names in the
in-flight list.  What a failed resolution registered before it failed.  The
caps of some thousand files on what a reader collects, and `WALK_MEMO`, which remembers
listings of directories within a run.

*Directory.*  Ninja's own logs (`ninja_state`), a directory configured anew, trusted mode,
links and directories as outputs, and with links the journal's refusal of a file of configure's
that was written over with no copy kept (`configure_state.rs` 1664-1697: placement reaches one
through a link only; without links it is kept before it is placed, or the pass fails), I/O errors, the invocation record, the re-stamping
between placement and the journal, the placeholder rewriting and the outer stage of
local mode, the stamp records of local edges across runs.

*Caches and client.*  The recording of discovery entries inside a run, and an entry one of
whose listed files was changed since: `lookup` compares the sizes and times of the seeds only
(`discovery_cache.rs` 309), so it is replayed although a header the scan went on to find was
edited, where the module's comment says "never a stale input set" (22); `depfile_read_back`
compares the headers too.  The worlds have none of these (`BankedAssumption`).  The dynamic
subcommand, which never opens the cache.  A name no compiler would look up (`hit_at` answers
nothing for one) is a directive whose places none are made.
The stamps file written by several processes, a cache file that cannot be read, removed or
written, objects a collection removed (filtered when stamps are loaded), path queries, the
clock that patience is measured with.

*Builder.*  The depth of the build directory and the paths rewritten for it, PYTHONPATH,
empty directories, syncqt's staging directory, the transcript.

*Command line.*  Arguments, the environment, subtools, JSON output.  *n2*: third party.

## Plan

Written in this order: `Scheduler` with `TopoBuild` and its proofs (the core),
`JobPermits`, `Driver`, `WantWalk`, `DyndepPass`, `UploadMemo`, `MemoLog`, then the chain
from `Registry` to `Runner` (the readers and writers last), `BuildDir` and `Passes`,
`StoreClient`, `BuilderTask`, and the proofs of `Driver`, `UploadMemo`, `MemoLog`,
`StoreClient`, `Passes`, `DyndepPass`, `WantWalk` and `Runner`.  Next:

1. What a discovery entry vouches for over two attempts, as the runs bank it: answers given
   where no view could be had, and headers that change; the stamps file written by several
   processes at once.
2. `ninja_state` beside `Passes`: the stamps ninja's own logs are given before the journal,
   and a build that goes back and forth between the two programs.
3. `IncludeScan`: the breadth-first scan as a recursive function against its definition as
   a least closed set, and `Runner`'s threads as a refinement of `Scheduler`'s.
4. Trusted mode, links and directories as outputs in `Passes`.

Proofs still worth having: `TargetsResolved` and `CoversSound`, from what a worklist visits (the
other half of `Visits`); `OutputsAsReal` for commands that only write.
