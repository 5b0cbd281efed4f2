# A verification of mapache

mapache is a deduplicating backup program: it cuts files into content-addressed
*blobs*, collects blobs in *packs*, names the pack of every blob in *index*
files, and describes a backup by a *snapshot* file. Any number of processes on
any number of hosts share a repository through a plain file store; all they have
to coordinate is lock files. This directory holds TLA+ models of the parts of
mapache that a test hardly reaches, the TLC configurations that check them, and
TLAPS proofs of what matters most about them.

Paths below are relative to `src/crates/mapache/src`.

## 1. Inventory

| Component | Code | State | Operations | Model |
|---|---|---|---|---|
| Repository lock | `repository/lock.rs`, `commands/cleanup.rs`, `cmd_unlock.rs` | lock files with a timestamp, `LockHandle` (alive flag, unlock mutex, refresh task) | acquire, refresh, release, signal, sweep | `RepoLock`, `RwLock` |
| Repository files | `repository/repo.rs`, `index.rs` | pack, index and snapshot files | reload, get, add pack, persist, cleanup | `RepoBase` |
| snapshot, copy, clean, forget, recall, amend, rechunk, rebuild-index | `cmd_*.rs`, `repository/gc.rs` | what each has read and not yet written | a step per file written or deleted | `BackupCmd`, `CleanCmd`, `ForgetCmd`, `RewriteCmd`, `Repo` |
| Pack saver | `repository/packer.rs`, `index.rs`, `repo.rs` | channels, packers, workers, pending blobs | save blob, dispatch, upload, index, flush | `PackSaver` |
| Archiver pipeline | `archiver/*`, `fs/tree.rs`, `fs/mod.rs` | bounded channels, slots, chunker threads, pending trees | produce, route, chunk, forward, serialize | `Archiver`, `TreeSerializer`, `NodeStreams` |
| Restorer, blob loader | `restorer/*`, `cmd_restore.rs`, `repository/loader.rs` | plan, segments, batches, open handles, the local disk | plan, read, write, link, set metadata, delete | `Restorer`, `LocalDisk` |
| Index in memory | `repository/index.rs`, `utils/collections/*` | maps, Bloom filters, pending blobs, index files | look up, add pack, autosave, merge, reload | `MasterIndex` |
| Pack format | `repository/packer.rs`, `storage.rs` | buffer, descriptors, footer | add, finalize, parse | `PackFormat` |
| Chunker | `crates/chunker` | buffer, rolling hash | fill, cut | `Chunker` |
| Storage backends | `backend/mod.rs`, `localfs.rs`, `sftp.rs`, `s3.rs`, `dry.rs` | names, inodes, uploads; connections | write, rename, remove, list, connect | `FileStore`, `Listing`, `Connections` |
| Caching backend | `backend/cache.rs` | downloads under way, the local copy | read, write, rename, remove | `Cache` |
| Limiter | `backend/limiter.rs` | virtual time | consume | `Limiter` |
| Keys, init | `repository/keys.rs`, `manifest.rs`, `cmd_key.rs`, `cmd_init.rs` | key files, manifest | init, open, add, delete, change, export | `Keys` |
| Retention | `repository/retention.rs`, `cmd_forget.rs` | | choose snapshots | `Retention` |
| sync | `cmd_sync.rs` | two stores | list, compare, delete, copy | `Sync` |
| verify | `cmd_verify.rs`, `repository/verify.rs` | packs and trees seen, corrupt blobs | check packs, walk snapshots | `Verify` |
| Bundles | `bundle/*`, `cmd_bundle.rs` | sections of the file, channels | create, open, extract | `Bundle` |
| Mount | `mount/fuse/*`, `utils/collections/lru.rs`, `cmd_mount.rs` | inode table, LRU caches, mountpoint | lookup, load, readdir, read | `Mount` |
| Path filters | `fs/filter.rs` | tries, automata | build, ask | `Filters` |
| Command frame | `commands/mod.rs`, `common/hooks.rs`, `config.rs` | options, lock, hooks, exit code | the stages of a command | `Command` |
| Terminal UI | `ui/tui/*` | stack of screens, lists, marks, tasks | keys, drawings, answers | `Dashboard`, `TaskScreens`, `Browsers` |
| Nodes' attributes, output, read-only commands, the cache command, utilities | see `PROJECT.json` | | | not modelled |

How they interact: a command takes the repository lock (`with_repository_lock`),
loads the index, reads and writes packs through the pack saver, persists the
index, and writes or renames snapshot files. The lock is the only thing that
keeps a collector away from a backup; the order of writes (packs, then index,
then snapshot) is the only thing that keeps a crash from leaving a broken
snapshot; and a backup trusts the index it loaded when it decides that a blob
need not be stored again.

The behaviours that make this hard:

- two processes write, list and judge lock files in any order, read copies that
  grow old while they decide, and guess from a host name and a process ID
  whether somebody is alive;
- a signal handler releases the lock while the command goes on;
- a collector deletes packs and index files one by one, and may be interrupted
  or killed between any two of them;
- index files are read in the order of their (random) names, so that which of
  two entries for a blob wins is a matter of luck;
- the pack saver answers Ok to a caller long before the blob is stored, and a
  failure in a worker has to reach whoever flushes;
- bounded channels and a fixed pool of packers between threads, any of which may
  end early; the archiver's five stages wait for each other in a circle of such
  channels;
- a restore writes parts of many files in the order in which packs are read,
  closes and reopens them, and may be run again on what a killed run has left;
- storage answers late, twice or not at all, and a retry repeats what may have
  been done already;
- tasks beside the terminal UI answer at any time between two of its drawings,
  and its screens hold row numbers of lists that change under them.

What it means for mapache to be correct, in the order of importance:

1. a listed snapshot can be restored, whatever commands ran and wherever they
   stopped;
2. nobody works beside the holder of an exclusive lock;
3. what was reported as saved is stored and indexed when a flush succeeds;
4. a lock file left behind goes away, and that of a live process does not;
5. a backup has all of what was backed up, a restore gives it back, and so do a
   mount, a bundle and a mirror;
6. what a command, a screen or an exit code says is what happened;
7. a flush and a backup end; a collection collects.

## 2. Modules

**`RwLock`** is the abstract reader-writer lock: a set of holders, of which an
exclusive one is alone.

**`RepoLock`** is the protocol of `repository/lock.rs` that implements it. A
session is one attempt at a lock and, if it succeeds, one command. It writes its
lock file (`Begin`), lists the directory (`List`), reads the files one at a time
(`Read`), and judges each copy it has read (`JudgeStale` deletes the file,
`JudgeConflict` gives up, `JudgeCompatible` goes on) until `Acquire`. Time is
discrete. The model keeps *ages*, not clock readings: the age of the timestamp
in each lock file, of each copy, and of a refresh under way; `Tick` makes all
of them older. `Expire` stands for `LOCK_EXPIRE_TIMEOUT` (ten minutes),
`HolderMax` for the oldest a lock file gets while its holder refreshes it, and
`AcquireMax` for the longest an attempt takes. `RefreshStart`/`RefreshWrite`
are the two halves of the refresh task; `Unlock`, `DeleteLock` and
`TriggerUnlock` are the ways a handle is released. Collectors and the unlock
command are sessions that only sweep. Faults: a deletion, listing or refresh
fails (`storage`), a lock file cannot be read (`read`), a process stands still
(`stall`), a signal arrives (`signal`); processes may crash at any time.

**`RepoBase`** holds the files of a repository and a session's view of them: the
master index as a record of the files it came from, all entries, what `get`
answers, and the pending index. A snapshot is the set of blobs it reaches. IDs
are numbers since the code orders packs and indices by them, and any fresh one
may be drawn. Pack sizes are abstracted: a pack is written with any part of
what is to be packed, and an index may be saved whenever it is not empty, so
every choice of size limits is covered.

**`BackupCmd`** (snapshot and copy), **`CleanCmd`**, **`ForgetCmd`** (forget and
recall) and **`RewriteCmd`** (amend, rechunk and rebuild-index) hold the steps
of the commands, with a step per file they write or delete; **`Repo`** puts them
together, adds crashes, and states the properties. The lock in `Repo` is
`RwLock`'s, which is justified by `RepoLock`. Faults are: `crash`, `interrupt`
(a signal: the flag is set and the lock released at once, as `CleanupHandler`
does), `storage` (a deletion fails), `window` (a clean or a rechunk stops after
it has changed the repository and before its index is on disk), and `sweep` (a
clean stops, or fails to delete, among the old index files).

**`PackSaver`** is `PackSaver::new`, its main thread, its workers, and the part
of the repository that callers and workers share: `encode_and_save_blob` in its
steps (the pending test, the clone of the sender, the send, the mark), the
request channel, two active packers, the pool of empty ones, the job channel,
the workers' upload, `add_pack`, automatic index saves, and
`flush_and_finalize_pack_saver`. Anything that can fail may fail.

**`Archiver`** is `Archiver::snapshot`: the producer of differences, the
coordinator, the chunker threads, the forwarder and the serializer, each with
its position in the code, and the channels between them. The coordinator is one
task that has several items under way; it gives way only where it awaits room,
and room is handed out in the order of waiting, as the channel's semaphore
does. Its sends to the threads block all of it. `signal_fatal`, the interrupt
and both ways of ending are there. A file that cannot be opened, read or saved
goes on without contents (`blobs: None`) and with a warning, and so does a
directory that cannot be listed; one source may lie in another. **`TreeSerializer`** builds directories bottom
up; **`NodeStreams`** are the walks of `fs/tree.rs` and their difference, as the
sequences they yield, with the path functions of `fs/mod.rs`.

**`Restorer`** is `mapache restore`: the walk collects files into chunks
(`Collect`), a plan decides block by block what has to be written, blobs are put
into segments (`SegmentBlobs`, from `loader.rs`) that are read concurrently and
written in batches through a cache of open files, then hard links, metadata and
deletions. **`LocalDisk`** is the file system underneath, with inodes, times and
directories that cannot be entered. A killed run leaves its disk to the next.

**`FileStore`** is one write, rename or removal by each backend as the requests
it makes; a request may fail, its answer may be lost, the process may be killed
and the machine lose what was not synced. **`Listing`** is a listing, directory
by directory or page by page, while files come and go. **`Connections`** is the
SFTP backend's pool, with `known_hosts`, the password prompt and replacement of
dead connections. **`Limiter`** is the compare-and-swap loop of `consume`.
**`Cache`** is one file of the caching backend with concurrent tasks and their
`Notify`; two flags record what the code does not prevent: that a read or a
write met a removal (`raced`), and that `rename` passed over an error with the
copy (`kept`).

**`Keys`** holds key files and manifest under overlapping, killed `key` and `init`
commands. **`PackFormat`** is a pack as a sequence of cells, with offsets of a small
width. **`MasterIndex`** is the index in memory with its Bloom filters, autosaves,
merges and files, and one lookup that takes its two looks at different times.
**`Chunker`** is the cut loop with a narrow hash, and the stream that feeds it.

**`Sync`**, **`Retention`**, **`Verify`**, **`Filters`**, **`Bundle`** and
**`Mount`** are the commands and algorithms of these names. **`Command`** is the
frame of the five commands with hooks: configuration, credentials, lock, hooks,
the order of the steps, exit code. In it a step succeeds or fails; what it does
is in the module of the command.

**`Dashboard`** is the stack of screens with the list of snapshots and the forget
screen, beside another session; **`TaskScreens`** are the screens that start a task,
with both of its channels; **`Browsers`** are the diff screen and the explorer.

`MCRepoLock`, `MCRepo` and `MCTasks` give constants their values.
**`MCComponents`** and **`MCProgress`** put the components that share no state
into one specification: the variable `focus`, chosen at the start, says which of
them runs, and the others rest in a first state. The behaviours are then those
of each component by itself, and one run checks all of them. Components that do
interact are composed for real: the commands in `Repo`, the workers, callers and
index in `PackSaver`, the stages in `Archiver`, the disk in `Restorer`.

Definitions called "Mutant of ..." are not part of the models. Each is a
plausible mistake in the code, and breaks a property when it replaces the
definition it is a mutant of; so does each clause of the conjunctions below
under a mistake of its own kind. `PROJECT.json` lists the mutants, and maps
every definition to the lines it models.

## 3. Runs

| Run | Properties | Instance | Result |
|---|---|---|---|
| `lock_exclusion` | `TypeOK`, `MutualExclusion`, `ImplementsRwLock` | two exclusive sessions on one host, a shared one on another; storage faults, crashes | holds, 659k states |
| `lock_sweep` | `LiveLockKept`, `AbandonedLockRemoved` | an exclusive session that drops a handle clone early, an unlock command, a collector; storage, read and signal faults | holds, 48k states |
| `repo_alone` | `TypeOK`, `SnapshotsRestorable`, `DroppedRecallable`, `CleanCollects` | one session: snapshot, amend, forget, forget --clean, recall; crashes | holds, 1,236k states |
| `repo_pair` | `SnapshotsRestorable`, `IndexSound`, `DedupSound` | two sessions: snapshot beside snapshot, clean, forget; crashes, failing deletions | holds, 779k states |
| `repo_cut` | `NothingBroken` | copy, rechunk, rebuild-index, clean over up to three index files; crashes, interrupts, failing deletions, in every window but the sweep, any number of times | holds, 1,347k states |
| `clean_interrupted` | `SnapshotsRestorable` | snapshot, forget, clean, interrupts | violated |
| `rebuild_race` | `SnapshotsRestorable` | rebuild-index beside snapshot, no faults | violated |
| `forget_clean_race` | `SnapshotsRestorable` | forget --clean beside snapshot, no faults | violated |
| `rechunk_interrupted` | `SnapshotsRestorable` | rechunk, interrupts | violated |
| `clean_overlooked` | `IndexSound` | snapshot beside snapshot, then clean; crashes | violated |
| `components` | `TypeOK`, `FlushedComplete`, `IndexedStored`, `SendersNeverWait` of the pack saver; one property per other component, below | the pack saver with two callers, a tree and a data blob, one worker and all failures; the others over all their jobs, with their faults | holds, 441k states |
| `progress` | `SnapshotComplete`, `PipelineSound`, `BackupEnds`, `TasksEnd` | backups of ten worlds, the pack saver with one caller, three blobs and two workers, bundles, the cache, the screens with a task; fair scheduling | holds, 330k states |

The other properties of `components` are conjunctions. Each clause is a definition of
its own, with a comment on the code it is about.

| Property | Clauses | It says |
|---|---|---|
| `TransfersSafe` | `DstWhole`, `OkMeansDone`, `NothingLost`, `StaysReadable`, `UploadsClosed` | a file is whole, old or new, at any time and after a crash; a rename never loses it; success means done, but for a removal over SFTP that could not ask for the file; a failed upload is aborted |
| `ListedThroughout` | | a listing has every file that was there throughout, and none that never was |
| `PoolSound` | `TrustedServers`, `PromptedOnce`, `FewWrongPasswords`, `NoneLeaked`, `DryWritesNothing` | every SFTP connection, replaced ones too, is to a server that was trusted; two users that find one dead make one new one |
| `RateKept` | `GrantsDisjoint`, `RateBound` | racing payments get disjoint stretches of time, and the limit is kept |
| `CacheCoherent` | `FetchedOnce`, `RemovedFromCache` | concurrent readers share a download; remove waits for it, and no copy outlives its file unless a read or write met the removal in the window the code leaves open |
| `KeysUsable` | `KeysAgree`, `OpenWorks`, `UserKeepsKey` | overlapping, killed key commands leave every user a key that opens the repository |
| `PacksReadable` | `FooterFaithful`, `IndexAgrees`, `DamageNoticed`, `StatsExact` | what is read from a pack, up to the largest offset, is what was packed |
| `IndexTrue` | `BlobsFound`, `LocationsTrue`, `FilesComplete`, `LookupSteady` | lookups find what is there and nothing else, also while it moves from pending to indexed |
| `ChunksRight` | `ChunkSizes`, `ChunksRebuild`, `CutsStable` | chunks are the file, and cuts depend on its bytes alone: they are compared with a byte-by-byte reference |
| `FiltersRight` | `FilterExact`, `ParentsAllowed`, `GlobExact` | tries, automaton and greedy matcher agree with a direct reading of the patterns |
| `RulesKept` | `PeriodsKept`, `EnoughKept` | the rules keep the last snapshot of each of the last n periods, but for the edges below, and `--keep-min` holds |
| `MirrorSound` | `SyncMirrors`, `ManifestLast`, `SnapshotsGoFirst` | a sync that succeeds mirrors the source; one that stops anywhere leaves no manifest over a partial mirror, if the destination had no manifest before; with `--delete` snapshots are deleted before what they need |
| `VerdictRight` | `VerifySound`, `NoFalseAlarm`, `StreamAgrees`, `ImpactNamed` | verify passes exactly on sound repositories, however chunks cut the blobs |
| `CommandHonest` | `LockReturned`, `HooksBracket`, `ExitTruthful`, `DestroysLast`, `TriesBounded`, `ConfigFills` | lock, hooks and exit code are right whatever step fails |
| `RestoreFaithful` | `Restored`, `RestoredAfterKill`, `HardlinksRestored`, `MetadataRestored`, `DeletedExactly` | a restore that reports no error, also one after killed ones, gives contents, links and metadata back |
| `BundleFaithful` | `BundleWhole`, `OpensWhole`, `ExtractFaithful` | a completed bundle is whole, and extracting it gives back what was bundled, also with `/` or overlapping paths as input as far as the walk has them |
| `MountFaithful` | `DirsFaithful`, `ListingWhole`, `ReadExact`, `CachesSound`, `SnapLinks`, `MountTidy` | listings and reads are those of the snapshots, whatever was loaded or evicted before |
| `InodesStable` | (an action property) | an inode the kernel knows keeps its meaning |
| `ScreensTrue` | `DashboardTrue`, `TasksTold`, `BrowsersTrue`, with clauses of their own | no screen shows, counts or acts on anything but what it says: marks, rows and contents belong together while lists change |

In `progress`, `SnapshotComplete` says that a snapshot that succeeds has every
allowed file and directory of the sources with its present contents, or a
warning, now or when the parent was made; `PipelineSound` that channels keep
their capacities and that no internal check fails for an order of delivery;
`BackupEnds` that a backup without a fatal error ends; `TasksEnd` that the flush
of the pack saver returns, bundles are made and extracted, readers of the cache
go on, and screens come to their summary.

**Bounds.** Three sessions are enough for the lock: a conflict is between two,
and a third can delete a file or make one of them give up. The time bounds keep
`HolderMax + AcquireMax <= Expire`, with room for a refresh to be missed. Two
blobs, a tree and a file, tell apart what commands treat differently; two or
three packs and two index files are the least with which a blob can have two
entries, a pack can be mixed, and a new index can sort before or after an old
one; `repo_cut` has three index files, so that what a cut leaves behind can be
shadowed and come to light again, and treats snapshot IDs as symmetric, since
nothing compares them. `repo_pair` has two: with three it is out of reach. Two snapshots let one be dropped while another needs the same blobs. When
the IDs of an instance run out a command cannot write; that is no behaviour of
the code, and the reason why the runs of `MCRepo` do not check for deadlock. Two
callers are the least that can race for one blob, and `components` has them with
one worker; `progress` has two workers, the least that can race for a job and
for the index, and one caller. What the pack saver promises is proved for any
number of both. In `components` each job is small and picked for a case: all
files of up to eight bytes of two kinds (longer than the largest chunk); three
snapshots at times around a new year and around a change of the clock, with
fractions of a second; packs whose last blob begins
just below the largest offset; blobs that end with a chunk, span three or fill a
batch; one open handle, so that every file is closed and reopened; one cached
tree and three cached bytes, so that the caches evict; key commands of two
processes in pairs. In `progress` channels have one or two places and there are
two slots, so that every stage finds its channel full and empty. What may go
wrong in a component is in its jobs (`faults`); each fault happens at any point,
most of them once. `progress` does not check for deadlock since its components
stop when they are done; that they stop only then is what its properties say.
The bounds of the model, as against constants of the code, are `MaxClock`,
`MaxDeaths`, `MaxChanges`, `MaxRounds`, `MaxReadErrors`, `MaxStamp`, `MaxSnaps`,
`MaxOthers`, `MaxKeep`, `MaxItems`, `MaxSearches`, `MaxMoves` and `MaxUnsaved`:
they cap how often something may happen.

**Fairness.** In `RepoLock`, time passes, a process that can take a step takes
it in the end, and commands keep being started: `AbandonedLockRemoved` is a
statement about a repository in use, to which somebody runs `unlock` now and
then. The unlock command's listing, reading and deleting do not fail for ever
(strong fairness); and the statement is about runs in which processes stop
crashing at some time, since each crash may leave a new lock file. In
`progress` every task and thread keeps running (weak fairness for each, `Fair1`
to `Fair6`: only one component runs, so one condition stands for a task of each
of them), which is what the operating system's scheduler and the async runtime
provide; no caller needs to make another call, no key needs to be pressed, and
no failure needs to happen or not to. A drawing of the terminal UI comes again
after each one, as the loop of `App::run` has it.

### What the violated runs show

- **`clean_interrupted`.** `gc.rs` deletes unused packs and only then asks
  whether it was interrupted. The index files still name the deleted packs. The
  next snapshot loads them, takes the blobs for stored, and writes a snapshot
  that cannot be restored. The manual calls the collector safe to interrupt.
- **`rebuild_race`.** `rebuild-index` lists packs, then index files, under a
  non-exclusive lock, and deletes those index files in the end. A snapshot
  command that finishes between the two listings loses its index.
- **`forget_clean_race`.** The cleanup handler of the first phase of
  `forget --clean` is dropped at its end; this releases the lock that the second
  phase is supposed to reuse, and the collection runs without one.
- **`rechunk_interrupted`.** `rechunk` saves new snapshots and deletes the old
  ones before its only flush, and returns without it when interrupted.
- **`clean_overlooked`.** Two backups beside each other may store the same blob in
  two packs, with garbage in one of them. A clean that calls this pack obsolete
  has nothing to repack from it, as it needs none of its copies; `repack` then
  returns before it takes the pack's entries out of the index (`gc.rs:316`). The
  clean writes an index that still names the garbage, and deletes the pack. The
  manual says that clean "Removes orphaned index entries". A later backup of the
  same data would take it for stored. This run came of the attempt to prove
  `IndexSound`, at the one step of clean that did not keep the invariant.

### Behaviours outside the passing runs

The passing runs leave out some circumstances under which their properties do
not hold. Those of the lock and of `Repo` can be reproduced by changing
constants in a configuration.

- *The lock under signals.* With `signal` in `Faults` of `lock_exclusion`,
  `MutualExclusion` fails: the signal handler deletes the lock file while the
  command works on to its next checkpoint. The same goes for a command in
  `EarlyDrop`, which is what `forget --clean` does.
- *Unreadable lock files.* With `read`, `MutualExclusion` fails: a lock file
  that cannot be read is skipped, and conflicts with nobody.
- *A refresh under way.* The refresh task tests the alive flag and writes
  later; the file may come back after a normal release. It is then a lock file
  left behind, which `AbandonedLockRemoved` covers, but until it expires it
  blocks exclusive commands of other hosts.
- *Stalls.* With `stall`, `LiveLockKept` fails: a process that stands still for
  longer than the expiry time loses its lock and does not notice.
- *A collector that dies among the old index files.* With `sweep` in `Faults` of
  `repo_alone`, `SnapshotsRestorable` fails: the old files are deleted one by
  one, and an old file whose name sorts after the new one's overrides its
  entries with packs that are gone or go next. A failing deletion, which only
  causes a warning, has the same effect.
- *copy beside clean.* `copy` takes no lock. With `copy` for one session and
  `clean` for another, `SnapshotsRestorable` fails without any fault.
- *Late interrupts.* An interrupt that arrives after the archiver has returned
  is not looked at again: the snapshot is saved, though the lock is gone.
- *Dropped snapshots and failing deletions.* With `storage` in `Faults` of
  `repo_alone`, `DroppedRecallable` fails: a dropped snapshot that could not be
  removed outlives its packs, and `recall` brings it back.
- *What a clean leaves behind when it is cut short.* `NothingBroken` leaves out
  snapshots for which an index file gives a blob a pack that an earlier clean
  has deleted (`Misled`). Two things can befall them. A command that deletes
  index files may delete the one that hid the stale entry. And a later clean
  that finds the pack with the blob obsolete takes its entries out of the index,
  finds the stale entry in their place, takes the blob for stored elsewhere and
  does not repack it (`repo.rs`, `encode_and_save_blob`), and deletes the pack.

Further behaviours met while translating, which a property names as its
exception or which no property is about:

- *The archiver after a fatal error.* The loop in `archiver/mod.rs:499` stops
  receiving while coordinator and forwarder may wait for room in its channel,
  and then joins them. An interrupt with full channels can therefore hang,
  though the manual says a snapshot may be interrupted. `ArchiveEnded` leaves
  failed backups out.
- *Metadata of directories above the sources.* With crowded channels such a
  directory's own item may come after its tree was saved; `SnapshotComplete`
  leaves that metadata out. `is_modified_hint` compares no blobs, so a file that
  changed with the same size and times keeps its old contents in the snapshot.
- *Bundles with many directories.* `cmd_bundle.rs:771` sends directories to a
  channel of 4096 that is read only after the walk; with more, extraction
  waits for ever. `ExtractEnded` is about those that fit.
- *Overlapping and whole-disk bundles.* When one input lies in another, the
  serializer leaves entries out; `ExtractFaithful` asks then only that nothing
  is wrong. `/` as the only input is walked under an empty path
  (`cmd_bundle.rs:227`), and the bundle is given up.
- *Overlapping sources of a snapshot.* Only equal sources are dropped. With one
  in another, entries may be missing or there twice, as `finalize_and_save`
  counts them; `SnapshotComplete` asks then only that none is wrong.
- *Files without contents.* A file that could not be read or saved is in the
  snapshot without blobs. If it has not changed by the next backup, it is taken
  from the parent and not read again, and nobody is warned a second time. A
  restore makes it a file of zeros, or leaves what is there (`NeverRead`).
- *Races of the cache.* A read that starts after `remove` has looked for downloads,
  a read beside a `rename`, and a write beside either may leave a copy of a file
  that is gone. `RemovedFromCache` names these (`raced`).
- *A lost wake-up in the cache.* A reader releases the queue before it listens
  (`cache.rs:96`) and may miss the end of the download; `WaitersDone` leaves it
  out.
- *Repeated SFTP renames.* If the answer to a rename is lost, the retry removes
  the destination and finds no source; `NothingLost` says so.
- *SFTP removals.* `remove` asks whether the file is there, takes any failure of
  the question for "no", and reports success; `OkMeansDone` says so.
- *`--keep-daily all` and the like.* "all" is the largest number, which as a
  signed one puts the cutoff into the future (`retention.rs:79`): the rule keeps
  nothing. The week around a new year counts twice (`retention.rs:155`), so
  `PeriodsKept` is weaker for weeks. The cutoff of hours keeps the present time's
  fraction of a second, so that a snapshot in the first second of the oldest
  hour may be lost; and days and hours are counted back by the time that has
  passed, which a change of the clock puts off by an hour. The statement leaves
  these out (`AtEdge`, `SteadyClock`).
- *Restoring with `skip`.* The plan compares existing files block by block and
  writes what differs (`planner.rs:50`), although the option's help speaks of
  skipping them.
- *Restoring over what is there.* Whether a file is to be restored is asked
  through links and of directories alike; the links of the instances lead
  nowhere. When a write fails the error is noted, but the file has its size
  already and the metadata pass gives it the snapshot's time: the next run takes
  it for restored (`planner.rs:59`) unless `--verify` is given.
  `RestoredAfterKill` is about runs that were killed, not about failed writes.
  `--delete` looks at the paths of the snapshot before
  `--strip-prefix` changes them; `DeletedExactly` is about runs without it.
- *Configuration over command line.* `merge_opt` prefers the value of the file
  (`commands/mod.rs:131`); the manual (line 320) says the opposite. `ConfigFills`
  is about options given in one place.
- *Exit codes and hooks.* An interrupt among the snapshots makes `verify` report
  success (`cmd_verify.rs:765`); `clean` exits with 10 for every error
  (`cmd_clean.rs:115`); the post-hook does not run when the command fails before
  its work begins, although the manual says "regardless of success or failure".
- *Keys.* A killed `init` that is run again leaves a key that opens nothing;
  `key delete` removes the last key without a question.
- *sync.* Whether the destination's manifest could be read is not looked at
  (`cmd_sync.rs:521`).
- *Index.* A prefix is "ambiguous" when one blob is in two indices
  (`index.rs:869`); padding descriptors are counted as blobs.
- *Filters.* Inclusion patterns of more components than the automaton has bits
  never match.
- *Terminal UI.* "Apply" with no retention rule marks every snapshot; `q` and
  `0` act as commands while a form is typed in; a failed reload after a recall
  is not repeated; the diff screen takes no key any more when the index cannot
  be reloaded; a task that dies without an answer leaves its screen waiting;
  and the forget screen works under a shared lock where the command takes the
  exclusive one.

## 4. Proofs

Eight modules hold theorems. Each theorem of the form `Spec => []P` rests on an
inductive invariant, given in the module before its lemmas, that TLC checked on
the runs' instances before it was proved. There is one lemma per action, and
where an action is large one per part of the invariant. The constants' named
assumptions are evaluated by TLC on the passing runs.

`AccessProofs`, the keys (for any number of processes, users, passwords and keys,
and any number of kills):

- `KeysStayUsable` (`[]KeysUsable`). `KeysInv` adds to the types that no identifier
  is given twice and a key file never changes (`IdsInv`); that all master keys in
  hand, in files and in the manifest are one, unless two inits wrote a key
  (`MasterInv`); that a key which is there throughout a search is still to be
  tried (`SearchInv`); and that whoever is about to drop an old key has left the
  user a newer one (`NewerInv`), which is why two changes at once do not delete
  each other's.

`AccessProofs`, the lock (for any sessions, hosts and times that satisfy
`TimingAssumption`, i.e. `HolderMax + AcquireMax <= Expire`):

- `TypeCorrect`: `Spec => []TypeOK`, which besides types says how the flags of a
  handle, its refresh and what was read fit the phase of the session (`HandleOK`).
- `LockKept`: `Spec => []LiveLockKept`, if no process stalls (`Punctual`); all
  other faults may happen. `LiveLockKept` is not inductive: what a reader does
  next depends on the copy it has. `KeptInv` adds that a file somebody counts on
  is at most `HolderMax` old (`FilesKept`), an attempt at most `AcquireMax`
  (`AttemptsQuick`), a refresh under way not older than the file
  (`RefreshInv`), and a copy at most `HolderMax` plus the time its reader has
  taken (`CopiesFresh`). Hence a copy of a live lock is never judged expired, and
  its process is never judged dead.
- `Exclusion`: `Spec => []MutualExclusion`, if lock files can be read, processes
  do not stall, and nobody gives up a lock early (`Benign`). The invariant
  `ExclusionInv` adds `SeenInv`: of two conflicting sessions that have both
  listed, at least one holds, unjudged, a listing or a copy of the other's file.
  This is the argument for writing the lock file before listing; that the file
  is still there when the other lists is `LockKept`.
- `LockFilesImplementRwLock`: under `Benign` the protocol implements
  `RwLock!Spec`, with the sessions at work as its holders.

`PackSaverProofs` (for any finite nonempty set of workers, any callers and
blobs, and any failures):

- `SaverTypeCorrect`, `IndexFollowsUpload` (`[]IndexedStored`) and
  `FlushIsComplete` (`[]FlushedComplete`). The inductive invariant `IInv` says
  that unless an error is recorded, every blob a caller was told Ok for, and
  every pending one, is in the request channel, an active packer, a job, the
  hands of a worker, or an index (`Carried`); that a worker indexes only what it
  has uploaded (`Uploaded`); that the main thread reaches its end only with
  everything handed on (`Drained`); that without an error workers leave only
  when no job is left (`Deserted`); and what the flush has seen when it succeeds
  (`Flushed`).

- `ChannelsHaveRoom` (`[]SendersNeverWait`). `PackersKept` counts the packers: the
  pool, the jobs and the workers that hold one never exceed `NumPackers`,
  and neither channel has room for less.

`RepoSteps`, `RepoWriters`, `RepoCleaners` and `RepoProofs` (for any sessions,
blobs, snapshots, packs and index files; `RepoAssumption` asks of the numbers
that stand for IDs only that every nonempty set of them has a greatest member,
since files are finitely many). `RepoSteps` has the types, the invariant, and
the lemmas about the master index; `RepoWriters` the steps of snapshot, copy,
amend and rechunk; `RepoCleaners` those of clean; `RepoProofs` the remaining
commands, crashes, and the theorems:

- `TypeCorrect`: `Spec => []TypeOK`, for all commands and all faults.
- `SnapshotsStayRestorable`, `IndicesStaySound`, `DedupStaysSound`,
  `DroppedStayRecallable` and `CleanAlwaysCollects`: the five properties of
  `repo_alone` and `repo_pair`. They need two hypotheses, and each part of them
  leaves out what a violated run or section 3 shows to break the repository:
  - `Careful`: crashes outside the exposed steps, and failing deletions, are all
    the faults (no `interrupt`, `window` or `sweep`); `copy`, `forget --clean` and
    `rebuild-index`, which have no exclusive lock while they rely on one, are run
    only if there is a single session; `recall` is run only if deletions do not
    fail. snapshot, clean, forget, amend and rechunk are unrestricted.
    `DroppedStayRecallable` also asks that deletions do not fail.
  - `[]NothingOverlooked`: no clean of the behaviour is in the state that
    `clean_overlooked` reaches, where `repack` returns early although the index
    names garbage in obsolete packs.

  `RepoInv` is the invariant. `LockInv` and `AloneInv` turn locks into the fact
  that only backups run beside each other. `IndexInv` (all entries of index
  files can be followed, unless a clean is deleting), `SnapInv` and `DropInv`
  (every blob of a snapshot is in an index file) are what the properties follow
  from. The rest says what each command knows in the middle of its work:
  `WriteInv`, `BackupInv` and `RewriteInv` that a writer's index in memory is
  true, also when others have written since it was loaded, and that every blob
  of the snapshot to come is in it or still to be packed; `RechunkInv` that until
  the flush rechunk alone knows where some blobs are; `RebuildInv` that an index
  file goes only when its blobs are in another; `PlanInv`, `DroppedGone`,
  `RepackInv` and `CollectInv` follow a clean from its plan to the deletion of
  obsolete packs: old index files that still name deleted packs are all to be
  swept, every referenced blob is found through a file that is not
  (`Found`), and each pack left holds a referenced blob.

`SharingProofs` (what the tasks of one process share):

- `CacheStaysCoherent` (`[]CacheCoherent`), for any number of tasks and any faults.
  `CacheInv`: one task at most downloads, and the queue says so (`FetchInv`); what
  was downloaded is stored or about to be (`OnceInv`); as long as no removal met
  a read or a write in the window the code leaves open (`raced`), copies are made
  only of files that exist, and, unless rename passed over an error with the
  copy (`kept`), whoever is about to remove the file has removed the copy
  (`RemoveInv`).
- `PoolStaysSound` (`[]PoolSound`), for any number of connections, users, tries and
  breaks. `PoolInv`: the first connection is made alone and the users come last
  (`PlacesInv`); whoever is past the check of the host's key has one that
  `known_hosts` had or the user accepted (`TrustInv`); once the user was asked the
  host is known before anyone else connects (`PromptInv`); every living
  connection has its place, and a slot that is being replaced is locked by one
  user and holds a dead one (`AliveInv`).

`TransferProofs`:

- `TransfersStaySafe` (`[]TransfersSafe`), for any size, number of attempts, loss of
  requests and answers, and crash. `TransferInv`: no two names lead to one file,
  and the file under its final name is whole, old or new (`FilesInv`); and for
  each kind of operation what its requests so far have left (`TempInv`,
  `RenameInv`, `RemoveInv`, `PutInv`, `UploadInv`): e.g. the parts that arrived are
  the beginning of the contents, whichever answer was lost.
- `GrantsStayDisjoint` (`[]GrantsDisjoint`, the first clause of `RateKept`), for any
  number of transfers, any limit and any sizes: every grant ends before
  `next_free_ns` (`GrantsBehind`), so a swap that succeeds grants time that no
  one has.

Only model-checked:

- liveness (`AbandonedLockRemoved`, `BackupEnds`, `TasksEnd`), which is out of the
  prover's reach;
- what recursive operators over sequences and trees compute, which needs an
  induction over data: `SnapshotComplete`, `PipelineSound`, `RestoreFaithful`,
  `BundleFaithful`, `MountFaithful`, `InodesStable`, `MirrorSound`, `VerdictRight`,
  `FiltersRight`, `ListedThroughout`;
- `RateBound`, a sum over the set of grants;
- `NothingBroken`, for which `RepoInv` is too strong: it is about behaviours in
  which a clean was cut short;
- `PacksReadable`, `IndexTrue`, `ChunksRight`, `RulesKept`, `CommandHonest` and
  `ScreensTrue`, of which there is no proof yet.

## 5. What could come next

1. Proofs of `IndexTrue`, whose state is flat, and of `NothingBroken`, with an
   invariant that allows for entries of packs that are gone.
2. `sync` and `verify` as sessions of `Repo`, beside the commands that write.

## 6. Not modelled

Encryption, hashing and compression (content is its ID); the binary encodings of
index, snapshot and bundle files; ownership, extended attributes and flags of
files; reads at an offset of a backend and the load of blobs by their IDs, which
change no state; the drawing of screens, progress bars, terminal and JSON
output; the parsing of arguments and of pattern files; the `cache` command and
the commands that only read. `unlock --force` and `--no-lock` give up the
guarantees on purpose. The source repository of `copy` is taken to be readable.
`PROJECT.json` lists every part with its status and reason.
