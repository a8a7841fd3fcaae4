# A TLA+ verification of irmin

irmin downloads, installs, updates and repairs games that are distributed as
*manifests*: lists of files, each a sequence of compressed chunks that several
files may share.  The crate's control lives in a few places where asynchronous
workers, blocking threads and a user interface meet over shared counters, and
where a session that was killed leaves a directory for the next one to make
sense of.  This directory models those places in TLA+, checks the models with
TLC and proves the main theorems about them with TLAPS.

Paths below are relative to `src/src/`; `gi/` stands for `game_installer/`.

## 1. The system

| Part | State it keeps | Operations | Interacts with |
|---|---|---|---|
| **Download handle** `gi/handle.rs` | an `AtomicU8` (RUNNING, PAUSED, CANCELLED), a `CancellationToken`, a `Notify` | `pause`, `resume`, `cancel`, `wait_if_paused`, `cancelled_future` | the user interface calls it; every worker waits on it; progress callbacks may re-enter it |
| **Chunk registration** `gi/installer.rs` `build_download_state` | vectors of items, entries, pending counts and reference counts that index one another | one pass over the manifest | its vectors are shared by workers and assembly |
| **Install pipeline** `gi/installer.rs`, `gi/assembly.rs` | queue, pending counts, chunk reference counts, completion flags, `assembled_files`, the assembly channel and JoinSet | download workers, `notify_*`, assembly coordinator, assembly tasks, `finalize_install` | handle, registration, disk |
| **Resume scan, bitmap, output files** `gi/installer.rs`, `gi/chunk_bitmap.rs`, `gi/output_allocator.rs`, `gi/eager_decompress.rs` | targets, chunks directory, bitmap file; the bitmap and `downloaded_chunks` in memory | scan, eager write, set bit, sync, clear range, preallocate | survives crashes; read by the next session |
| **Sophon session** `sophon.rs`, `types.rs` | the state file, the game's tag | `download`, `update`, `preinstall`, `apply_preinstall`, `verify_integrity`, `resolve_resume` | starts and ends everything below it |
| **Chunk download** `gi/download.rs`, retries in `gi/installer.rs` | partial chunk files, counters of attempts | ranges, streaming, verification, retries with delay | workers, handle |
| **File assembly** `gi/assembly.rs`, `gi/assembly_opt.rs` | temporary file, flags between writing and hashing threads, the guard over chunk claims | write chunks, hash, rename or copy, release | pipeline, repair, preinstall |
| **Verification cache** `gi/cache.rs` | entries (size, mtime, digest) | look up, insert, load, save | assembly, repair, resume scan |
| **Adaptive controllers** `gi/adaptive_*.rs` | targets, speed samples | raise, lower, clamp | workers, coordinator, preinstall pool |
| **Update planning** `gi/update.rs`, `gi/installer.rs` | none (pure, over manifests and sizes on disk) | differing files, old offsets, deleted files, estimate | update and preinstall |
| **Preinstall** `gi/preinstall.rs` | patch chunks, package state and marker | download patches; apply them asset by asset with a fallback | tag, HDiffPatch, assembly |
| **Check and repair** `gi/installer.rs` | none between calls | verify every file, repair those that differ | cache, download, assembly |
| **Plugins** `gi/plugin_install.rs`, `gi/plugin_api.rs` | version record, unpacked files | download, unpack, validate, record | disk |
| **HDiffPatch** `gi/hdiffpatch/` | pooled buffers | parse, decompress, apply covers | preinstall |
| Game filters, API and scraping, manifest decoding, compact manifest, system I/O, profiling, progress | | string rules, HTTP, protobuf, memory layout, counters | |

What is hard about it, and the properties that make each part correct:

* **Handle** (interleaving, liveness).  A wake-up sent between the moment a
  worker reads PAUSED and the moment it awaits must not be lost; a `resume`
  racing a `cancel` must not bring the operation back to life; `cancel` must
  reach those who wait on the `Notify` and those who wait on the token.
* **Registration** (ordering, off-by-one).  A chunk's second file is seen after
  the first was classified as eager; a file that downloads nothing gives its
  counter back; offsets of the flattened vector must match its entries.
* **Pipeline** (interleaving, partial failure, deadlock).  The last reader of a
  chunk, and only the last, deletes it; counters stay exact when tasks fail
  half-way and give their claims back; `Ok` is decided by comparing two
  numbers; cancellation removes the chunks directory while tasks may read it;
  the coordinator waits for locks, senders, messages, tasks and a token, and
  must end in every case.
* **Resume** (crash recovery, stale state).  A preallocated file has its final
  size before it has its content; the bitmap file is truncated before it is
  written; a deleted file must lose its bits; state and bitmap are saved at
  different moments.
* **Session** (ordering, stale state).  A state file left or missing decides
  whether the next session resumes; plans are made from sizes on disk and
  carried out later; the bitmap of one plan may meet another plan.
* **Download** (timeout and retry).  A retry starts from a length measured
  earlier; the server may ignore the range, end early or send too much; a
  damaged leftover must not poison all attempts.
* **Assembly** (interleaving, partial failure).  Writing threads and a hashing
  thread meet over flags; the rename may become a copy that fails half-way; a
  chunk is released once per occurrence.
* **Cache and repair** (staleness, ordering).  Times are whole seconds; entries
  outlive the files they vouch for; jobs share chunks and one of them may fail.
* **Preinstall** (crash recovery).  The game may change between download and
  application; state and marker are written one after the other; an
  application that was killed starts again at the first asset; patches may
  overwrite the source of a later patch.
* **Plugins** (atomicity).  Two tasks rewrite one record; a record outlives the
  files it speaks of.
* **HDiffPatch** (boundaries).  Runs outlast covers and buffers; pooled buffers
  keep their contents.

`PROJECT.json` lists each hazard at its source line with the properties that
cover it.

## 2. The modules

```
 PauseGate  <--implements--  DownloadHandle            (ResumeSession_proofs)
     |  part of
     v
 InstallPipeline  --implements-->  InstallContract     (InstallPipeline_proofs)
     |  extends                                         MCInstallPipeline
     v
 Manifest  <--agrees with--  ChunkRegistration         (ChunkDownload_proofs)
     ^
     +-- instance --  ResumeSession                    (ResumeSession_proofs) MCResumeSession
     +-- instance --  UpdateSession                    (UpdateSession_proofs) MCUpdate
                         |  instance
                         v
                      UpdatePlan

 ChunkDownload                                         (ChunkDownload_proofs)
 FileAssembly                                          (FileAssembly_proofs) MCAssembly
 VerificationCache  <--extends--  Repair               (Repair_proofs) MCRepair
 PluginInstall                                         (FileAssembly_proofs) MCPlugin
 PreinstallPlan <--extends-- PreinstallPackage <--extends-- ApplyPreinstall
                                                       (ApplyPreinstall_proofs) MCPreinstall
 PatchFormat <--extends-- PatchCore, PatchSF <--instance-- HDiff
                                                       (HDiff_proofs) MCHDiff
```

Three proof modules hold the proofs of two components each, under separate
headings: handle and resumed sessions, registration and download, plugins and
assembly.  The names of the handle, the registration and the plugins have a
prefix for that (`HandleSpec`, `RegSpec`, `PluginSpec`).

**PauseGate** is the promise of the handle: three states, and per task a gate
that is asked, passed or refused.  `Pass` needs RUNNING, `Refuse` needs
CANCELLED, and a gate that could be answered from some point on is answered.

**DownloadHandle** has one step per atomic operation of `handle.rs`.  `control[t]`
says which operation of `resume` or `cancel` thread *t* is to do next, `wait[t]` where it is
in `wait_if_paused`: `top` of the loop, future made and state not yet `read`,
inside the `callback` of the progress updater, or on the `await`.  `Listening`
is tokio's rule that `notify_waiters` wakes every `Notified` future that
exists, polled or not.  `pause()`'s loop is one step: its compare-and-exchange
either succeeds from RUNNING or finds a state in which it gives up.

**Manifest** says, as set comprehensions, what registration makes of a
manifest.  A *slot* is one occurrence of a chunk in a file; `Items` are the
distinct names to download; `Uses(c)` the slots that wait for *c*;
`ReadyFiles` need no download; `EagerFiles` share and reuse nothing.

**ChunkRegistration** is the loops of the code over the vectors of the code:
`SkipCompleted`, `BeginFile` and `EndFile` are the loop over files, `SkipOld` and
`RegisterChunk` one turn of the loop over a file's chunks, `Untaint` the end of
both, `FlattenItem` one turn of the flattening and `HandOver` its end.  `RegInit`
ranges over *every* manifest within the bounds; the invariants say that the
vectors describe what `Manifest` defines, which is what entitles
`InstallPipeline` to start from `Manifest`.

**InstallPipeline** is one call of `install()` in `VerifyMode::Full`.

| Code | Model |
|---|---|
| `build_download_state`, the `OnceLock`s; its `?`, which leaves the coordinator behind | `Register`, `SetLocks`; `RegisterFails` |
| worker loop, `process_download_item`, `wait_if_paused` | `Take`, `Pass`, `Refuse`, `Fetch`, `FetchFails`, `FetchCancelled`, `EndItem`, `Quit`, `SpawnWorker` |
| `notify_assembly_ready`, `notify_eager_file_complete`: one `fetch_sub` per entry | `Notify(w, s)` |
| `run_assembly_task`, `assemble_file` | `ClaimSkip`, `Claim`, `ReadChunk`, `AssemblyFails`, `Rename`, `EndTask` |
| `DecrementGuard`, `decrement_chunk_refcount` | `slot[s]` from `held` to `released`: `Release(s)` |
| `spawn_assembly_coordinator`: spin, fill, `try_join_next`, biased select | `EndSpin`; `Fill`, `EndFill`; `TryJoin`, `NothingToJoin`; `SelectCancelled`, `SelectMessage`, `SelectClosed`, `SelectJoin` |
| `drain_join_set` | `Drain`, `EndDrain` |
| `finalize_install` | `DownloadsEnd`, `StopAssembly`, `ReturnCancelled`, `ReturnFirstError`, `ReturnAssembled` |

The order of the manifest is left open, so every order of items and reads is
covered.  `refs` may fall below zero, where the code's counter would wrap.
`current_target()` is any value the adaptive controller can give (`Targets`).

**InstallContract** is what a caller is told: files become new one by one, the
call returns once, `Ok` means all files are installed, `Cancelled` means
somebody cancelled, and nothing changes afterwards except after a first
error, which is returned with assembly still under way.

**ResumeSession** is a series of sessions over one game directory, as many as
there may be.  Disk state (`target`, `written`, `zstd`, `disk_bits`, `saved`)
survives `Crash`; memory is forgotten.  `target[f]` is `missing`, `old`, `laid` (preallocated at the new
size and filled by the eager path), `tail` (the same over a longer old file) or
`new` (renamed into place).  `Start` is `resolve_resume` with the whole scan:
what it accepts (a file without chunks unseen), what it deletes, which bits it
clears and which downloaded chunks it takes over.  An item is then fetched or
eagerly written, recorded, possibly saved (`SpawnSave`, `SyncBits`) and notified,
each a step a crash can follow.  Queue, counters and assembly are those of
`InstallPipeline` and appear as one step here.

The state is saved by the worker that completes an interval (`SpawnSave`) and by
the coordinator for each file it joins (`JoinSaves`), also for one that needed no
download, when the map is still empty.  `save_assembly_state` does not make sure
that one save waits for another (two savers may take `last_save` one after the
other), so `saving` is a set of saves under way: each may read late (`ReadLate`),
write in any order, write after its session has returned, and tear what another
one writes at the same time (`WriteState`).  A state file without chunks, or one
that does not parse, makes the next session one that does not resume.

**ChunkDownload** is one chunk from `check_needs_download` through the retries of
`download_chunk_with_retry_policy` to the attempts of `do_download_chunk`.  The
file has a length and is `right` (a prefix of the chunk, or the chunk with
something behind it) or `wrong`; the hasher has a `digest` of what it saw.

| Code | Model |
|---|---|
| `check_needs_download`, existing size | `Check`, `given`, `known` |
| attempt on an existing file: complete, oversized, a range | `AttemptComplete`, `AttemptNothing`, `RangeRefused`, `RangeHonoured`, `RangeWrongLength`, `Fresh` |
| `stream_and_verify` | `Receive`, `StreamFails`, `StreamCancelled`, `StreamEnds` |
| network and hash counters of the policy | `Again`, `AfterMismatch` |
| `check_available_space`: an error that is not retried | `NoSpace`: `RangeTooLarge`, `FreshTooLarge` |

**FileAssembly** is `assemble_file`: the temporary file by chunk, up to four
writing threads, the hashing thread (or hashing in the loop, or none),
`chunk_done` and `has_error` between them, `DecrementGuard` against the claims
of other files, and the rename that may turn into a copy.  Sources are right,
wrong with the right length, or unreadable.

**VerificationCache** has the entries, the files with the second they were
written in, and the sessions that fill the cache: scan, assembly, eager write,
save over a temporary name, trim.  An install is new, resumes, or scans for a
changed manifest.  The last one hashes or asks the cache (`Stat`, `Hash`, `Insert`);
the resumed one, which is the one `resolve_resume` asks for, goes by size and bits
(`Measure`); a new one scans nothing, but skips an eager file whose bits a finished
install has left in the bitmap file (`SkipEager`, `marked`).  **Repair** adds `verify_integrity`: check all
files, fetch chunks of the broken ones, jobs that share chunks through
`claims` (occurrences), the error of one among others.  Anybody may edit a file
at any time; `sneaky`, `unseen` and `stale` are history variables that say which
files an edit, an entry or a bit has put beyond what the code looks at.

**PluginInstall** has the two tasks of `sophon.rs` that install plugins and
SDKs side by side.  A package goes through the check of version and files,
download, extraction file by file, validation and recording.  What a list says
of a file, a size (`Sized`), an MD5 (`Digested`), both or neither, is what is
compared (`Validates`); the record is
rewritten under the lock (`Lock`, `Truncate`, `Write`, `WriteFails`) and may be
torn by a crash.

**PreinstallPlan** is `build_preinstall_plan` as operators over a release: which
patch applies, which files are deleted, which come from the main manifests.
The plan is a sequence whose *n*-th entry is the planned asset with *n* - 1
earlier ones (`InOrder`), so that it can be reasoned about without recursion.
**PreinstallPackage** is `preinstall_download`: leftover chunks, the growing pool
of workers, retries, the check of the installation afterwards, the state file
and the marker.  **ApplyPreinstall** is `apply_preinstall` over such a package,
asset by asset: skip what is patched already, copy or patch with retries,
fallback to a full download, deletions, tag, removal of the state.  Downloads
and applications alternate with crashes, cancellations, outages, chunks that
are lost and an installation that changes its version in between.

**PatchFormat** says what a patch *means*: the new file as a function of covers,
runs and old bytes, by running totals (`Sums`) of their lengths.  **PatchCore** (HDIFF13) and **PatchSF** (HDIFF20) are the
decoders with their buffers, runs and covers, and their limits on the bytes of a
step (`MaxStep`) and the number of covers (`MaxCovers`); **HDiff** is `apply`,
which checks the header, runs one of them and compares lengths.  A mapped old file and one
read with seeks differ in what happens beyond its end; both are covered.

**UpdatePlan** is `build_update_installers` and the estimate of `check_update` as
operators over two builds and the files on disk.  **UpdateSession** carries the
plans out: `download` and `update` one after the other, each planned from the
disk as it is, with the state file (`saved`), the bitmap (`bitmap`, its bits
numbered by the files of the plan that wrote it: `BitIn` counts the chunks up to
one), the tag and its torn write, failures, crashes and edits.  File contents
are sequences of chunks, so a wrong offset, a file left out or a tail that was
kept shows.  Histories say which files the bitmap file no longer speaks of
(`stale`), which old files the plan takes for intact though they are not
(`doubtful`), and which are lost to one of the defects of section 3 (`struck`).

## 3. What is checked

| Run | States | What it shows |
|---|---|---|
| `handle` | 22 162 | two workers and a controller, any thread calling `pause`, `resume` and `cancel`, also from the callback: `NoLostWakeup`, `CancelReachesAll`, and `GateContract` (refinement of `PauseGate`, fairness included) |
| `pipeline` | 1 048 863 | four files (sharing, reusing, eager, valid already), two workers, all failures: `ChunkKept`, `CountersExact`, `OkMeansInstalled`, `CancelledIsQuiet`, `OkLeavesNoChunk` |
| `pipeline_live` | 47 989 | a chunk twice in a file, a completed file, an eager file, failures: `KeepsContract` (refinement of `InstallContract`, the promise to return included) and `AssemblyEnds` |
| `registration` | 1 687 602 | every manifest of up to three files with up to two chunks, both modes: `ItemsMatchManifest`, `CountdownsBalance`, `EagerMatchesManifest` |
| `resume` | 474 665 | sessions without number, with crashes, torn bitmaps and states, saves that overtake one another, errors and cancellations; an eager file, shared and reused chunks, a file without chunks: `OkMeansInstalled`, `ScanIsRight`, `MemoryIsRight`, `RecordedStays` |
| `chunk` | 86 846 | three sessions over one chunk, any leftover, server and fault, too little space: `OkIsWhole`, `CountIsLength`, `GivesUpWhenSpoiled` |
| `assembly` | 652 732 | four chunks, one of them twice, one thread or two, three modes: `ReplacedIsWhole`, `OriginalKept`, `ChunksOutliveUsers`, `AssemblyReturns` |
| `repair` | 853 319 | two files that share a chunk, or an eager one and one without chunks, a cache of one entry, installs of three kinds and repairs, edits: `InstalledIsRight`, `EntriesVouch`, `ChunksForJobs`, `RepairedIsRight` |
| `plugin` | 150 785 | a plugin and an SDK without MD5, two versions, three sessions, one damage: `RecordsSurvive`, `SkippedIsWhole`, `TasksEnd` |
| `preinstall` | 468 535 | five releases that use every way an asset can come: `PackageIsWhole`, `NothingUnverified`, `TagIsHonest`, `ProgressIsKept` |
| `hdiff` | 355 317 | all patches of up to two covers and three runs (HDIFF13), and of one or two steps (HDIFF20), sound or not, and some beyond the limits: `AppliedIsRight`, `PoolIsClean` |
| `update` | 591 839 | two pairs of builds (one within a manifest, one across two), three sessions, one edit: `UpdatedIsNew`, `OldChunksAreThere`, `EstimateIsLowerBound` |

### Where code and words part

Some properties hold only with exceptions, since the code does something else
than one of its comments or docs says.  The exceptions are in the properties'
comments, each was seen to be reached, and each is a finding in `PROJECT.json`:

* a cancellation that all workers see at the top of their loop is returned as
  `AssemblyIncomplete` (`CancelledIsQuiet`, `InstallContract`);
* a file that is valid already releases the names it only *reuses* from its old
  version, and may take a chunk from the file that downloads it (`ChunkKept`:
  the instance keeps such names apart);
* outside Full mode a file that reuses old chunks is written eagerly
  (`EagerMatchesManifest` has the rule as the code has it);
* after an error of the registration the coordinator spins for good
  (`AssemblyEnds`: `abandoned`);
* a resuming scan deletes a complete file that was assembled because it shares
  a chunk: it has no bits (`RecordedStays` speaks of recorded files);
* a scan takes a file without chunks for installed and does not look whether it
  is there, or empty (`unseen` of `ResumeSession`);
* the coordinator may save a map without chunks; the next session does not resume,
  and believes the bits of a file an earlier scan has deleted (`struck` of
  `ResumeSession`);
* a resumed install does not hash what it finds: a file changed at its size, with
  its bits in the bitmap file or with old chunks, stays (`InstalledIsRight`:
  `stale`); a new install over a finished one skips, by its bits, an eager file
  that was changed since, and the cache then vouches for it (`sneaky`);
* `UpdatedIsNew` lists its own exceptions (`struck`): damage that keeps a file's
  size, the scan's belief in the size of a file that reuses old chunks, bits of
  an earlier session or another plan, bits that outlived their file, an eager
  file over a longer one, and a file that moves between manifests and is deleted
  after it was installed;
* the bits of a file the scan deletes are cleared in memory only
  (`installer.rs` 2557-2564): until the next sync the bitmap file has them, and a
  session that is cut short after it laid the file out anew leaves a file of
  the right size with all its bits (`stale` of `UpdateSession`).  This one came
  out of the proof: the invariant that the bitmap file is to be believed was
  not inductive at `Scan`, and TLC then reached the wrong `Ok`;
* attempts after the first one still use the size measured before it
  (`GivesUpWhenSpoiled`);
* assembly trusts a cache entry without its time (`InstalledIsRight`: `stale`);
* a file that one field of a preinstallation drops and another brings is deleted
  at the end (`TagIsHonest`: `Excepted`); a file of a negative size is left out;
* the retry loops of preinstall patches go on after they have decided on the
  fallback; the periodic sync writes bits of files that were not flushed, which
  matters after a loss of power, and that no model has.

### Bounds

* *Handle*: two workers and one controller.  A lost wake-up needs one sleeper
  and one waker, a resurrection one resumer and one canceller; the third
  thread lets a wake-up meant for one reach another.  The proofs have no bound.
* *Pipeline*: two workers, up to four files and three chunks.  Two files that
  share a chunk, or one that has it twice, give every order of the last two
  releases; `Concurrency = 1` with `MaxTarget = 2` makes the limit bind and
  then rise.  `pipeline_live` is smaller because liveness costs more; both have
  every failure, that of the registration included.
* *Registration*: three files, two chunks, two names: the first, middle and
  last position of a counter, sharing within a file and between files, and
  every choice of completed files.
* *Resume*: the sessions are not bounded.  `Interval = 2` separates items that
  save from items that do not; `MaxSaves = 1` lets workers and coordinator start a
  save while none is under way, and an error return adds one, so two can meet.
  Saves that outlive their session (`late`) are left to the proofs.  Old versions
  are shorter for the eager file and longer for the assembled one; equal size and
  a longer eager file belong to `update`, where contents are compared.
* *Chunk*: a chunk of three blocks has a first, a middle and a last one and
  leaves room for one too many; three network and two hash attempts separate
  the two counters; three sessions as in *resume*.  The proofs have no bound.
* *Assembly*: four chunks are the least that makes the code use threads; two
  threads race for the flags, at most two sources are not right.
* *Repair*: a cache of one entry is full at once; a clock of two seconds tells
  same from different; two sessions let one find the entries and the bits of the
  other.
* *Plugin*: one damage and three sessions let a version be recorded, damaged,
  and found; two versions let an update begin.  The plugin's list has sizes and
  MD5s, the SDK's sizes only.
* *Preinstall*: two workers of which one comes later, two attempts, two patch
  chunks and up to three assets, so that one patch can overwrite the source of
  the next.
* *HDiff*: pool, buffer and I/O lengths of two make every run and cover of
  three cross one.  Some steps are too long and one patch has a cover too many.  Bytes are two bits wide, so that sums wrap.
* *Update*: chunks of length one; files of one or two of them; three sessions,
  so that one can be cut short, one follow, and one start anew after an edit.
  One pair of builds has a file of two chunks that moves between manifests, so
  that it can be laid out with one of them when its bits outlive it.

Deadlock is not checked where the system comes to rest after its last session
(`CHECK_DEADLOCK FALSE`: resume, chunk, assembly, repair, plugin, preinstall,
hdiff, update).

### Fairness

* *Handle*: weak fairness for each operation of a call that was started:
  threads are scheduled and none of these operations blocks.  Nobody has to
  start a call.  `Await` is strongly fair, because the progress callback may
  itself start a control call and so disable it again and again; a callback
  returns after finitely many.
* *Pipeline* (`pipeline_live`): weak fairness of `install()`'s own steps, of
  each worker, of each task and of the coordinator: they are tasks of the
  runtime or threads of its blocking pool, requests have a time limit and
  retries are bounded.  The user need not do anything, so a paused operation
  may stay paused; the contract promises a return only if it does not.
* *Assembly*: weak fairness of the calling thread, of each writing thread and of
  the hashing thread, which are threads of the system and park with a time
  limit only.
* *Plugin*: weak fairness of each task's steps.  The lock is held during
  synchronous work only, so a task that waits for it gets it.
* All other runs are checked for safety alone.

## 4. What is proved

For all values of the constants, by tlapm (SMT, Zenon and LS4):

| Theorem | States |
|---|---|
| `ResumeSession_proofs!HandleTypeCorrect` | `HandleSpec => []HandleTypeOK` |
| `ResumeSession_proofs!NoLostWakeupHolds` | `HandleSpec => []NoLostWakeup` |
| `ResumeSession_proofs!CancelIsTerminalHolds` | `HandleSpec => CancelIsTerminal` |
| `ResumeSession_proofs!HandleImplementsGate` | `HandleSpec => PG!SafeSpec` |
| `ChunkDownload_proofs!RegTypeCorrect` | `RegSpec => []RegTypeOK` |
| `ChunkDownload_proofs!ItemsMatchManifestHolds` | `RegSpec => []ItemsMatchManifest` |
| `ChunkDownload_proofs!CountdownsBalanceHolds` | `RegSpec => []CountdownsBalance` |
| `ChunkDownload_proofs!EagerMatchesManifestHolds` | `RegSpec => []EagerMatchesManifest` |
| `InstallPipeline_proofs!TypeCorrect` | `Spec => []TypeOK` |
| `InstallPipeline_proofs!OkMeansInstalledHolds` | `Spec => []OkMeansInstalled` |
| `InstallPipeline_proofs!CancelledIsQuietHolds` | `Spec => []CancelledIsQuiet` |
| `InstallPipeline_proofs!PipelineImplementsContract` | `Spec => IC!SafeSpec` |
| `InstallPipeline_proofs!CountersExactHolds` | `OldNamesApart` implies `Spec => []CountersExact` |
| `InstallPipeline_proofs!ChunkKeptHolds` | `OldNamesApart` implies `Spec => []ChunkKept` |
| `InstallPipeline_proofs!OkLeavesNoChunkHolds` | `OldNamesApart` implies `Spec => []OkLeavesNoChunk` |
| `InstallPipeline_proofs!HarmIsContainedHolds` | `Spec => []HarmIsContained` |
| `ChunkDownload_proofs!TypeCorrect` | `Spec => []TypeOK` |
| `ChunkDownload_proofs!Counting` | `Spec => []CountIsLength` |
| `ChunkDownload_proofs!DownloadedIsWhole` | `Spec => []OkIsWhole` |
| `ChunkDownload_proofs!GivesUpHolds` | `Spec => []GivesUpWhenSpoiled` |
| `FileAssembly_proofs!TypeCorrect` | `Spec => []TypeOK` |
| `FileAssembly_proofs!ReplacedIsWholeHolds` | `Spec => []ReplacedIsWhole` |
| `FileAssembly_proofs!OriginalKeptHolds` | `Spec => []OriginalKept` |
| `FileAssembly_proofs!ChunksOutliveUsersHolds` | `Spec => []ChunksOutliveUsers` |
| `Repair_proofs!TypeCorrect` | `Spec => []TypeOK` |
| `Repair_proofs!EntriesVouchHolds` | `Spec => []EntriesVouch` |
| `Repair_proofs!InstalledIsRightHolds` | `Spec => []InstalledIsRight` |
| `Repair_proofs!ChunksForJobsHolds` | `Spec => []ChunksForJobs` |
| `Repair_proofs!RepairedIsRightHolds` | `Spec => RepairedIsRight` |
| `ApplyPreinstall_proofs!TypeCorrect` | `Spec => []TypeOK` |
| `ApplyPreinstall_proofs!PackageIsWholeHolds` | `Spec => []PackageIsWhole` |
| `ApplyPreinstall_proofs!NothingUnverifiedHolds` | `Spec => []NothingUnverified` |
| `ApplyPreinstall_proofs!ProgressIsKeptHolds` | `Spec => ProgressIsKept` |
| `ApplyPreinstall_proofs!TagIsHonestHolds` | `PatchersHaveMain` implies `Spec => []TagIsHonest` |
| `UpdateSession_proofs!EstimateHolds` | `Spec => []EstimateIsLowerBound` |
| `UpdateSession_proofs!OldChunksHold` | `Spec => []OldChunksAreThere` |
| `UpdateSession_proofs!UpdatedIsNewHolds` | `Spec => []UpdatedIsNew` |
| `ResumeSession_proofs!TypeCorrect` | `Spec => []TypeOK` |
| `ResumeSession_proofs!OkMeansInstalledHolds` | `SizesDiffer` implies `Spec => []OkMeansInstalled` |
| `ResumeSession_proofs!MemoryIsRightHolds` | `SizesDiffer` implies `Spec => []MemoryIsRight` |
| `ResumeSession_proofs!ScanIsRightHolds` | `SizesDiffer` implies `Spec => []ScanIsRight` |
| `ResumeSession_proofs!RecordedStaysHolds` | `SizesDiffer` implies `Spec => RecordedStays` |
| `FileAssembly_proofs!PluginTypeCorrect` | `PluginSpec => []PluginTypeOK` |
| `FileAssembly_proofs!RecordsSurviveHolds` | `PluginSpec => []RecordsSurvive` |
| `FileAssembly_proofs!SkippedIsWholeHolds` | `IdsApart` implies `PluginSpec => SkippedIsWhole` |
| `HDiff_proofs!AppliedIsRightHolds` | `Spec => []AppliedIsRight` |
| `HDiff_proofs!PoolIsCleanHolds` | `Spec => []PoolIsClean` |

Assumptions on constants, each named in the module that declares them and
evaluated by TLC: workers and controllers are disjoint (`ThreadsAssumption`);
files and slots are finite and the manifest's functions have their types
(`ManifestAssumption`, `ParametersAssumption`); `SessionAssumption` and
`TargetAssumption` for the pipeline; sizes, limits and counts are what their
types in the code allow (`ChunkAssumption`, `AssemblyAssumption`,
`CacheAssumption`, `RepairAssumption`, `PackageAssumption`, `ApplyAssumption`); in a build a name has
one field, a file is a non-empty sequence of chunks and the manifests have their
files in one order (`UpdateAssumption`); what a release names are files of the
game, and its lists are finite (`ReleaseAssumption`); the lists of plugins and SDKs are
sequences, an entry may give a size, an MD5, both or neither, and the marks for damaged
files are no versions (`PluginInstallAssumption`); no file is written eagerly that has
old chunks (`RepairAssumption`);
the bounds on manifests are any numbers and the verify modes are the code's
(`BoundsAssumption`, `ModesAssumption`); bytes are numbers below a base, buffers
are long enough for the code to work with them, its limits are numbers, and patches have
the types the parser gives them (`BaseAssumption`, `BufferAssumption`, `InputsAssumption`: gaps
and lengths are not negative, which it checks, and a run of raw length *n* has
*n* + 1 bytes, so none is empty).  There is no bound on workers, files, sharing,
sizes, manifests, packages, patches, sessions or failures.  Some theorems have a hypothesis besides, without which
they are false.  `OldNamesApart` (pipeline): no name that a valid file only
reuses from its old version is downloaded for another file, since such a file
releases the names it reuses as well.  What holds without it is
`HarmIsContained`: all three properties, for every other name.  `SizesDiffer` (`ResumeSession`): no file with chunks has the size of its old version, and
none which is laid out in place is shorter than it; the scan knows a file by
its size, and what happens otherwise is what `UpdateSession` shows and
`UpdatedIsNew` excepts.  `PatchersHaveMain` (`TagIsHonest` only): a field whose
patch manifest has a file of the main manifests has a main manifest itself.
The loop over patch manifests notes every file it sees (`preinstall.rs` 757-790),
but plans a download only if the field's main manifest is there; a file noted
and not planned would be missing.  `IdsApart` (`SkippedIsWhole` only): no plugin has
the id of an SDK, and none has the key under which the SDK is recorded.  A
plugin is recorded as `plugin_<id>_version` and the SDK as `plugin_sdk_version`
(`plugin_install.rs` 58, 443), so two packages of one key would be taken for
each other.

*The handle.*  `HandleTypeOK` is inductive.  `NoLostWakeup` is inductive together
with it: making the future precedes reading the state, so whoever changes the
state afterwards still has its `notify_waiters` to come.  The refinement maps
`wait` and `outcome` to the gate; each step is a step of `PauseGate` or leaves
state and gate alone.

*Registration.*  Each loop of the code is a step, so that an invariant about the
chunks registered so far (`Seen`) takes the place of an induction over a
manifest: it grows by one slot at a time.  `Indexed`: the items are the names
seen, each once, and the reference count of an item is the number of its slots
seen.  `Counted`: the pending count of a file is the number of entries that wait
for it, over all items, and these entries name that file and no other.  `Sending`,
`Tainted` and `Eager` say the same of the files sent at once and of the eager flag,
whose untainting comes last; `Flattened` says that the flat vector holds the entries of
the items passed, between their offsets.  In phase `done`, `Seen` is all that is
to be downloaded, and the three properties are what the invariants say then.

*The pipeline.*  `install()` decides on `Ok` by comparing `assembled_files` with
`total_files`, two numbers.  That the files behind the number are installed
needs an invariant about how each file got there:

* `PendingExact`: `pending[f]` is the number of slots of *f* that wait, so it
  reaches one exactly at the last of them;
* `OneWay`: a file waits for chunks, is in the channel and has a task one after
  the other, an eager file is never sent, and a claim is set exactly from the
  start of the reading on;
* `EagerStored`: the chunk of an eager slot that no longer waits is in the
  target (no release, skip or clean-up removes it);
* `BeforeRegister`: nothing is in motion before registration;
* `SettledAreInstalled`: a file whose claim is kept and whose task no longer
  runs is installed;
* `SettledAreCounted`: `assembled_files` counts exactly those files.

If the count equals the number of files, the settled files, a finite subset of
`Files` of the same cardinality, are all of `Files`.  The conjunction `IInv`
with `TypeInv` is inductive; `TypeInv` adds to `TypeOK` that a busy worker has
an item, without which a chunk called "none" might be stored.  The proof has a
step per action, with a lemma per conjunct of `IInv`.

*The pipeline's surroundings.*  `Frame` holds of every behaviour beside `IInv`:
nothing moves before registration; workers are gone when the downloads have
ended, tasks when the coordinator has; an item is in the queue or with one
worker, and until it is stored all its slots wait.  From it follow
`CancelledIsQuiet` and the contract: each step delivers one file, returns, is
the user's, or changes nothing the caller sees (`ContractStep`).  `Counts` adds the
reference counts: a task releases each of its slots once, at its end, and all of
them if it ends well (`Emptied`), so `refs[c]` is the number of unreleased slots,
one means the last, and a chunk is there for those who read it and gone after
them (`Kept`).  Both are stated for the names that are not `Disturbed`, that is
given back by a valid file which only reuses them; `HarmIsContained` says so, and
under `OldNamesApart` there are no others.

*The download.*  `OkIsWhole` speaks of the end of a session, so the invariant
`Core` says what holds on the way: while bytes arrive the running length is that
of the file and a right digest means a right file (`CountIsLength`); a size the
caller gave is the file's as long as that is there (`GivenSize`), which is what
lets an attempt append to it; and a chunk with no hash at all is trusted by that
size only before its first attempt fails (`TrustedSize`).  `GivesUpWhenSpoiled`
needs `Core` beside the `Tally`: each attempt that failed without a size given was
spoiled, because a file that is absent has no length to be believed.  It speaks of
`DownloadFailed`; too little space is an error of its own that no attempt follows.

*Assembly.*  The writing threads and the hashing thread share flags, so the
invariant says who may rely on what: a flag that is set means that the chunk is
in the file and no thread touches it again (`Flags`); a thread writes its share
in order, so the shares that are done are all of the file (`Progress`); a right
digest means that every chunk hashed so far is right (`Hashing`); and for each
name the counter plus the occurrences given back equals the claims of the others
plus the file's own (`Claims`), which makes the counter reach zero only at the
last user.

*The cache.*  Times only grow: an entry is no younger than its file was when it
was read, and no file is younger than the clock.  An edit therefore either
moves the time past the entry's or falls into the same second, which is the
exception of `EntriesVouch`.  What a session is about to insert has to vouch
already, since the edit may come between hashing and inserting.

*Installs and repairs over the cache.*  `EntriesVouch` is about single files; that a
session ends well needs the way each file went (`Sound`): what it has settled is
good or the repair will report an error (`stopped`), and in a repair, which
starts with an empty cache, nothing is taken from an entry of another session.
What an install takes without a hash is noted when it takes it: the bits say
nothing of edits, so no invariant about them would hold, and the exceptions are
the files the history names and no others.
For the jobs, the counter of a chunk name is at least the number of its
occurrences in the files still to be assembled (`Claimed`; occurrences, since a
file may name a chunk twice), so the chunk is there for each of them
(`Supplied`); a job that ends lowers both sides by the same number, which
takes the cardinality of unions over files and of intervals.

*The package.*  Each chunk is verified, in the queue, or with exactly one
worker (`Parted`), and the counter of items equals the queue plus the busy
workers (`Counted`), so a worker that leaves because the queue is empty leaves
nothing behind.  A package that is sealed has in its queue and its jobs only
chunks that were removed since (`Whole`).  `ProgressIsKept` needs to know that an
application under way has found the game in the version the package is for,
and that what is left for the deletions is in the plan's list (`AInv`).

*The tag.*  An application has done the tasks before the one it is at (`Done`), and
none of them is undone but by a deletion, so at the end all are done.  That the
tasks make all of the release is a fact about the plan: the planned places
are ordered, each has a number of its own (`EarlierHasLess`), and by counting each
number has a place (`EveryPlaceIsTaken`), so `InOrder` leaves none out
(`PlanCovers`).  The types follow from the same invariants: the queue and the
chunks being fetched are disjoint sets of patch chunks, which bounds the counter.

*The estimate.*  Until the scan the plan is the one the disk calls for; a file
the estimate counts is then in the plan, and a chunk it counts has no place in
the file's old version, so the update cannot take it from there.

*Updating.*  Two things outlive a session and are found by the next one, the
files and the bitmap file, and the proof says how far each may be believed.

* `OldChunksInv`: from the scan until it is assembled, a file of the plan has its
  old chunks at the planned offsets or is `doubtful`.  The plan takes them from
  files of the old size; the sessions before it can have turned one only into
  its new version; eager writes touch other files, and an assembled file is done.
* `FileBitsInv`: if the bitmap file served one plan only, each of its bits
  of a file that is not `stale` stands for a chunk that is in its place.
* `MemoryBitsInv`: the same of the bits in memory, and of a file the resuming scan
  has rejected more, namely that its bits are of this session.  The scan clears a
  range of numbers, so one has to know that no other file has a bit in it: bits
  are counted, the slots up to one are nested, and a slot is determined by how
  many there are (`BitsAreApart`).
* `FilesInv`: what is handled, done or out of the plan is right or `struck`.

`UpdatedIsNew` is then what remains when everything in the plan is done.

*Resuming.*  `MemoryIsRight` alone is not inductive: the next session reads the
bitmap file.  `Disk` says that each bit of the file stands for a chunk in its
place or is of a file that is `stale`, deleted by a scan with bits that stayed
there.  The state file says nothing about the bits, so the saves may come in any
order: a session that resumes clears the bits of what it does not accept, one that
does not takes them all, and then the stale files are `struck` until the bitmap
has been written anew.  `Work` says for each item how far its data have come when
its bits are set; `Course` ties the end of a session to the bitmap file.  A crash
forgets memory and keeps `Disk`.

*Plugins.*  `RecordsSurvive` is about two tasks that rewrite one record.  A task that
is between reading and writing holds the lock (`Locking`); what it is about to
write is its own version for its own key and what was written last for every
other one, and a file that stays torn has lost all that (`Copied`).
`SkippedIsWhole` needs that a record vouches for files across sessions: a file of
a package whose version is recorded, or in a copy about to be written, has that
version, or has been removed, cut short, changed from outside, replaced by a
newer one, or came from an archive nobody could verify (`Fits`, `RecordsFit`); a task that records has validated all files
(`AllVerified`); and nothing of a package, neither file nor record, is newer than
what its task installs (`NoneNewer`), so a record that equals the version on offer
leaves no room for a newer file.  Without `IdsApart` two lists would write files
and record for one key.

*Patches.*  A decoder writes the new file piece by piece, out of step with
covers, runs and buffers, and `AppliedIsRight` has to say what each byte is.  The
positions in the four streams are running totals.  `Sums` is a recursive
function; that it exists and steps as it should is shown by taking the least
number where it would not (`LeastIsThere`), so no theorem of induction with an
operator parameter is needed.  For HDIFF13 `Work13` says: the position written is
the end of the covers passed, or within the one at hand (`Passed13`); the
positions in code and data belong to the runs used up (`Data13`, `Runs13`); of the
bytes in the cache, those before the cursor are finished and those after it
still lack their runs (`Content13`).  `Work20` says the same of steps, whose runs
are a stream of numbers: `Unread` is what the decoder will still give of it, and
with what was `Spent` it makes up the whole expansion.  Each early return is
then shown to mean that the patch does not describe the new file or goes beyond the
limits (`StepsAhead`: a step that is too long is met before the decoder ends), and a
decoder that came to its end has written it, so `true` is returned exactly when
it should be (`Judged`).  `PoolIsClean` is `Emptied`: the cache is empty once a
decoder has come to its end, and for HDIFF20 always.

## 5. What is only model-checked

Liveness: `CancelReachesAll`, the return promised by `InstallContract`
(`KeepsContract`), `AssemblyEnds`, `AssemblyReturns`, `TasksEnd`, and the fairness
half of `GateContract`.  TLAPS does not prove liveness.  Of `KeepsContract` and
`GateContract` the safety halves are theorems.

All other properties of the runs are theorems.

## 6. Abstractions

* A chunk is a name; in the pipeline downloading, decompressing and hashing
  are one step that succeeds or fails, which `ChunkDownload` justifies: `Fetch`
  stands for a session that returns Ok, `FetchFails` for one that gives up.
* Progress figures, speed and log messages are left out, and with them the
  byte counters.
* `InstallPipeline` starts `Completed` from the scan and `Cached` from the
  chunks directory; `ResumeSession` says which values these can have.
* `ResumeSession` keeps the manifest unchanged (`resolve_resume` resumes only
  with an equal manifest hash); `UpdateSession` has plans that change under an
  equal hash.  The seed of completed files in `install()`'s arguments is empty
  in every call of `sophon.rs`, so flags come from the scan.
* `UpdateSession` has Full mode only; manifests have no directories; the saves of
  a session are resolved when it ends (`Persisted`): any of its bits may have
  reached the disk.  Torn bitmap files are `ResumeSession`'s, chunk files and the
  verification cache those of the other modules.
* `FileAssembly` is called with `skip_md5_check`, as install and repair do.
  `apply_preinstall` calls it without for files just found wrong, where the early
  check of `assembly.rs` 213-243 finds nothing to skip.
* `is_filtered_asset` (`preinstall.rs` 2377-2407) and the filter of the plan
  (2440-2453) are one set of names, `release.skip`.
* HDiff patches are covers, runs and numbers; varints, headers, compression and
  decompression windows are not in the model.
* A crash is that of the process: what was written stays, in any order the code
  allows.  Losing what the system had not flushed is not modelled.
* A file without chunks counts as pure and is assembled at once, as in the
  code, in a session that does not resume; a resuming one takes it for installed.
* `UpdateSession` lets a save of the state have all names or none, at any time:
  one with some of them lets the next session resume as one with all does.

## 7. Not modelled

Game filters (string rules per game, with unit tests), HTTP and scraping,
protobuf decoding, the compact manifest's memory layout, system calls,
profiling and progress events: pure I/O, parsing or layout without influence
on control.  Compression codecs and byte formats of HDiffPatch: data.  The
arithmetic of the adaptive controllers: no property depends on the value of a
target, only on its bounds.  The game-specific records written after an install
(`finalize_install`) and a repair: where a model depends on them they are
parameters (`release.skip`).

## 8. What could follow

Two calls of `install()` that overlap after a first error; a model of what survives a loss of power.

## 9. Running it

`tlc -config MCPipeline.cfg MCInstallPipeline` checks a run (`PROJECT.json`
pairs each configuration with its module); `tlapm InstallPipeline_proofs.tla`
checks the proofs.  Operators named `X_Something` next to an operator `X` are
plausible faults of `X`: replacing `X` by one of them makes the property that
`PROJECT.json` pairs with it fail, which shows that the property can.
