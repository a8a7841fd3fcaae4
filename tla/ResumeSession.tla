--------------------------- MODULE ResumeSession ---------------------------
(***************************************************************************)
(* Successive sessions of Sophon::download or update (sophon.rs) over one  *)
(* game directory and one manifest, in VerifyMode::Full, with crashes      *)
(* between any two steps: what is on disk, what is only in memory, and     *)
(* what the resume scan of install() makes of the disk.                    *)
(*                                                                         *)
(* On disk are the targets, the chunks directory, the completion bitmap    *)
(* (one bit per slot, written by process_eager_item) and the state file    *)
(* with the names of the chunks downloaded.  A session resumes when the    *)
(* state file names a chunk; otherwise it starts afresh, but it loads the  *)
(* bitmap in both cases.                                                   *)
(*                                                                         *)
(* The state is saved for the chunk that completes an Interval, for every  *)
(* file the assembly coordinator joins, and at the end.  Saves run on      *)
(* threads of their own: they may overtake each other and may outlive      *)
(* their session.                                                          *)
(*                                                                         *)
(* The queue, the counters and the assembly tasks are InstallPipeline's:   *)
(* here any item may be the next, and a file is assembled in one step.     *)
(***************************************************************************)
EXTENDS Naturals, FiniteSets

CONSTANTS
  Files, Chunks, Slots, FileOf, NameOf, OldSlots,  \* the manifest
  OldSize,        \* OldSize[f]: the old version's file, against the new size
  Interval,       \* CHUNK_STATE_SAVE_INTERVAL
  MaxSaves,       \* bound: the saves that run at the same time
  Mishaps         \* what else may happen: "crash", "stop"

ASSUME ParametersAssumption ==
  /\ FileOf \in [Slots -> Files] /\ NameOf \in [Slots -> Chunks] /\ OldSlots \subseteq Slots
  /\ OldSize \in [Files -> {"none", "less", "same", "more"}]
  /\ \A s \in OldSlots : OldSize[FileOf[s]] # "none"
  /\ Interval \in Nat \ {0}
  /\ MaxSaves \in Nat

VARIABLES
  target,         \* target[f]: what is at the path of f
  written,        \* slots whose data the eager path wrote and is still there
  zstd,           \* chunk names in the chunks directory
  disk_bits,      \* the bitmap file
  saved,          \* chunk names in the state file; {}: none, or no such file
  phase,          \* where the session is
  result,         \* what the last session returned
  skipped,        \* completed_indices: files the scan found installed
  bits,           \* the bitmap in memory
  dc,             \* downloaded_chunks: the names with a size
  step,           \* step[c]: how far the item of chunk c is
  since,          \* chunks_since_save, modulo Interval
  flags,          \* completion_flags, as a set
  saving,         \* the maps of the saves that were spawned and are not over
  stale,          \* history: files a scan deleted that have bits on disk
  struck,         \* history: files whose bits in memory are such bits
  unseen          \* history: files taken for installed unseen that were not

diskVars == <<target, written, zstd, disk_bits, saved>>
runVars == <<phase, result>>
memVars == <<skipped, bits, dc, step, since, flags>>
history == <<stale, struck, unseen>>
vars == <<diskVars, runVars, memVars, saving, history>>

M(done) == INSTANCE Manifest WITH Completed <- done

-----------------------------------------------------------------------------
(***************************************************************************)
(* target: "missing"; "old", the old version; "laid", a file of the new    *)
(* size the eager path fills (what it has of the new content is            *)
(* `written'); "tail", the same with the end of a longer old file behind   *)
(* it; "new", assembled and renamed.                                       *)
(***************************************************************************)
Holds(s) == target[FileOf[s]] \in {"laid", "tail"} /\ s \in written

Installed(f) ==
  \/ target[f] = "new"
  \/ target[f] = "laid" /\ \A s \in M({})!SlotsOf(f) : Holds(s)

\* No chunk of f comes from the old version (is_eager in the scan).
Pure(f) == M({})!SlotsOf(f) \cap OldSlots = {}

Chunkless(f) == M({})!SlotsOf(f) = {}

Items == M(skipped)!Items
EagerItems == M(skipped)!EagerItems
EagerFiles == M(skipped)!EagerFiles

\* The slots an item brings data for.
Uses(c) == M(skipped)!Uses(c)
Consumers(c) == {FileOf[s] : s \in Uses(c)}

Steps == {"none", "fetched", "written", "save", "bits", "done", "failed"}

TypeOK ==
  /\ target \in [Files -> {"missing", "old", "laid", "tail", "new"}]
  /\ written \subseteq Slots \ OldSlots
  /\ disk_bits \subseteq Slots /\ bits \subseteq Slots
  /\ zstd \subseteq Chunks /\ saved \subseteq Chunks
  /\ phase \in {"idle", "run", "flush", "ending", "ok"}
  /\ result \in {"none", "ok", "cancelled", "failed"}
  /\ skipped \subseteq flags /\ flags \subseteq Files
  /\ dc \subseteq Items
  /\ step \in [Chunks -> Steps]
  /\ since \in 0 .. Interval - 1
  /\ saving \subseteq SUBSET Chunks
  /\ stale \subseteq Files /\ struck \subseteq Files /\ unseen \subseteq Files

\* The memory of a process that runs no session.
Forget ==
  /\ phase' = "idle"
  /\ skipped' = {} /\ bits' = {} /\ dc' = {}
  /\ step' = [c \in Chunks |-> "none"]
  /\ since' = 0 /\ flags' = {}

Init ==
  /\ target = [f \in Files |-> IF OldSize[f] = "none" THEN "missing" ELSE "old"]
  /\ written = {} /\ zstd = {} /\ disk_bits = {} /\ saved = {}
  /\ phase = "idle" /\ result = "none"
  /\ skipped = {} /\ bits = {} /\ dc = {}
  /\ step = [c \in Chunks |-> "none"]
  /\ since = 0 /\ flags = {}
  /\ saving = {}
  /\ stale = {} /\ struck = {} /\ unseen = {}
-----------------------------------------------------------------------------
(***************************************************************************)
(* The beginning of a session: resolve_resume and the scan of install().   *)
(***************************************************************************)
SizeOk(f) ==
  target[f] \in {"laid", "new"} \/ (target[f] = "old" /\ OldSize[f] = "same")

\* A scan that trusts the size of every file.
Accepted_SizeOnly == {f \in Files : Chunkless(f) \/ SizeOk(f)}

\* The files a resuming session takes for installed: one without chunks unseen.
Accepted ==
  {f \in Files :
     Chunkless(f) \/ (SizeOk(f) /\ (Pure(f) => M({})!SlotsOf(f) \subseteq disk_bits))}

\* A scan that deletes what it accepted, too.
Doomed_Swept == {f \in Files : Pure(f)}

\* Those it deletes; a file with old chunks is kept to be assembled from.
Doomed == {f \in Files \ Accepted : Pure(f)}

Rejected == {f \in Files : f \notin Accepted}

\* A scan that leaves the bits of a deleted file alone.
LoadedBits_Stale(is_resume) == disk_bits

\* ChunkBitmap::load, then clear_range for every rejected file.
LoadedBits(is_resume) ==
  IF is_resume THEN {s \in disk_bits : FileOf[s] \notin Rejected} ELSE disk_bits

\* initial_chunks: names of the state file whose chunk file is there.
Seed(done) == saved \cap zstd \cap M(done)!Items

IsResume == saved # {}

Start ==
  /\ phase = "idle" /\ phase' = "run" /\ result' = "none"
  /\ LET is_resume == IsResume
         done == IF is_resume THEN Accepted ELSE {}
         doomed == IF is_resume THEN Doomed ELSE {}
     IN /\ skipped' = done /\ flags' = done
        /\ target' = [f \in Files |-> IF f \in doomed THEN "missing" ELSE target[f]]
        /\ written' = {s \in written : FileOf[s] \notin doomed}
        /\ bits' = LoadedBits(is_resume)
        /\ dc' = IF is_resume THEN Seed(done) ELSE {}
        /\ stale' = stale \cup {f \in doomed : M({})!SlotsOf(f) \cap disk_bits # {}}
        /\ struck' = IF is_resume THEN stale \cap done ELSE stale
        /\ unseen' = {f \in done : Chunkless(f) /\ ~Installed(f)}
        /\ saving' = IF "late" \in Mishaps THEN saving ELSE {}
  /\ UNCHANGED <<zstd, disk_bits, saved, step, since>>
-----------------------------------------------------------------------------
(***************************************************************************)
(* The download workers: process_download_item and process_eager_item.     *)
(***************************************************************************)
Goto(c, next) == step' = [step EXCEPT ![c] = next]

Fresh(c) == phase = "run" /\ c \in Items /\ step[c] = "none"

\* The items f still waits for, and whether every one was counted down.
Missing(f) ==
  {c \in {NameOf[s] : s \in M(skipped)!SlotsOf(f) \cap M(skipped)!Downloads} : step[c] # "done"}
Supplied(f) == Missing(f) = {}

\* Completing an eager file at its first chunk.
Notified_First(c) == IF c \in EagerItems THEN flags \cup Consumers(c) ELSE flags

\* notify_assembly_ready, or notify_eager_file_complete: the last chunk of an
\* eager file completes it.
Notified(c) == flags \cup {f \in Consumers(c) \cap EagerFiles : Missing(f) = {c}}

\* The item ends with an error, or cancellation comes before it.
ItemFails(c) ==
  /\ Fresh(c) /\ "stop" \in Mishaps
  /\ Goto(c, "failed")
  /\ UNCHANGED <<diskVars, runVars, skipped, bits, dc, since, flags, saving, history>>

\* Downloaded, or there already and valid.
Fetch(c) ==
  /\ Fresh(c) /\ c \notin EagerItems
  /\ zstd' = zstd \cup {c}
  /\ Goto(c, "fetched")
  /\ UNCHANGED <<target, written, disk_bits, saved, runVars,
                 skipped, bits, dc, since, flags, saving, history>>

\* The bit of the chunk is set: nothing to do.
EagerSkip(c) ==
  /\ Fresh(c) /\ c \in EagerItems
  /\ Uses(c) \subseteq bits
  /\ dc' = dc \cup {c}
  /\ Goto(c, "done") /\ flags' = Notified(c)
  /\ UNCHANGED <<diskVars, runVars, skipped, bits, since, saving, history>>

\* eager_decompress_chunk: the data of the chunk, at each of its places.
Unpacked(c) == written \cup Uses(c)

\* mark_complete, for an item of the eager path.
Marked(c) == IF step[c] = "written" THEN bits \cup Uses(c) ELSE bits

\* preallocate_file: extends, never shrinks.
Laid(f) ==
  IF target[f] = "tail" \/ (target[f] = "old" /\ OldSize[f] = "more") THEN "tail" ELSE "laid"

\* The target is laid out and the chunk is written at its place.  (Laying
\* out an assembled target again leaves what it holds.)
EagerWrite(c) ==
  /\ Fresh(c) /\ c \in EagerItems
  /\ ~(Uses(c) \subseteq bits)
  /\ written' = Unpacked(c)
  /\ target' = [f \in Files |->
       IF f \in Consumers(c) /\ target[f] # "new" THEN Laid(f) ELSE target[f]]
  /\ Goto(c, "written")
  /\ UNCHANGED <<zstd, disk_bits, saved, runVars,
                 skipped, bits, dc, since, flags, saving, history>>

(***************************************************************************)
(* The chunk counts as downloaded; the one that completes an Interval has  *)
(* the state and the bitmap saved.                                         *)
(***************************************************************************)
Record(c) ==
  /\ step[c] \in {"fetched", "written"}
  /\ bits' = Marked(c)
  /\ dc' = dc \cup {c}
  /\ since' = (since + 1) % Interval
  /\ IF since' = 0 THEN Goto(c, "save") /\ UNCHANGED flags
                   ELSE Goto(c, "done") /\ flags' = Notified(c)
  /\ UNCHANGED <<diskVars, runVars, skipped, saving, history>>

SyncBits(c) ==
  /\ step[c] = "bits"
  /\ disk_bits' = bits /\ stale' = struck
  /\ Goto(c, "done") /\ flags' = Notified(c)
  /\ UNCHANGED <<target, written, zstd, saved, runVars,
                 skipped, bits, dc, since, saving, struck, unseen>>

-----------------------------------------------------------------------------
(***************************************************************************)
(* Assembly: rename over the target, then release the chunks.              *)
(***************************************************************************)
Assemble(f) ==
  /\ phase \in {"run", "flush", "ending"}
  /\ f \notin flags \cup EagerFiles
  /\ Supplied(f)
  /\ target' = [target EXCEPT ![f] = "new"]
  /\ flags' = flags \cup {f}
  /\ UNCHANGED <<written, zstd, disk_bits, saved, runVars, skipped, bits, dc, step, since,
                 saving, history>>

\* Only chunks of this session's items are counted.
Discard(c) ==
  /\ phase \in {"run", "flush", "ending"}
  /\ c \in zstd \cap (Items \ EagerItems)
  /\ step[c] = "done" /\ Consumers(c) \subseteq flags
  /\ zstd' = zstd \ {c}
  /\ UNCHANGED <<target, written, disk_bits, saved, runVars, memVars, saving, history>>
-----------------------------------------------------------------------------
(***************************************************************************)
(* save_assembly_state: it awaits the save it finds in last_save, spawns a *)
(* new one and leaves it there.  The next saver may find the slot empty,   *)
(* since another one has taken what was in it, and then waits for nothing; *)
(* and a handle may be overwritten.  So nobody is sure to wait for a save: *)
(* here nobody does, and every order is possible.                          *)
(***************************************************************************)
Spawn(names) ==
  /\ Cardinality(saving) < MaxSaves
  /\ saving' = saving \cup {names}

\* The worker of the chunk that completed the Interval ...
SpawnSave(c) ==
  /\ step[c] = "save"
  /\ Spawn(dc)
  /\ Goto(c, "bits")
  /\ UNCHANGED <<diskVars, runVars, skipped, bits, dc, since, flags, history>>

\* ... and the coordinator, for the files it joins, each some time after it was
\* assembled: which file it is, and how often, makes no difference.  A file with
\* nothing to download may be joined before downloaded_chunks is set.
JoinSaves ==
  /\ phase \in {"run", "flush", "ending"}
  /\ flags \ (skipped \cup EagerFiles) # {}
  /\ Spawn(dc) \/ (Spawn({}) /\ \A c \in Chunks : step[c] = "none")
  /\ UNCHANGED <<diskVars, runVars, memVars, history>>

\* A save that runs late reads what downloaded_chunks is by then.
ReadLate ==
  /\ phase # "idle"
  /\ \E names \in saving : saving' = (saving \ {names}) \cup {dc}
  /\ UNCHANGED <<diskVars, runVars, memVars, history>>

(***************************************************************************)
(* A save writes what it read to a temporary file and renames that, also   *)
(* after its session has returned.  Another save may have the same map;    *)
(* saves that write at once write the same temporary file, and what is     *)
(* renamed may be of both and not parse.                                   *)
(***************************************************************************)
WriteState ==
  /\ \E names \in saving :
       /\ saved' = names \/ ("tear" \in Mishaps /\ saved' = {} /\ saving # {names})
       /\ saving' \in {saving, saving \ {names}}
  /\ UNCHANGED <<target, written, zstd, disk_bits, runVars, memVars, history>>
-----------------------------------------------------------------------------
(***************************************************************************)
(* The end of a session.                                                   *)
(***************************************************************************)
EndDownloads ==
  /\ phase = "run"
  /\ \A c \in Items : step[c] \in {"done", "failed"}
  /\ phase' = "flush"
  /\ UNCHANGED <<diskVars, result, memVars, saving, history>>

FinalSync ==
  /\ phase = "flush"
  /\ disk_bits' = bits /\ stale' = struck
  /\ phase' = "ending"
  /\ UNCHANGED <<target, written, zstd, saved, result, memVars, saving,
                 struck, unseen>>

Failed == {c \in Items : step[c] = "failed"}

ReturnCancelled ==
  /\ phase = "ending"
  /\ Failed # {}
  /\ zstd' = {}
  /\ result' = "cancelled" /\ Forget
  /\ UNCHANGED <<target, written, disk_bits, saved, saving, history>>

\* The coordinator goes on, and with it its saves.
ReturnError ==
  /\ phase = "ending"
  /\ Failed # {}
  /\ result' = "failed" /\ Forget /\ saving' = saving \cup {dc}
  /\ UNCHANGED <<diskVars, history>>

\* install() saves the state for the last time and returns Ok ...
Complete ==
  /\ phase = "ending"
  /\ Failed = {} /\ flags = Files
  /\ zstd \cap (Items \ EagerItems) = {}
  /\ saved' = dc
  /\ phase' = "ok"
  /\ UNCHANGED <<target, written, zstd, disk_bits, result, memVars, saving, history>>

\* ... and download() removes the state file.
ReturnOk ==
  /\ phase = "ok"
  /\ saved' = {}
  /\ result' = "ok" /\ Forget
  /\ UNCHANGED <<target, written, zstd, disk_bits, saving, history>>

\* The process ends, the machine goes on.  ChunkBitmap::sync truncates the
\* file before it writes it: what is there in between does not load.
Crash ==
  /\ phase # "idle" /\ "crash" \in Mishaps
  /\ \/ UNCHANGED <<disk_bits, stale>>
     \/ /\ phase = "flush" \/ \E c \in Items : step[c] = "bits"
        /\ disk_bits' = {} /\ stale' = {}
  /\ Forget /\ saving' = {}
  /\ UNCHANGED <<target, written, zstd, saved, result, struck, unseen>>

Next ==
  \/ Start
  \/ \E c \in Chunks :
       \/ ItemFails(c) \/ Fetch(c) \/ EagerSkip(c) \/ EagerWrite(c)
       \/ Record(c) \/ SpawnSave(c) \/ SyncBits(c) \/ Discard(c)
  \/ \E f \in Files : Assemble(f)
  \/ JoinSaves \/ ReadLate \/ WriteState
  \/ EndDownloads \/ FinalSync
  \/ ReturnCancelled \/ ReturnError \/ Complete \/ ReturnOk
  \/ Crash

Spec == Init /\ [][Next]_vars
-----------------------------------------------------------------------------
(***************************************************************************)
(* After any number of interrupted sessions, an Ok means what it says: the *)
(* whole of every file is the new version.  The exceptions: a file without *)
(* chunks the scan believed unseen, and a file a scan deleted while its    *)
(* bits stayed in the bitmap file, when the state the coordinator saved    *)
(* next named no chunk and the session after it trusted those bits.        *)
(***************************************************************************)
OkMeansInstalled == result = "ok" => \A f \in Files \ (struck \cup unseen) : Installed(f)

(***************************************************************************)
(* The scan of a resuming session believes no file that is not installed,  *)
(* whatever the sessions before it left on the disk ("Disk-verified files  *)
(* from the resume scan are authoritative", installer.rs) - but a file     *)
(* without chunks, and one with bits that outlived their data.             *)
(***************************************************************************)
ScanIsRight ==
  (phase = "idle" /\ saved # {}) =>
    \A f \in Accepted : Installed(f) \/ Chunkless(f) \/ f \in stale

(***************************************************************************)
(* What a session knows in memory is so: the chunk of a bit that is set is *)
(* in its target, and a file that is flagged is installed, with the same   *)
(* exceptions.                                                             *)
(***************************************************************************)
MemoryIsRight ==
  /\ \A s \in bits : Holds(s) \/ target[FileOf[s]] = "new" \/ FileOf[s] \in struck
  /\ \A f \in flags : Installed(f) \/ f \in struck \cup unseen

(***************************************************************************)
(* While a file is installed and its bits are in the bitmap file (a file   *)
(* with old chunks needs no bits), no session takes it away.               *)
(***************************************************************************)
Recorded(f) == Installed(f) /\ (Pure(f) => M({})!SlotsOf(f) \subseteq disk_bits)

RecordedStays == [][\A f \in Files : Recorded(f) => Installed(f)']_vars

=============================================================================
