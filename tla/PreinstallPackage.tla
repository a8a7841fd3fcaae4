-------------------------- MODULE PreinstallPackage --------------------------
(***************************************************************************)
(* preinstall_download (preinstall.rs): the patch chunks of an upcoming    *)
(* release are checked, downloaded by a growing pool of workers, and the   *)
(* package is sealed by its state file.  The package, the patch chunks and *)
(* the installed tag are on disk; the rest dies with the process.          *)
(*                                                                         *)
(* A session may be cancelled at any time and crash between any two steps; *)
(* requests fail; a patch chunk may be removed while nothing runs; another *)
(* program may bring the game to a version other than the package's.       *)
(***************************************************************************)
EXTENDS PreinstallPlan, FiniteSets

CONSTANTS
  Patches,        \* names of patch chunks
  Workers,        \* the workers the adaptive controller may have
  Initial,        \* how many of them it starts with
  Retries,        \* MAX_RETRIES
  Releases,       \* the releases an instance may be about
  Mishaps         \* of "cancel", "crash", "outage", "rot", "elsewhere"

ASSUME PackageAssumption ==
  /\ IsFiniteSet(Workers) /\ IsFiniteSet(Patches) /\ Patches # {}
  /\ Initial \in Nat \ {0} /\ Retries \in Nat \ {0}
  /\ \A r \in Releases : UniqueChunks(r) \subseteq Patches

VARIABLES
  release,        \* the upcoming release; it does not change
  tag,            \* the installed version
  patch,          \* patch[p]: what patching/chunk has under this name
  rotted,         \* history: the chunks that were removed from there
  pkg,            \* the state file of the package
  marker,         \* the marker file of the package
  pc, result,     \* where the session is; how the last one ended
  cancelled,      \* the handle is cancelled
  had,            \* chunk_bytes_map: the chunks known to be whole
  todo,           \* the queue
  remaining,      \* chunks of the queue that are not accounted for
  at, job, tries, \* the workers: where, with which chunk, failed attempts
  error, stopped  \* first_error is set; a worker met the cancellation

diskVars == <<tag, patch, rotted, pkg, marker>>
workVars == <<at, job, tries>>
poolVars == <<had, todo, remaining, workVars, error, stopped>>
packageVars == <<release, diskVars, pc, result, cancelled, poolVars>>

Wanted == UniqueChunks(release)

Running == {w \in Workers : at[w] \in {"loop", "call", "fetch"}}
Spawned == {w \in Workers : at[w] # "off"}

\* Files of the package: "sealed" by preinstall_download; "legacy", of an
\* older program, without a snapshot; "migrated", a legacy one given its
\* snapshot before it is applied.
PackageTypeOK ==
  /\ release \in Releases
  /\ tag \in {"old", "new", "other"}
  /\ patch \in [Patches -> {"none", "partial", "good"}]
  /\ rotted \subseteq Patches
  /\ pkg \in {"none", "sealed", "legacy", "migrated"}
  /\ marker \in BOOLEAN
  /\ result \in {"none", "ok", "cancelled", "failed"}
  /\ cancelled \in BOOLEAN
  /\ had \subseteq Wanted /\ todo \subseteq Wanted
  /\ remaining \in 0 .. Cardinality(Patches)
  /\ at \in [Workers -> {"off", "loop", "call", "fetch", "over"}]
  /\ job \in [Workers -> Patches]
  /\ tries \in [Workers -> 0 .. Retries]
  /\ error \in BOOLEAN /\ stopped \in BOOLEAN

\* The memory of a process that runs no session.
Clear ==
  /\ had' = {} /\ todo' = {} /\ remaining' = 0
  /\ at' = [w \in Workers |-> "off"]
  /\ job' = [w \in Workers |-> CHOOSE p \in Patches : TRUE]
  /\ tries' = [w \in Workers |-> 0]
  /\ error' = FALSE /\ stopped' = FALSE

\* A legacy package was complete when it was written.
PackageInit ==
  /\ release \in Releases
  /\ tag = "old"
  /\ pkg \in {"none", "legacy"}
  /\ patch = [p \in Patches |-> IF pkg = "legacy" THEN "good" ELSE "none"]
  /\ rotted = {}
  /\ marker = (pkg = "legacy")
  /\ pc = "idle" /\ result = "none" /\ cancelled = FALSE
  /\ had = {} /\ todo = {} /\ remaining = 0
  /\ at = [w \in Workers |-> "off"]
  /\ job = [w \in Workers |-> CHOOSE p \in Patches : TRUE]
  /\ tries = [w \in Workers |-> 0]
  /\ error = FALSE /\ stopped = FALSE

Return(how) ==
  /\ pc' = "idle" /\ result' = how
  /\ Clear
-----------------------------------------------------------------------------
(***************************************************************************)
(* What may happen to a session and to the disk.                           *)
(***************************************************************************)
Cancel ==
  /\ "cancel" \in Mishaps
  /\ pc # "idle" /\ ~cancelled
  /\ cancelled' = TRUE
  /\ UNCHANGED <<release, diskVars, pc, result, poolVars>>

Downloading == {"download", "joined", "recheck", "write", "mark"}

\* A new chunk file is truncated before it is written.
Crash ==
  /\ "crash" \in Mishaps
  /\ pc # "idle"
  /\ Return("none")
  /\ UNCHANGED <<release, diskVars, cancelled>>

Rot(p) ==
  /\ "rot" \in Mishaps
  /\ pc = "idle" /\ patch[p] = "good"
  /\ patch' = [patch EXCEPT ![p] = "none"]
  /\ rotted' = rotted \cup {p}
  /\ UNCHANGED <<release, tag, pkg, marker, pc, result, cancelled, poolVars>>

\* Another program updates the game, but not while a package is applied.
Elsewhere ==
  /\ "elsewhere" \in Mishaps
  /\ pc \in Downloading \cup {"idle"} /\ tag = "old"
  /\ tag' = "other"
  /\ UNCHANGED <<release, patch, rotted, pkg, marker, pc, result, cancelled, poolVars>>
-----------------------------------------------------------------------------
(***************************************************************************)
(* The beginning: chunks on disk are checked by size and hash, the others  *)
(* are queued, and the first workers are spawned.  (The plan is built for  *)
(* the installed version, so there is one for "old" only.)                 *)
(***************************************************************************)
\* A scan that trusts the name of a chunk.
OnDisk_AnySize == {p \in Wanted : patch[p] \in {"partial", "good"}}

OnDisk == {p \in Wanted : patch[p] = "good"}

StartPreinstall ==
  /\ pc = "idle" /\ tag = "old"
  /\ had' = OnDisk
  /\ todo' = Wanted \ OnDisk
  /\ remaining' = Cardinality(Wanted \ OnDisk)
  /\ \E started \in SUBSET Workers :
       /\ Cardinality(started) \in {Initial, Cardinality(Wanted)}
       /\ Cardinality(started) <= Initial /\ Cardinality(started) <= Cardinality(Wanted)
       /\ at' = [w \in Workers |-> IF w \in started THEN "loop" ELSE "off"]
  /\ pc' = "download" /\ result' = "none" /\ cancelled' = FALSE
  /\ UNCHANGED <<release, diskVars, job, tries, error, stopped>>

\* The controller's target has grown, and the queue is longer than the pool.
Scale(w) ==
  /\ pc = "download" /\ Running # {}
  /\ at[w] = "off"
  /\ Cardinality(todo) > Cardinality(Spawned)
  /\ at' = [at EXCEPT ![w] = "loop"]
  /\ UNCHANGED <<release, diskVars, pc, result, cancelled, had, todo, remaining, job, tries,
                 error, stopped>>
-----------------------------------------------------------------------------
(***************************************************************************)
(* A worker.                                                               *)
(***************************************************************************)
Take(w) ==
  /\ at[w] = "loop"
  /\ ~cancelled /\ ~error
  /\ \E p \in todo :
       /\ todo' = todo \ {p}
       /\ job' = [job EXCEPT ![w] = p]
  /\ at' = [at EXCEPT ![w] = "call"]
  /\ tries' = [tries EXCEPT ![w] = 0]
  /\ UNCHANGED <<release, diskVars, pc, result, cancelled, had, remaining, error, stopped>>

Quit(w) ==
  /\ at[w] = "loop"
  /\ cancelled \/ error \/ todo = {}
  /\ at' = [at EXCEPT ![w] = "over"]
  /\ UNCHANGED <<release, diskVars, pc, result, cancelled, had, todo, remaining, job, tries,
                 error, stopped>>

\* A worker that leaves one chunk too early.
EndChunk_Early(w) ==
  /\ remaining' = remaining - 1
  /\ at' = [at EXCEPT ![w] = IF remaining <= 2 THEN "over" ELSE "loop"]
  /\ UNCHANGED <<release, tag, rotted, pkg, marker, pc, result, cancelled, todo, job, tries>>

\* The worker that accounts for the last chunk leaves at once.
EndChunk(w) ==
  /\ remaining' = remaining - 1
  /\ at' = [at EXCEPT ![w] = IF remaining = 1 THEN "over" ELSE "loop"]
  /\ UNCHANGED <<release, tag, rotted, pkg, marker, pc, result, cancelled, todo, job, tries>>

\* is_cancelled, wait_if_paused or the sleep before a retry.
Refused(w) ==
  /\ at[w] = "call" /\ cancelled
  /\ stopped' = TRUE
  /\ EndChunk(w)
  /\ UNCHANGED <<patch, had, error>>

\* File::create truncates what was there.
Create(w) ==
  /\ at[w] = "call" /\ ~cancelled
  /\ patch' = [patch EXCEPT ![job[w]] = "partial"]
  /\ at' = [at EXCEPT ![w] = "fetch"]
  /\ UNCHANGED <<release, tag, rotted, pkg, marker, pc, result, cancelled, had, todo, remaining,
                 job, tries, error, stopped>>

\* A failure of the request, of the stream (the file is removed) or of the
\* last flush (it is not).
LeftOver(w) ==
  IF at[w] = "call" THEN {patch[job[w]]} ELSE {"none", "partial"}

AttemptFails(w) ==
  /\ at[w] \in {"call", "fetch"} /\ "outage" \in Mishaps
  /\ at[w] = "call" => ~cancelled
  /\ \E left \in LeftOver(w) : patch' = [patch EXCEPT ![job[w]] = left]
  /\ \/ /\ tries[w] + 1 < Retries
        /\ tries' = [tries EXCEPT ![w] = @ + 1]
        /\ at' = [at EXCEPT ![w] = "call"]
        /\ UNCHANGED <<release, tag, rotted, pkg, marker, pc, result, cancelled, had, todo,
                       remaining, job, error, stopped>>
     \/ /\ error' = TRUE       \* the last one, or an error that is not retried
        /\ EndChunk(w)
        /\ UNCHANGED <<had, stopped>>

Interrupted(w) ==
  /\ at[w] = "fetch" /\ cancelled
  /\ patch' = [patch EXCEPT ![job[w]] = "none"]
  /\ stopped' = TRUE
  /\ EndChunk(w)
  /\ UNCHANGED <<had, error>>

\* Whole and with the right hash.
Delivered(w) ==
  /\ at[w] = "fetch"
  /\ patch' = [patch EXCEPT ![job[w]] = "good"]
  /\ had' = had \cup {job[w]}
  /\ EndChunk(w)
  /\ UNCHANGED <<error, stopped>>
-----------------------------------------------------------------------------
(***************************************************************************)
(* The end: workers joined, outcome settled, package sealed.               *)
(***************************************************************************)
Join ==
  /\ pc = "download" /\ Running = {}
  /\ pc' = "joined"
  /\ UNCHANGED <<release, diskVars, result, cancelled, poolVars>>

Conclude ==
  /\ pc = "joined"
  /\ IF cancelled \/ stopped THEN Return("cancelled")
     ELSE IF error \/ Cardinality(had) # Cardinality(Wanted) THEN Return("failed")
     ELSE pc' = "recheck" /\ UNCHANGED <<result, poolVars>>
  /\ UNCHANGED <<release, diskVars, cancelled>>

Recheck ==
  /\ pc = "recheck"
  /\ IF cancelled THEN Return("cancelled")
     ELSE IF tag # "old" \/ ~ValidSnapshot(release) THEN Return("failed")
     ELSE pc' = "write" /\ UNCHANGED <<result, poolVars>>
  /\ UNCHANGED <<release, diskVars, cancelled>>

\* save_preinstall_state: a temporary file, synced and renamed.
Write ==
  /\ pc = "write"
  /\ pkg' = "sealed"
  /\ pc' = "mark"
  /\ UNCHANGED <<release, tag, patch, rotted, marker, result, cancelled, poolVars>>

Mark ==
  /\ pc = "mark"
  /\ IF cancelled THEN Return("cancelled") /\ UNCHANGED marker
     ELSE Return("ok") /\ marker' = TRUE
  /\ UNCHANGED <<release, tag, patch, rotted, pkg, cancelled>>

WorkerStep(w) ==
  Take(w) \/ Quit(w) \/ Refused(w) \/ Create(w) \/ AttemptFails(w) \/ Interrupted(w) \/ Delivered(w)

PreinstallStep ==
  \/ \E w \in Workers : WorkerStep(w)
  \/ Join \/ Conclude \/ Recheck \/ Write \/ Mark

-----------------------------------------------------------------------------
(***************************************************************************)
(* While the state file of a package is there, each chunk it needs is      *)
(* there and whole ("The complete state is authoritative", preinstall.rs), *)
(* whatever sessions over the same directory were cancelled, failed or     *)
(* crashed before and after; a chunk removed by hand is the exception.     *)
(***************************************************************************)
PackageIsWhole == pkg # "none" => \A p \in Wanted \ rotted : patch[p] = "good"

(***************************************************************************)
(* When the workers are joined and none met an error or the cancellation,  *)
(* each chunk of the plan was verified: the pool never leaves a chunk in   *)
(* the queue, whatever the order in which its workers start and leave.     *)
(***************************************************************************)
NothingUnverified == (pc = "joined" /\ ~error /\ ~stopped /\ ~cancelled) => had = Wanted
=============================================================================
