--------------------------- MODULE InstallPipeline ---------------------------
(***************************************************************************)
(* game_installer/installer.rs and assembly.rs: one call of install(), in  *)
(* VerifyMode::Full, from build_download_state to its return.              *)
(*                                                                         *)
(* Download workers take items (one per distinct chunk name) from a queue, *)
(* store the chunk, and count down every file that waits for it; a file    *)
(* whose count reaches zero is sent to the assembly coordinator, which     *)
(* runs one blocking task per file.  A task reads the chunks of its file   *)
(* and releases them; the last release of a chunk deletes it.  A file none *)
(* of whose chunks is shared or reused from the old version is "eager":    *)
(* its chunks are written straight into the target and it is never sent.   *)
(* The user may pause, resume and cancel at any time (PauseGate).          *)
(*                                                                         *)
(* The order of the manifest is left open: items are taken, and slots read,*)
(* in any order.                                                           *)
(***************************************************************************)
EXTENDS Integers, Manifest

CONSTANTS
  Valid,          \* other files whose target is the new version already
  Cached,         \* valid chunk files left by an earlier session
  Workers,        \* the most download workers run_downloads spawns
  Concurrency,    \* ASSEMBLY_CONCURRENCY, the cap while downloads are active
  MaxTarget,      \* the highest target AdaptiveAssembly gives afterwards
  MayFail         \* what may go wrong: "register", "download", "assembly"

ASSUME SessionAssumption ==
  Valid \subseteq Files \ Completed /\ Cached \subseteq Chunks

ASSUME TargetAssumption ==
  Concurrency \in Nat \ {0} /\ MaxTarget \in Nat /\ Concurrency <= MaxTarget

VARIABLES
  state, gate,    \* the DownloadHandle, as PauseGate has it
  phase,          \* where install() is
  result,         \* what it returned
  ready,          \* the OnceLocks of the context are set
  queue,          \* items nobody took yet
  pc, item,       \* pc[w], item[w]: where download worker w is, and its item
  cancelled,      \* a worker ended an item with SophonError::Cancelled
  first_error,    \* a worker ended an item with another error
  slot,           \* slot[s]: how far the slot's life has come
  pending,        \* pending[f]: the pending_counts entry of f
  refs,           \* refs[c]: the chunk_refcounts entry (below 0: wrapped)
  stored,         \* chunks in the chunks directory, or (eager) in the target
  target,         \* target[f]: "stale" or "new"
  flags,          \* completion_flags
  assembled,      \* assembled_files
  chan,           \* files sent to the coordinator and not received yet
  coord,          \* where the coordinator is
  coord_err,      \* drain_join_set saw an error
  task,           \* task[f]: where the assembly task of f is
  token           \* assembly_cancel_token

handleVars == <<state, gate>>
mainVars == <<phase, result, ready>>
workerVars == <<queue, pc, item, cancelled, first_error>>
dataVars == <<slot, pending, refs, stored, target>>
doneVars == <<flags, assembled>>
coordVars == <<chan, coord, coord_err, task>>
vars == <<handleVars, mainVars, workerVars, dataVars, doneVars, coordVars, token>>

PG == INSTANCE PauseGate WITH Tasks <- Workers

None == "none"
-----------------------------------------------------------------------------
\* Is f the new version, through its assembly or through the eager path?
Installed(f) ==
  \/ target[f] = "new"
  \/ f \in EagerFiles /\ \A s \in SlotsOf(f) : NameOf[s] \in stored

(***************************************************************************)
(* slot: "none" (old, or of a completed file, or not registered yet),      *)
(* "pending" (its file waits for the chunk), "ready", "held" by the        *)
(* DecrementGuard of the task (or by its skip loop), "released".           *)
(***************************************************************************)
SlotStates == {"none", "pending", "ready", "held", "released"}
TaskSteps == {"none", "queued", "reading", "drop_ok", "drop_err", "ok", "err", "joined"}

InJoinSet == {f \in Files : task[f] \notin {"none", "joined"}}
Finished == {f \in Files : task[f] \in {"ok", "err"}}
Running == InJoinSet \ Finished

TypeOK ==
  /\ PG!TypeOK
  /\ phase \in {"register", "download", "finalize", "cancelling", "returned", "abandoned"}
  /\ result \in {"none", "ok", "cancelled", "failed", "incomplete"}
  /\ ready \in BOOLEAN
  /\ queue \subseteq {NameOf[s] : s \in Downloads}
  /\ pc \in [Workers -> {"unborn", "idle", "asking", "fetch", "notify", "done"}]
  /\ item \in [Workers -> Chunks \cup {None}]
  /\ cancelled \in BOOLEAN /\ first_error \in BOOLEAN
  /\ slot \in [Slots -> SlotStates]
  /\ pending \in [Files -> Int]
  /\ refs \in [Chunks -> Int]
  /\ stored \subseteq Chunks
  /\ target \in [Files -> {"stale", "new"}]
  /\ flags \in [Files -> BOOLEAN]
  /\ assembled \in Nat
  /\ chan \subseteq Files
  /\ coord \in {"spin", "fill", "check", "wait", "drain", "done"}
  /\ coord_err \in BOOLEAN
  /\ task \in [Files -> TaskSteps]
  /\ token \in BOOLEAN

Init ==
  /\ PG!Init
  /\ phase = "register" /\ result = "none" /\ ready = FALSE
  /\ queue = {}
  /\ pc = [w \in Workers |-> "unborn"]
  /\ item = [w \in Workers |-> None]
  /\ cancelled = FALSE /\ first_error = FALSE
  /\ slot = [s \in Slots |-> "none"]
  /\ pending = [f \in Files |-> 0]
  /\ refs = [c \in Chunks |-> 0]
  /\ stored = Cached \ EagerItems
  /\ target = [f \in Files |-> IF f \in Completed \cup Valid THEN "new" ELSE "stale"]
  /\ flags = [f \in Files |-> f \in Completed]
  /\ assembled = Cardinality(Completed)
  /\ chan = {} /\ coord = "spin" /\ coord_err = FALSE
  /\ task = [f \in Files |-> "none"]
  /\ token = FALSE
-----------------------------------------------------------------------------
(***************************************************************************)
(* The user.                                                               *)
(***************************************************************************)
Handle ==
  /\ PG!Pause \/ PG!Resume \/ PG!Cancel
  /\ UNCHANGED <<mainVars, workerVars, dataVars, doneVars, coordVars, token>>
-----------------------------------------------------------------------------
(***************************************************************************)
(* install(): registration.  Files that download nothing are sent at once. *)
(* run_downloads starts with at least one worker if there is an item.      *)
(***************************************************************************)
\* An install() that forgets one of the OnceLocks.
SetLocks_Forgotten == UNCHANGED ready
SetLocks == ready' = TRUE

Register ==
  /\ phase = "register"
  /\ phase' = "download"
  /\ SetLocks
  /\ slot' = [s \in Slots |-> IF s \in Downloads THEN "pending" ELSE "none"]
  /\ pending' = [f \in Files |-> Cardinality(SlotsOf(f) \cap Downloads)]
  /\ refs' = [c \in Chunks |-> Cardinality(Uses(c))]
  /\ queue' = Items
  /\ chan' = ReadyFiles
  /\ \E initial \in SUBSET Workers :
       /\ initial = {} <=> Items = {}
       /\ pc' = [w \in Workers |-> IF w \in initial THEN "idle" ELSE "unborn"]
  /\ UNCHANGED <<handleVars, result, item, cancelled, first_error, stored, target,
                 doneVars, coord, coord_err, task, token>>

\* build_download_state(..).await? fails: install() returns as it is, neither
\* sets the OnceLocks nor cancels the token, and leaves the coordinator behind.
RegisterFails ==
  /\ phase = "register"
  /\ "register" \in MayFail
  /\ phase' = "abandoned" /\ result' = "failed"
  /\ UNCHANGED <<handleVars, ready, workerVars, dataVars, doneVars, coordVars, token>>
-----------------------------------------------------------------------------
(***************************************************************************)
(* The download workers.                                                   *)
(***************************************************************************)
Live == {w \in Workers : pc[w] \notin {"unborn", "done"}}

\* The periodic measurement adds a worker while there is work in the queue.
SpawnWorker(w) ==
  /\ phase = "download"
  /\ pc[w] = "unborn" /\ Live # {} /\ queue # {}
  /\ pc' = [pc EXCEPT ![w] = "idle"]
  /\ UNCHANGED <<handleVars, mainVars, queue, item, cancelled, first_error, dataVars,
                 doneVars, coordVars, token>>

(***************************************************************************)
(* The top of the worker's loop.  A cancelled operation ends the worker    *)
(* here and `cancelled' stays as it is.  (remaining reaches zero only with *)
(* the queue empty, so its break is this exit too.)                        *)
(***************************************************************************)
Quit(w) ==
  /\ pc[w] = "idle"
  /\ state = "CANCELLED" \/ queue = {}
  /\ pc' = [pc EXCEPT ![w] = "done"]
  /\ UNCHANGED <<handleVars, mainVars, queue, item, cancelled, first_error, dataVars,
                 doneVars, coordVars, token>>

Take(w) ==
  /\ pc[w] = "idle"
  /\ state # "CANCELLED"
  /\ \E c \in queue :
       /\ queue' = queue \ {c}
       /\ item' = [item EXCEPT ![w] = c]
  /\ pc' = [pc EXCEPT ![w] = "asking"]
  /\ PG!Ask(w)
  /\ UNCHANGED <<mainVars, cancelled, first_error, dataVars, doneVars, coordVars, token>>

Pass(w) ==
  /\ PG!Pass(w)
  /\ pc' = [pc EXCEPT ![w] = "fetch"]
  /\ UNCHANGED <<mainVars, queue, item, cancelled, first_error, dataVars, doneVars,
                 coordVars, token>>

\* The item is over; the worker goes on with the next one, also after an error.
NextItem(w) ==
  /\ pc' = [pc EXCEPT ![w] = "idle"]
  /\ item' = [item EXCEPT ![w] = None]
  /\ UNCHANGED <<queue, mainVars, dataVars, doneVars, coordVars, token>>

Refuse(w) ==
  /\ PG!Refuse(w)
  /\ cancelled' = TRUE
  /\ NextItem(w)
  /\ UNCHANGED first_error

\* is_cancelled() is read before and between the attempts; the request may
\* also finish before anybody looks.
FetchCancelled(w) ==
  /\ pc[w] = "fetch"
  /\ state = "CANCELLED"
  /\ cancelled' = TRUE
  /\ NextItem(w)
  /\ UNCHANGED <<handleVars, first_error>>

FetchFails(w) ==
  /\ pc[w] = "fetch"
  /\ "download" \in MayFail
  /\ first_error' = TRUE
  /\ NextItem(w)
  /\ UNCHANGED <<handleVars, cancelled>>

\* The chunk is verified (or was cached and is valid) and in its place.
Fetch(w) ==
  /\ pc[w] = "fetch"
  /\ stored' = stored \cup {item[w]}
  /\ pc' = [pc EXCEPT ![w] = "notify"]
  /\ UNCHANGED <<handleVars, mainVars, queue, item, cancelled, first_error, slot, pending,
                 refs, target, doneVars, coordVars, token>>

(***************************************************************************)
(* notify_assembly_ready and notify_eager_file_complete: one fetch_sub per *)
(* slot of the item; whoever brings the count to zero sends the file, or   *)
(* marks it done if the item is eager.                                     *)
(***************************************************************************)
Notify(w, s) ==
  LET f == FileOf[s] IN
  /\ pc[w] = "notify"
  /\ NameOf[s] = item[w] /\ slot[s] = "pending"
  /\ slot' = [slot EXCEPT ![s] = "ready"]
  /\ pending' = [pending EXCEPT ![f] = @ - 1]
  /\ \/ /\ pending[f] # 1
        /\ UNCHANGED <<doneVars, chan>>
     \/ /\ pending[f] = 1 /\ item[w] \notin EagerItems
        /\ chan' = chan \cup {f}
        /\ UNCHANGED doneVars
     \/ /\ pending[f] = 1 /\ item[w] \in EagerItems
        /\ flags' = [flags EXCEPT ![f] = TRUE]
        /\ assembled' = assembled + 1
        /\ UNCHANGED chan
  /\ UNCHANGED <<handleVars, mainVars, workerVars, refs, stored, target, coord, coord_err,
                 task, token>>

EndItem(w) ==
  /\ pc[w] = "notify"
  /\ \A s \in Uses(item[w]) : slot[s] # "pending"
  /\ NextItem(w)
  /\ UNCHANGED <<handleVars, cancelled, first_error>>

Worker(w) ==
  \/ Quit(w) \/ Take(w) \/ Pass(w) \/ Refuse(w)
  \/ FetchCancelled(w) \/ FetchFails(w) \/ Fetch(w)
  \/ \E s \in Slots : Notify(w, s)
  \/ EndItem(w)
-----------------------------------------------------------------------------
(***************************************************************************)
(* The assembly tasks: run_assembly_task and assemble_file.                *)
(***************************************************************************)
StepTask(f, step) == task' = [task EXCEPT ![f] = step]

\* Claimed before, or the target is valid: every slot of the file, reused
\* ones included, is released.
ClaimSkip(f) ==
  /\ task[f] = "queued"
  /\ flags[f] \/ target[f] = "new"
  /\ flags' = [flags EXCEPT ![f] = TRUE]
  /\ slot' = [s \in Slots |-> IF FileOf[s] = f THEN "held" ELSE slot[s]]
  /\ StepTask(f, "drop_ok")
  /\ UNCHANGED <<handleVars, mainVars, workerVars, pending, refs, stored, target,
                 assembled, chan, coord, coord_err, token>>

Claim(f) ==
  /\ task[f] = "queued"
  /\ ~flags[f] /\ target[f] # "new"
  /\ flags' = [flags EXCEPT ![f] = TRUE]
  /\ StepTask(f, "reading")
  /\ UNCHANGED <<handleVars, mainVars, workerVars, dataVars, assembled, chan, coord,
                 coord_err, token>>

ReadChunk(s) ==
  /\ task[FileOf[s]] = "reading"
  /\ slot[s] = "ready"
  /\ NameOf[s] \in stored
  /\ slot' = [slot EXCEPT ![s] = "held"]
  /\ UNCHANGED <<handleVars, mainVars, workerVars, pending, refs, stored, target,
                 doneVars, coordVars, token>>

\* A chunk file is missing, or any other error of assemble_file.
AssemblyFails(f) ==
  /\ task[f] = "reading"
  /\ \/ "assembly" \in MayFail
     \/ \E s \in SlotsOf(f) : slot[s] = "ready" /\ NameOf[s] \notin stored
  /\ StepTask(f, "drop_err")
  /\ UNCHANGED <<handleVars, mainVars, workerVars, dataVars, doneVars, chan, coord,
                 coord_err, token>>

\* An assemble_file that releases its chunks itself and by its guard.
Rename_Releases(f) ==
  /\ task[f] = "reading"
  /\ \A s \in SlotsOf(f) : slot[s] # "ready"
  /\ target' = [target EXCEPT ![f] = "new"]
  /\ refs' = [c \in Chunks |-> refs[c] - Cardinality(Uses(c) \cap SlotsOf(f))]
  /\ StepTask(f, "drop_ok")
  /\ UNCHANGED <<handleVars, mainVars, workerVars, slot, pending, stored, doneVars,
                 chan, coord, coord_err, token>>

\* Everything is written and verified: the temporary file replaces the target.
Rename(f) ==
  /\ task[f] = "reading"
  /\ \A s \in SlotsOf(f) : slot[s] # "ready"
  /\ target' = [target EXCEPT ![f] = "new"]
  /\ StepTask(f, "drop_ok")
  /\ UNCHANGED <<handleVars, mainVars, workerVars, slot, pending, refs, stored, doneVars,
                 chan, coord, coord_err, token>>

\* The last but one consumer deletes the chunk.
Release_Early(s) ==
  /\ task[FileOf[s]] \in {"drop_ok", "drop_err"}
  /\ slot[s] = "held"
  /\ slot' = [slot EXCEPT ![s] = "released"]
  /\ refs' = [refs EXCEPT ![NameOf[s]] = @ - 1]
  /\ stored' = IF refs[NameOf[s]] = 2 THEN stored \ {NameOf[s]} ELSE stored
  /\ UNCHANGED <<handleVars, mainVars, workerVars, pending, target, doneVars, coordVars,
                 token>>

\* The count is compared after the subtraction: nobody deletes the chunk.
Release_Late(s) ==
  /\ task[FileOf[s]] \in {"drop_ok", "drop_err"}
  /\ slot[s] = "held"
  /\ slot' = [slot EXCEPT ![s] = "released"]
  /\ refs' = [refs EXCEPT ![NameOf[s]] = @ - 1]
  /\ stored' = IF refs[NameOf[s]] = 0 THEN stored \ {NameOf[s]} ELSE stored
  /\ UNCHANGED <<handleVars, mainVars, workerVars, pending, target, doneVars, coordVars,
                 token>>

\* decrement_chunk_refcount; a name that is no item is ignored, and an eager
\* item has no file in the chunks directory to delete.
Release(s) ==
  LET c == NameOf[s] IN
  /\ task[FileOf[s]] \in {"drop_ok", "drop_err"}
  /\ slot[s] = "held"
  /\ slot' = [slot EXCEPT ![s] = "released"]
  /\ refs' = [refs EXCEPT ![c] = IF c \in Items THEN @ - 1 ELSE @]
  /\ stored' = IF refs[c] = 1 THEN stored \ ({c} \ EagerItems) ELSE stored
  /\ UNCHANGED <<handleVars, mainVars, workerVars, pending, target, doneVars, coordVars,
                 token>>

\* The guard is empty: count the file, or give the claim back.
EndTask(f) ==
  /\ \A s \in SlotsOf(f) : slot[s] # "held"
  /\ \/ /\ task[f] = "drop_ok"
        /\ assembled' = assembled + 1
        /\ StepTask(f, "ok")
        /\ UNCHANGED flags
     \/ /\ task[f] = "drop_err"
        /\ flags' = [flags EXCEPT ![f] = FALSE]
        /\ StepTask(f, "err")
        /\ UNCHANGED assembled
  /\ UNCHANGED <<handleVars, mainVars, workerVars, dataVars, chan, coord, coord_err, token>>

Task(f) ==
  \/ ClaimSkip(f) \/ Claim(f)
  \/ \E s \in SlotsOf(f) : ReadChunk(s) \/ Release(s)
  \/ AssemblyFails(f) \/ Rename(f) \/ EndTask(f)
-----------------------------------------------------------------------------
(***************************************************************************)
(* The assembly coordinator.  Every sender is gone once run_downloads and  *)
(* install() dropped theirs.                                               *)
(***************************************************************************)
Disconnected == phase \notin {"register", "download"}

\* AdaptiveAssembly::current_target
Targets == IF Disconnected THEN Concurrency .. MaxTarget ELSE {Concurrency}

CoordFrame == UNCHANGED <<handleVars, mainVars, workerVars, dataVars, doneVars, token>>

EndSpin ==
  /\ coord = "spin" /\ ready
  /\ coord' = "fill"
  /\ UNCHANGED <<chan, coord_err, task>> /\ CoordFrame

Spawn(f) ==
  /\ chan' = chan \ {f}
  /\ StepTask(f, "queued")
  /\ UNCHANGED coord_err /\ CoordFrame

Fill(f) ==
  /\ coord = "fill"
  /\ f \in chan
  /\ \E limit \in Targets : Cardinality(InJoinSet) < limit
  /\ UNCHANGED coord
  /\ Spawn(f)

\* The fill loop ends: nothing to receive, or the limit is reached.
EndFill ==
  /\ coord = "fill"
  /\ \/ /\ chan = {} \/ \E limit \in Targets : Cardinality(InJoinSet) >= limit
        /\ ~(chan = {} /\ Disconnected)
        /\ coord' = "check"
     \/ /\ chan = {} /\ Disconnected
        /\ coord' = "drain"
  /\ UNCHANGED <<chan, coord_err, task>> /\ CoordFrame

\* try_join_next: an error is logged and forgotten.
TryJoin(f) ==
  /\ coord = "check"
  /\ f \in Finished
  /\ StepTask(f, "joined")
  /\ coord' = "fill"
  /\ UNCHANGED <<chan, coord_err>> /\ CoordFrame

NothingToJoin ==
  /\ coord = "check"
  /\ Finished = {}
  /\ coord' = "wait"
  /\ UNCHANGED <<chan, coord_err, task>> /\ CoordFrame

\* The biased select: cancelled, then a message, then a finished task.
SelectCancelled ==
  /\ coord = "wait" /\ token
  /\ coord' = "drain"
  /\ UNCHANGED <<chan, coord_err, task>> /\ CoordFrame

SelectMessage(f) ==
  /\ coord = "wait" /\ ~token
  /\ f \in chan
  /\ coord' = "fill"
  /\ Spawn(f)

SelectClosed ==
  /\ coord = "wait" /\ ~token
  /\ chan = {} /\ Disconnected
  /\ coord' = "drain"
  /\ UNCHANGED <<chan, coord_err, task>> /\ CoordFrame

SelectJoin(f) ==
  /\ coord = "wait" /\ ~token
  /\ chan = {} /\ ~Disconnected
  /\ f \in Finished
  /\ StepTask(f, "joined")
  /\ coord' = "fill"
  /\ UNCHANGED <<chan, coord_err>> /\ CoordFrame

\* drain_join_set
Drain(f) ==
  /\ coord = "drain"
  /\ f \in Finished
  /\ coord_err' = (coord_err \/ task[f] = "err")
  /\ StepTask(f, "joined")
  /\ UNCHANGED <<chan, coord>> /\ CoordFrame

EndDrain ==
  /\ coord = "drain"
  /\ InJoinSet = {}
  /\ coord' = "done"
  /\ UNCHANGED <<chan, coord_err, task>> /\ CoordFrame

Coordinator ==
  \/ EndSpin \/ EndFill \/ NothingToJoin
  \/ SelectCancelled \/ SelectClosed \/ EndDrain
  \/ \E f \in Files : Fill(f) \/ TryJoin(f) \/ SelectMessage(f) \/ SelectJoin(f) \/ Drain(f)
-----------------------------------------------------------------------------
(***************************************************************************)
(* install(): the end of run_downloads and finalize_install.               *)
(***************************************************************************)
DownloadsEnd ==
  /\ phase = "download"
  /\ Live = {}
  /\ phase' = "finalize"
  /\ UNCHANGED <<handleVars, result, ready, workerVars, dataVars, doneVars, coordVars, token>>

StopAssembly ==
  /\ phase = "finalize"
  /\ cancelled
  /\ token' = TRUE
  /\ phase' = "cancelling"
  /\ UNCHANGED <<handleVars, result, ready, workerVars, dataVars, doneVars, coordVars>>

\* A cancellation that does not wait for the assembly it stops.
ReturnCancelled_Hasty ==
  /\ phase = "cancelling"
  /\ stored' = stored \cap EagerItems
  /\ phase' = "returned" /\ result' = "cancelled"
  /\ UNCHANGED <<handleVars, ready, workerVars, slot, pending, refs, target, doneVars,
                 coordVars, token>>

\* The chunks directory goes; what eager items wrote stays in the targets.
ReturnCancelled ==
  /\ phase = "cancelling"
  /\ coord = "done"
  /\ stored' = stored \cap EagerItems
  /\ phase' = "returned" /\ result' = "cancelled"
  /\ UNCHANGED <<handleVars, ready, workerVars, slot, pending, refs, target, doneVars,
                 coordVars, token>>

\* The first download error is returned with the coordinator still at work.
ReturnFirstError ==
  /\ phase = "finalize"
  /\ ~cancelled /\ first_error
  /\ token' = TRUE
  /\ phase' = "returned" /\ result' = "failed"
  /\ UNCHANGED <<handleVars, ready, workerVars, dataVars, doneVars, coordVars>>

\* Assembly errors that were only logged go unnoticed.
ReturnAssembled_Unchecked ==
  /\ phase = "finalize"
  /\ ~cancelled /\ ~first_error
  /\ coord = "done"
  /\ result' = IF coord_err THEN "failed" ELSE "ok"
  /\ token' = TRUE
  /\ phase' = "returned"
  /\ UNCHANGED <<handleVars, ready, workerVars, dataVars, doneVars, coordVars>>

\* The counters are compared before the assembly is awaited.
ReturnAssembled_Hasty ==
  /\ phase = "finalize"
  /\ ~cancelled /\ ~first_error
  /\ result' = IF assembled # Cardinality(Files) THEN "incomplete" ELSE "ok"
  /\ token' = TRUE
  /\ phase' = "returned"
  /\ UNCHANGED <<handleVars, ready, workerVars, dataVars, doneVars, coordVars>>

ReturnAssembled ==
  /\ phase = "finalize"
  /\ ~cancelled /\ ~first_error
  /\ coord = "done"
  /\ result' = IF coord_err THEN "failed"
               ELSE IF assembled # Cardinality(Files) THEN "incomplete" ELSE "ok"
  /\ token' = TRUE
  /\ phase' = "returned"
  /\ UNCHANGED <<handleVars, ready, workerVars, dataVars, doneVars, coordVars>>

Main ==
  \/ Register \/ RegisterFails
  \/ DownloadsEnd \/ StopAssembly
  \/ ReturnCancelled \/ ReturnFirstError \/ ReturnAssembled

Next ==
  \/ Handle
  \/ Main
  \/ \E w \in Workers : SpawnWorker(w) \/ Worker(w)
  \/ \E f \in Files : Task(f)
  \/ Coordinator

(***************************************************************************)
(* Every task of the runtime and every blocking thread is scheduled, and   *)
(* its calls return: requests have a time limit, retries are bounded.  The *)
(* user need not do anything.                                              *)
(***************************************************************************)
Fairness ==
  /\ WF_vars(Main)
  /\ \A w \in Workers : WF_vars(Worker(w))
  /\ \A f \in Files : WF_vars(Task(f))
  /\ WF_vars(Coordinator)

Spec == Init /\ [][Next]_vars
FairSpec == Spec /\ Fairness
-----------------------------------------------------------------------------
(***************************************************************************)
(* No task ever misses a chunk that was stored for it: what a file still   *)
(* has to read stays until it has read it, however the tasks of the other  *)
(* files end and whatever cancellation clears away.                        *)
(***************************************************************************)
ChunkKept ==
  \A s \in Downloads :
    (task[FileOf[s]] \in {"queued", "reading"} /\ slot[s] \in {"pending", "ready"})
      => NameOf[s] \in stored

(***************************************************************************)
(* The three counters are exact, whatever the interleaving: refs[c] is the *)
(* number of slots not released, pending[f] the number of chunks f waits   *)
(* for, assembled the number of files whose claim was kept to the end.     *)
(***************************************************************************)
CountersExact ==
  /\ assembled = Cardinality({f \in Files : flags[f] /\ f \notin Running})
  /\ ready =>
    /\ \A c \in Chunks : refs[c] = Cardinality({s \in Uses(c) : slot[s] # "released"})
    /\ \A f \in Files :
         pending[f] = Cardinality({s \in SlotsOf(f) : slot[s] = "pending"})

(***************************************************************************)
(* install() returns Ok only when every file of the manifest is the new    *)
(* version, through the eager path or through assembly.                    *)
(***************************************************************************)
OkMeansInstalled == result = "ok" => \A f \in Files : Installed(f)

(***************************************************************************)
(* When install() reports the cancellation nothing of it runs any more:    *)
(* the coordinator and its tasks have ended before the chunks directory    *)
(* went, and no chunk is left.                                             *)
(***************************************************************************)
CancelledIsQuiet ==
  result = "cancelled" =>
    /\ coord = "done" /\ Running = {}
    /\ Live = {}
    /\ stored \subseteq EagerItems

(***************************************************************************)
(* Chunks do not outlive their use: once install() returned Ok every file  *)
(* of the chunks directory that an item of this session used is gone.      *)
(***************************************************************************)
OkLeavesNoChunk == result = "ok" => stored \cap (Items \ EagerItems) = {}

(***************************************************************************)
(* The pipeline implements InstallContract: exactly the files whose target *)
(* is complete count as installed, and a call that is not left paused      *)
(* returns.                                                                *)
(***************************************************************************)
IC == INSTANCE InstallContract WITH installed <- {f \in Files : Installed(f)}

KeepsContract == IC!Spec

(***************************************************************************)
(* Once install() has returned, with whatever result, the coordinator and  *)
(* its tasks come to an end - unless registration failed: that return      *)
(* abandons a coordinator that waits for the OnceLocks ("files with 0      *)
(* downloadable chunks can arrive on the channel before                    *)
(* build_download_state sets these values", installer.rs), for good.       *)
(***************************************************************************)
AssemblyEnds == result # "none" ~> (coord = "done" \/ phase = "abandoned")

=============================================================================
