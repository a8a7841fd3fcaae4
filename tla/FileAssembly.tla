---------------------------- MODULE FileAssembly ----------------------------
(***************************************************************************)
(* assemble_file (assembly.rs): one file is written into a temporary file  *)
(* from its chunks, and from the file it replaces, and renamed over it.    *)
(*                                                                         *)
(* A file of four chunks or more is written by up to four threads, while   *)
(* another one hashes, through a shared mapping, what they have written:   *)
(* they talk through one flag a chunk (chunk_done) and one for an error    *)
(* (has_error).  Other files share the chunks and release them meanwhile.  *)
(***************************************************************************)
EXTENDS Naturals, FiniteSets

CONSTANTS
  N,              \* chunks of the file
  Name,           \* chunk_name of each
  Rest            \* occurrences of each name in other files

Chunks == 1 .. N
Names == {Name[i] : i \in Chunks}

ASSUME AssemblyAssumption ==
  /\ N \in Nat \ {0}
  /\ DOMAIN Name = Chunks
  /\ Rest \in [Names -> Nat]

VARIABLES
  file,           \* the file in the manifest, and how it is to be verified
  data,           \* what the source of each chunk gives
  stage, result,
  target,         \* the destination
  tmp,            \* the temporary file, by chunk
  worker,         \* the threads that write
  done,           \* chunk_done
  downloaded,     \* downloaded_chunks, the DecrementGuard of the other path
  error,          \* has_error, with first_error
  hasher,         \* the thread, or the place in the loop, that hashes
  counts, cached, \* chunk_refcounts, and the chunk files that are there
  rest            \* occurrences other files have not released

vars == <<file, data, stage, result, target, tmp, worker, done, downloaded, error, hasher,
          counts, cached, rest>>

Modes == {"Full", "Deferred", "None"}

(***************************************************************************)
(* file.old: the chunks with an old offset.  file.hashed: those with a     *)
(* hash of their own.  file.threads: available_parallelism, at most four.  *)
(* file.crosses: temporary files are on another device.                    *)
(***************************************************************************)
FileKinds ==
  [mode : Modes, hash : BOOLEAN, hashed : SUBSET Chunks, old : SUBSET Chunks,
   threads : 1 .. 4, crosses : BOOLEAN]

\* "wrong" has the right length; "bad" is missing, short, or does not decode.
Sources == {"right", "wrong", "bad"}

Own(n) == {i \in Chunks \ file.old : Name[i] = n}

AllHashed == file.hashed = Chunks
Parallelize == file.threads > 1 /\ N >= 4 /\ (AllHashed \/ file.hash)

\* file_hasher and parallel_hashed_file.
HashesInline ==
  ~Parallelize /\ file.hash /\ (file.mode = "Deferred" \/ (file.mode = "Full" /\ ~AllHashed))
HashesBeside == Parallelize /\ file.hash /\ (~AllHashed \/ file.mode = "Deferred")

\* skip_chunk_hash is for the modes that are not Full.
ChecksChunk(i) == file.mode = "Full" /\ i \in file.hashed

Workers == 0 .. file.threads - 1
Share(w) == IF Parallelize THEN {i \in Chunks : (i - 1) % file.threads = w}
            ELSE IF w = 0 THEN Chunks ELSE {}
Off == [at |-> 0, st |-> "off"]

Init ==
  /\ file \in FileKinds
  /\ data \in [Chunks -> Sources]
  /\ \A i, j \in Chunks \ file.old : Name[i] = Name[j] => data[i] = data[j]
  /\ stage = "start" /\ result = "none" /\ target \in {"original", "missing"}
  /\ tmp = [i \in Chunks |-> "none"]
  /\ worker = [w \in 0 .. 3 |-> Off]
  /\ done = {} /\ downloaded = {} /\ error = FALSE
  /\ hasher = [st |-> "off", at |-> 1, digest |-> "right"]
  /\ rest = Rest
  /\ counts = [n \in Names |-> Rest[n] + Cardinality(Own(n))]
  /\ cached = Names
-----------------------------------------------------------------------------
(***************************************************************************)
(* The end: the guard gives back every chunk that was read, and the last   *)
(* consumer of a chunk removes it (decrement_chunk_refcount).              *)
(***************************************************************************)
\* Every name once, however often the file has it.
Used_Once(n) == IF \E i \in downloaded : Name[i] = n THEN 1 ELSE 0

Used(n) == Cardinality({i \in downloaded : Name[i] = n})

Return(how) ==
  /\ stage' = "returned" /\ result' = how
  /\ counts' = [n \in Names |-> counts[n] - Used(n)]
  /\ cached' = cached \ {n \in Names : Used(n) > 0 /\ counts[n] = Used(n)}
  /\ UNCHANGED <<file, data, worker, done, downloaded, error, hasher, rest>>

\* The temporary file is removed with most errors, and left with some.
Fail(removed) ==
  /\ Return("err")
  /\ tmp' = IF removed THEN [i \in Chunks |-> "none"] ELSE tmp

(***************************************************************************)
(* The file is created at its full size; a file whose chunks do not add up *)
(* to it, or whose old file is gone, ends here.                            *)
(***************************************************************************)
Begin ==
  /\ stage = "start"
  /\ tmp' = [i \in Chunks |-> "hole"]
  /\ IF file.old # {} /\ target = "missing"
       THEN Return("err") /\ UNCHANGED target
       ELSE /\ stage' = "write"
            /\ worker' = [w \in 0 .. 3 |->
                            IF w \in Workers /\ Share(w) # {} THEN [at |-> 0, st |-> "next"] ELSE Off]
            /\ hasher' = [hasher EXCEPT !.st = IF HashesBeside THEN "open"
                                               ELSE IF HashesInline THEN "inline" ELSE "off"]
            /\ UNCHANGED <<file, data, result, target, done, downloaded, error, counts, cached, rest>>

BeginFails ==
  /\ stage = "start"
  /\ Fail(FALSE)
  /\ UNCHANGED target
-----------------------------------------------------------------------------
(***************************************************************************)
(* The threads that write.                                                 *)
(***************************************************************************)
Waits(w) == stage = "write" /\ worker[w].st = "next"
Todo(w) == {i \in Share(w) : i > worker[w].at}

StopsHere(w) ==
  /\ Waits(w) /\ (error \/ Todo(w) = {})
  /\ worker' = [worker EXCEPT ![w] = Off]
  /\ UNCHANGED <<file, data, stage, result, target, tmp, done, downloaded, error, hasher, counts, cached, rest>>

\* Bytes arrive in the file one by one.
StartsChunk(w) ==
  /\ Waits(w) /\ ~error
  /\ \E i \in Todo(w) :
       /\ \A j \in Todo(w) : i <= j
       /\ worker' = [worker EXCEPT ![w] = [at |-> i, st |-> "write"]]
       /\ tmp' = [tmp EXCEPT ![i] = "torn"]
  /\ UNCHANGED <<file, data, stage, result, target, done, downloaded, error, hasher, counts, cached, rest>>

\* Its hash is compared with the manifest's, when it has one and this is asked for.
Accepts(i) == data[i] = "right" \/ (data[i] = "wrong" /\ ~ChecksChunk(i))

EndsChunk(w) ==
  LET i == worker[w].at IN
  /\ stage = "write" /\ worker[w].st = "write"
  /\ Accepts(i)
  /\ tmp' = [tmp EXCEPT ![i] = data[i]]
  /\ done' = done \cup {i}
  /\ downloaded' = IF i \in file.old THEN downloaded ELSE downloaded \cup {i}
  /\ worker' = [worker EXCEPT ![w].st = "next"]
  /\ hasher' = IF hasher.st = "inline" /\ data[i] # "right" THEN [hasher EXCEPT !.digest = "wrong"]
               ELSE hasher
  /\ UNCHANGED <<file, data, stage, result, target, error, counts, cached, rest>>

\* An error that does not tell the other threads.
ChunkFails_Quiet(w) ==
  /\ stage = "write" /\ worker[w].st = "write"
  /\ worker' = [worker EXCEPT ![w].st = "next"]
  /\ UNCHANGED <<file, data, stage, result, target, tmp, error, done, downloaded, hasher, counts, cached, rest>>

\* Also an I/O error of any other kind.
ChunkFails(w) ==
  /\ stage = "write" /\ worker[w].st = "write"
  /\ error' = TRUE
  /\ worker' = [worker EXCEPT ![w].st = "next"]
  /\ UNCHANGED <<file, data, stage, result, target, tmp, done, downloaded, hasher, counts, cached, rest>>

-----------------------------------------------------------------------------
(***************************************************************************)
(* The thread that hashes: it waits for the flag of each chunk in turn.    *)
(***************************************************************************)
HasherOpens ==
  /\ stage = "write" /\ hasher.st = "open"
  /\ hasher' \in {[hasher EXCEPT !.st = s] : s \in {"wait", "failed"}}
  /\ UNCHANGED <<file, data, stage, result, target, tmp, worker, done, downloaded, error, counts, cached, rest>>

HasherStops ==
  /\ stage = "write" /\ hasher.st = "wait" /\ hasher.at <= N /\ error
  /\ hasher' = [hasher EXCEPT !.st = "gone"]
  /\ UNCHANGED <<file, data, stage, result, target, tmp, worker, done, downloaded, error, counts, cached, rest>>

HasherHashes ==
  /\ stage = "write" /\ hasher.st = "wait" /\ hasher.at \in done
  /\ hasher' = [hasher EXCEPT
                  !.at = hasher.at + 1,
                  !.digest = IF tmp[hasher.at] = "right" THEN hasher.digest ELSE "wrong"]
  /\ UNCHANGED <<file, data, stage, result, target, tmp, worker, done, downloaded, error, counts, cached, rest>>

HasherEnds ==
  /\ stage = "write" /\ hasher.st = "wait" /\ hasher.at > N
  /\ hasher' = [hasher EXCEPT !.st = "ended"]
  /\ UNCHANGED <<file, data, stage, result, target, tmp, worker, done, downloaded, error, counts, cached, rest>>
-----------------------------------------------------------------------------
(***************************************************************************)
(* The scope joins its threads; then the file is synced, its hash looked   *)
(* at and the file renamed.                                                *)
(***************************************************************************)
Quiet == (\A w \in 0 .. 3 : worker[w] = Off) /\ hasher.st \notin {"open", "wait"}

Join ==
  /\ stage = "write" /\ Quiet
  /\ IF error
       THEN Fail(TRUE) /\ UNCHANGED target
       ELSE /\ stage' = "sync"
            /\ UNCHANGED <<file, data, result, target, tmp, worker, done, downloaded, error, hasher,
                           counts, cached, rest>>

\* The hash of the thread is not looked at.
Mismatch_Inline == hasher.st = "inline" /\ hasher.digest = "wrong"

Mismatch == hasher.st = "failed" \/ (hasher.st \in {"ended", "inline"} /\ hasher.digest = "wrong")

Sync ==
  /\ stage = "sync"
  /\ IF Mismatch
       THEN Fail(TRUE) /\ UNCHANGED target
       ELSE /\ stage' = "rename"
            /\ UNCHANGED <<file, data, result, target, tmp, worker, done, downloaded, error, hasher,
                           counts, cached, rest>>

SyncFails == stage = "sync" /\ Fail(TRUE) /\ UNCHANGED target

Content == IF \A i \in Chunks : tmp[i] = "right" THEN "whole"
           ELSE IF \E i \in Chunks : tmp[i] \notin Sources THEN "holes" ELSE "other"

Rename ==
  /\ stage = "rename" /\ ~file.crosses
  /\ target' = Content
  /\ tmp' = [i \in Chunks |-> "none"]
  /\ Return("ok")

RenameFails == stage = "rename" /\ Fail(TRUE) /\ UNCHANGED target

\* The destination is overwritten also where it could be renamed over.
StartCopy_Always ==
  /\ stage = "rename"
  /\ stage' = "copy"
  /\ target' = "torn"
  /\ UNCHANGED <<file, data, result, tmp, worker, done, downloaded, error, hasher, counts, cached, rest>>

\* Over devices the file is copied, and the copy overwrites the target.
StartCopy ==
  /\ stage = "rename" /\ file.crosses
  /\ stage' = "copy"
  /\ target' = "torn"
  /\ UNCHANGED <<file, data, result, tmp, worker, done, downloaded, error, hasher, counts, cached, rest>>

EndCopy ==
  /\ stage = "copy"
  /\ target' = Content
  /\ tmp' = [i \in Chunks |-> "none"]
  /\ Return("ok")

\* Or the sync after it.
CopyFails == stage = "copy" /\ Fail(FALSE) /\ target' \in {target, Content}
-----------------------------------------------------------------------------
\* Another file is assembled, or does without the chunk.
OtherReleases(n) ==
  /\ rest[n] > 0
  /\ rest' = [rest EXCEPT ![n] = @ - 1]
  /\ counts' = [counts EXCEPT ![n] = @ - 1]
  /\ cached' = IF counts[n] = 1 THEN cached \ {n} ELSE cached
  /\ UNCHANGED <<file, data, stage, result, target, tmp, worker, done, downloaded, error, hasher>>

Thread(w) == StopsHere(w) \/ StartsChunk(w) \/ EndsChunk(w) \/ ChunkFails(w)
Hasher == HasherOpens \/ HasherStops \/ HasherHashes \/ HasherEnds
Task ==
  \/ Begin \/ BeginFails \/ Join \/ Sync \/ SyncFails \/ Rename \/ RenameFails
  \/ StartCopy \/ EndCopy \/ CopyFails

Next ==
  \/ Task \/ Hasher
  \/ (\E w \in 0 .. 3 : Thread(w))
  \/ (\E n \in Names : OtherReleases(n))

Spec == Init /\ [][Next]_vars

\* Threads run; the parked one wakes after a millisecond at the latest.
FairSpec == Spec /\ WF_vars(Task) /\ WF_vars(Hasher) /\ \A w \in 0 .. 3 : WF_vars(Thread(w))
-----------------------------------------------------------------------------
TypeOK ==
  /\ file \in FileKinds /\ data \in [Chunks -> Sources]
  /\ stage \in {"start", "write", "sync", "rename", "copy", "returned"}
  /\ result \in {"none", "ok", "err"}
  /\ target \in {"original", "missing", "torn", "whole", "other", "holes"}
  /\ tmp \in [Chunks -> Sources \cup {"none", "hole", "torn"}]
  /\ worker \in [0 .. 3 -> [at : 0 .. N, st : {"off", "next", "write"}]]
  /\ done \subseteq Chunks /\ downloaded \subseteq Chunks /\ error \in BOOLEAN
  /\ hasher \in [st : {"off", "open", "wait", "inline", "ended", "failed", "gone"},
                 at : 1 .. N + 1, digest : {"right", "wrong"}]
  /\ counts \in [Names -> Nat] /\ cached \subseteq Names /\ rest \in [Names -> Nat]

\* Somebody has a hash of every byte and compares it.
Verified == HashesInline \/ HashesBeside \/ (file.mode = "Full" /\ AllHashed)

(***************************************************************************)
(* What replaces the destination has every chunk in its place, and is the  *)
(* file of the manifest whenever a hash covers it: the flags never let the *)
(* hash of a part that is still being written through.                     *)
(***************************************************************************)
ReplacedIsWhole ==
  result = "ok" => target \in {"whole", "other"} /\ (Verified => target = "whole")

(***************************************************************************)
(* A file that fails leaves its destination alone, except when a copy over *)
(* devices fails half way (assembly.rs, the fallback for EXDEV).           *)
(***************************************************************************)
OriginalKept ==
  (stage # "returned" \/ result = "err") =>
    target \in {"original", "missing"} \/ (file.crosses /\ stage \in {"copy", "returned"})

(***************************************************************************)
(* A chunk is there as long as this file or another one needs it, however  *)
(* often they have it; and once the file is assembled it has no claim.     *)
(***************************************************************************)
ChunksOutliveUsers ==
  \A n \in Names :
    /\ (rest[n] > 0 \/ (result # "ok" /\ Own(n) \ downloaded # {})) => n \in cached
    /\ result = "ok" => counts[n] = rest[n]

(***************************************************************************)
(* No thread waits for another one for ever: the call returns.             *)
(***************************************************************************)
AssemblyReturns == <>(stage = "returned")
=============================================================================
