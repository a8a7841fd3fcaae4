------------------------------- MODULE Repair -------------------------------
(***************************************************************************)
(* verify_integrity: every file is hashed, the chunks of the broken ones   *)
(* are downloaded, and the files assembled again by jobs that share them   *)
(* (installer.rs: verify_installers, repair_assets, run_repair_jobs).  It  *)
(* starts with an empty cache, and leaves its own behind.                  *)
(***************************************************************************)
EXTENDS VerificationCache, SequencesExt

CONSTANTS
  ChunkNames,
  MaxJobs         \* ASSEMBLY_CONCURRENCY

\* needs: the chunks of each file, with repetitions; old: files an install
\* copies chunks of the old version to; eager: other files with chunks, none of
\* which is shared (see ChunkRegistration).
ASSUME RepairAssumption ==
  /\ \A m \in Manifests :
       /\ m.needs \in [Paths -> Seq(ChunkNames)]
       /\ m.old \subseteq Paths /\ m.eager \subseteq Paths \ m.old
  /\ MaxJobs \in Nat \ {0}

VARIABLES
  chunks,         \* the chunk files
  fetch,          \* redownload_items, and those being downloaded
  stopped,        \* stopped, or the error of run_repair_jobs
  jobs,           \* files of the repair: waiting, running
  claims          \* refcounts

repairVars == <<chunks, fetch, stopped, jobs, claims>>
vars == <<manifest, clock, disk, cacheVars, sessionVars, history, repairVars>>

Needs == manifest.needs

Named(p) == {Needs[p][i] : i \in DOMAIN Needs[p]}
Places(p, n) == {i \in DOMAIN Needs[p] : Needs[p][i] = n}
Occurrences(p, n) == Cardinality(Places(p, n))

\* Every name once for each file that has it.
Claims_Once(n) == Cardinality({p \in Broken : n \in Named(p)})

\* refcounts: every occurrence of a name in the batch.
ClaimsOf(ps, n) == UNION {{p} \X Places(p, n) : p \in ps}
Claims(n) == Cardinality(ClaimsOf(Broken, n))

Idle == [waiting |-> {}, running |-> {}]

Init ==
  /\ CacheInit
  /\ chunks = [n \in ChunkNames |-> "none"]
  /\ fetch = Idle /\ jobs = Idle /\ stopped = FALSE
  /\ claims = [n \in ChunkNames |-> 0]
\* What the repair kept in memory goes with it.
Close ==
  /\ fetch' = Idle /\ jobs' = Idle /\ stopped' = FALSE
  /\ claims' = [n \in ChunkNames |-> 0]
-----------------------------------------------------------------------------
StartRepair ==
  /\ Begins("repair", "scan", "todo")
  /\ memory' = Empty /\ UNCHANGED <<tmpCache, repairVars>>

\* A file that cannot be read stops the checks that have not started.
CheckFails(p) ==
  /\ session = "repair" /\ stage = "scan" /\ state[p] \in {"todo", "hash"}
  /\ stopped' = TRUE
  /\ Becomes(p, "valid")
  /\ UNCHANGED <<clock, disk, cacheVars, session, stage, seen, sessions, result, history,
                 chunks, fetch, jobs, claims>>

CheckStopped(p) ==
  /\ session = "repair" /\ stage = "scan" /\ state[p] = "todo" /\ stopped
  /\ Becomes(p, "valid")
  /\ UNCHANGED <<clock, disk, cacheVars, session, stage, seen, sessions, result, history, repairVars>>

\* Each chunk of the broken files once, unless it is there and right.
Wanted == {n \in UNION {Named(p) : p \in Broken} : chunks[n] # "right"}

Collect ==
  /\ session = "repair" /\ stage = "scan" /\ Scanned
  /\ IF stopped \/ Broken = {}
       THEN End(IF stopped THEN "err" ELSE "ok") /\ Close
       ELSE /\ stage' = "fetch"
            /\ fetch' = [fetch EXCEPT !.waiting = Wanted]
            /\ UNCHANGED <<memory, session, state, seen, sessions, result, stopped, jobs, claims>>
  /\ UNCHANGED <<clock, disk, marked, stored, tmpCache, history, chunks>>
-----------------------------------------------------------------------------
StartFetch(n) ==
  /\ stage = "fetch" /\ n \in fetch.waiting
  /\ fetch' = [waiting |-> fetch.waiting \ {n},
               running |-> IF stopped THEN fetch.running ELSE fetch.running \cup {n}]
  /\ UNCHANGED <<clock, disk, cacheVars, sessionVars, history, chunks, stopped, jobs, claims>>

\* download_chunk_with_retry_policy leaves the chunk, or what it failed with.
EndFetch(n) ==
  /\ stage = "fetch" /\ n \in fetch.running
  /\ fetch' = [fetch EXCEPT !.running = @ \ {n}]
  /\ \/ chunks' = [chunks EXCEPT ![n] = "right"] /\ UNCHANGED stopped
     \/ chunks' \in {[chunks EXCEPT ![n] = c] : c \in {"none", "wrong"}} /\ stopped' = TRUE
  /\ UNCHANGED <<clock, disk, cacheVars, sessionVars, history, jobs, claims>>

\* All downloads have ended; the chunks of the batch are counted.
Count ==
  /\ stage = "fetch" /\ fetch.waiting = {} /\ fetch.running = {}
  /\ IF stopped
       THEN End("err") /\ Close
       ELSE /\ stage' = "jobs"
            /\ jobs' = [jobs EXCEPT !.waiting = Broken]
            /\ claims' = [n \in ChunkNames |-> Claims(n)]
            /\ UNCHANGED <<memory, session, state, seen, sessions, result, fetch, stopped>>
  /\ UNCHANGED <<clock, disk, marked, stored, tmpCache, history, chunks>>
-----------------------------------------------------------------------------
StartJob(p) ==
  /\ stage = "jobs" /\ ~stopped
  /\ p \in jobs.waiting /\ Cardinality(jobs.running) < MaxJobs
  /\ jobs' = [waiting |-> jobs.waiting \ {p}, running |-> jobs.running \cup {p}]
  /\ UNCHANGED <<clock, disk, cacheVars, sessionVars, history, chunks, fetch, stopped, claims>>

\* The chunks the job has read are released, one claim an occurrence.
Release(p, names) ==
  /\ claims' = [n \in ChunkNames |-> IF n \in names THEN claims[n] - Occurrences(p, n) ELSE claims[n]]
  /\ chunks' = [n \in ChunkNames |->
                  IF n \in names /\ claims[n] = Occurrences(p, n) THEN "none" ELSE chunks[n]]

\* The file is hashed before it replaces the other one, and again behind it.
JobEnds(p) ==
  /\ stage = "jobs" /\ p \in jobs.running
  /\ \A n \in Named(p) : chunks[n] = "right"
  /\ Put(p, "right")
  /\ sneaky' = sneaky \ {p}
  /\ Release(p, Named(p))
  /\ jobs' = [jobs EXCEPT !.running = @ \ {p}]
  /\ memory' = [memory EXCEPT ![p] = IF Cardinality(Entries(memory) \ {p}) >= MaxEntries
                                       THEN NoEntry ELSE clock]
  /\ Becomes(p, "valid")
  /\ UNCHANGED <<clock, marked, stored, tmpCache, session, stage, seen, sessions, result,
                 unseen, stale, fetch, stopped>>

\* What was read before the error is released as well.
JobFails(p) ==
  /\ stage = "jobs" /\ p \in jobs.running
  /\ \E names \in SUBSET {n \in Named(p) : chunks[n] # "none"} : Release(p, names)
  /\ jobs' = [jobs EXCEPT !.running = @ \ {p}]
  /\ stopped' = TRUE
  /\ UNCHANGED <<clock, disk, cacheVars, sessionVars, history, fetch>>

\* An error of one job is lost among the others.
EndJobs_AnyOk ==
  /\ stage = "jobs" /\ jobs.running = {} /\ (stopped \/ jobs.waiting = {})
  /\ IF stopped /\ \A p \in Paths : state[p] = "broken" THEN End("err")
     ELSE stage' = "save" /\ UNCHANGED <<memory, session, state, seen, sessions, result>>
  /\ Close
  /\ UNCHANGED <<clock, disk, marked, stored, tmpCache, history, chunks>>

\* The other jobs are joined before an error is returned.
EndJobs ==
  /\ stage = "jobs" /\ jobs.running = {} /\ (stopped \/ jobs.waiting = {})
  /\ IF stopped THEN End("err")
     ELSE stage' = "save" /\ UNCHANGED <<memory, session, state, seen, sessions, result>>
  /\ Close
  /\ UNCHANGED <<clock, disk, marked, stored, tmpCache, history, chunks>>

\* A chunk of an earlier session is damaged.
SpoilChunk(n) ==
  /\ session = "none" /\ chunks[n] = "right"
  /\ chunks' = [chunks EXCEPT ![n] = "wrong"]
  /\ UNCHANGED <<clock, disk, cacheVars, sessionVars, history, fetch, stopped, jobs, claims>>
-----------------------------------------------------------------------------
RepairStep ==
  \/ (\E p \in Paths : CheckFails(p) \/ CheckStopped(p) \/ StartJob(p) \/ JobEnds(p) \/ JobFails(p))
  \/ (\E n \in ChunkNames : StartFetch(n) \/ EndFetch(n))
  \/ Collect \/ Count \/ EndJobs

Step == (CacheStep /\ UNCHANGED repairVars) \/ RepairStep

Next ==
  /\ \/ Step
     \/ CacheEnv /\ UNCHANGED repairVars
     \/ Crash /\ Close /\ UNCHANGED chunks
     \/ StartRepair
     \/ (\E n \in ChunkNames : SpoilChunk(n))
  /\ UNCHANGED manifest

Spec == Init /\ [][Next]_vars
-----------------------------------------------------------------------------
TypeOK ==
  /\ clock \in 0 .. MaxTime
  /\ disk \in [Paths -> [is : Contents, at : 0 .. MaxTime]]
  /\ memory \in [Paths -> 0 .. NoEntry] /\ stored \in [Paths -> 0 .. NoEntry]
  /\ tmpCache \in {"none", "written"}
  /\ marked \subseteq manifest.eager
  /\ session \in {"none", "install", "resume", "changed", "repair"}
  /\ stage \in {"none", "scan", "work", "fetch", "jobs", "save"}
  /\ state \in [Paths -> {"todo", "hash", "insert", "valid", "broken", "written"}]
  /\ seen \in [Paths -> 0 .. MaxTime] /\ sessions \in 0 .. MaxSessions
  /\ result \in {"none", "ok", "err"}
  /\ chunks \in [ChunkNames -> {"none", "right", "wrong"}]
  /\ claims \in [ChunkNames -> Nat] /\ stopped \in BOOLEAN

(***************************************************************************)
(* "Verify installed manifest files and repair missing or damaged files"   *)
(* (installer.rs:2727): after a repair that ended well all are right, also *)
(* those that were changed and kept size and time, if not behind its back. *)
(***************************************************************************)
RepairedIsRight ==
  [][(session = "repair" /\ result' = "ok") =>
       \A p \in Paths \ unseen : disk'[p].is = "right"]_vars

(***************************************************************************)
(* "A compressed chunk must outlive every occurrence in every consumer"    *)
(* (installer.rs:3139): as long as nothing has failed, every file that is  *)
(* still to be assembled finds all its chunks.                             *)
(***************************************************************************)
ChunksForJobs ==
  (stage = "jobs" /\ ~stopped) =>
    \A p \in jobs.waiting \cup jobs.running, n \in ChunkNames :
      n \in Named(p) => chunks[n] = "right"
=============================================================================
