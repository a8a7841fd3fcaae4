---------------------------- MODULE Repair_proofs -------------------------
(***************************************************************************)
(* The verification cache vouches for nothing but what was verified, an    *)
(* install or a repair that ends well leaves the files right, and the jobs *)
(* of a repair find their chunks: for any files, any number of sessions,   *)
(* of entries, of chunks and of jobs, and any edits.                       *)
(***************************************************************************)
EXTENDS Repair, FiniteSetTheorems, TLAPS

States == {"todo", "hash", "insert", "valid", "broken", "written"}

Shape ==
  /\ clock \in Nat
  /\ disk \in [Paths -> [is : Contents, at : Nat]]
  /\ memory \in [Paths -> Nat] /\ stored \in [Paths -> Nat]
  /\ state \in [Paths -> States] /\ seen \in [Paths -> Nat]

Vouches(t, p) == (t # NoEntry /\ t = disk[p].at /\ SizeOk(p)) => disk[p].is = "right"

(***************************************************************************)
(* Times only grow, so an entry is never of a later time than its file;    *)
(* and what is about to become an entry vouches already.                   *)
(***************************************************************************)
Dated(p) ==
  /\ disk[p].at <= clock /\ seen[p] <= disk[p].at
  /\ memory[p] # NoEntry => memory[p] <= disk[p].at
  /\ stored[p] # NoEntry => stored[p] <= disk[p].at

Safe(p) ==
  /\ Dated(p)
  /\ p \notin sneaky =>
       /\ Vouches(memory[p], p) /\ Vouches(stored[p], p)
       /\ state[p] = "insert" => Vouches(seen[p], p)
       /\ state[p] = "written" => disk[p].is = "right"

IInv == Shape /\ \A p \in Paths : Safe(p)

LEMMA NoEntryIsNat == NoEntry \in Nat
BY CacheAssumption DEF NoEntry

LEMMA IInvVouches == IInv => EntriesVouch
BY DEF IInv, Safe, Vouches, EntriesVouch

LEMMA InitInv == Init => IInv
BY NoEntryIsNat DEF Init, CacheInit, IInv, Shape, Safe, Dated, Vouches, Contents, States, SizeOk, Empty
-----------------------------------------------------------------------------
(***************************************************************************)
(* What a step may do with a file that it does not write ...               *)
(***************************************************************************)
Spares(p) ==
  /\ disk'[p] = disk[p] /\ clock' >= clock
  /\ p \in sneaky => p \in sneaky'
  /\ memory'[p] \in {memory[p], stored[p], NoEntry}
  /\ stored'[p] \in {stored[p], memory[p]}
  /\ seen'[p] \in {seen[p], 0, disk[p].at}
  /\ state'[p] = "insert" => state[p] = "insert" /\ seen'[p] = seen[p]
  /\ state'[p] = "written" => state[p] = "written"

LEMMA SparedIsSafe ==
  ASSUME NEW p \in Paths, Shape, Shape', Safe(p), Spares(p)
  PROVE  Safe(p)'
<1>1. Dated(p)'
  BY DEF Shape, Safe, Dated, Spares
<1>2. ASSUME p \notin sneaky'
      PROVE  /\ Vouches(memory[p], p)' /\ Vouches(stored[p], p)'
             /\ (state[p] = "insert" => Vouches(seen[p], p))'
             /\ (state[p] = "written" => disk[p].is = "right")'
  BY <1>2 DEF Safe, Spares, Vouches, SizeOk
<1> QED
  BY <1>1, <1>2 DEF Safe

(***************************************************************************)
(* ... and with one it writes.                                             *)
(***************************************************************************)
Writes(p) ==
  /\ disk'[p] = [is |-> "right", at |-> clock] /\ clock' = clock
  /\ memory'[p] \in {memory[p], clock, NoEntry}
  /\ stored'[p] = stored[p] /\ seen'[p] = seen[p]

LEMMA WrittenIsSafe ==
  ASSUME NEW p \in Paths, Shape, Shape', Safe(p), Writes(p)
  PROVE  Safe(p)'
<1>1. Dated(p)'
  BY DEF Shape, Safe, Dated, Writes
<1> QED
  BY <1>1 DEF Safe, Writes, Vouches, SizeOk
-----------------------------------------------------------------------------
(***************************************************************************)
(* Steps that spare all files.                                             *)
(***************************************************************************)
LEMMA SparedAll ==
  ASSUME IInv, Shape', \A p \in Paths : Spares(p)
  PROVE  IInv'
<1> SUFFICES ASSUME NEW p \in Paths PROVE Safe(p)'
  BY DEF IInv
<1> QED
  BY SparedIsSafe DEF IInv

LEMMA EndSpares ==
  ASSUME IInv, NEW how, End(how), UNCHANGED <<clock, disk, history>>, stored' \in {stored, memory}
  PROVE  IInv'
<1>1. Shape'
  BY NoEntryIsNat DEF IInv, Shape, End, Empty, States
<1>2. \A p \in Paths : Spares(p)
  BY DEF IInv, Shape, End, Empty, Spares, history
<1> QED
  BY <1>1, <1>2, SparedAll

LEMMA TrimsKeep ==
  ASSUME Shape, NEW m \in Trims(stored)
  PROVE  /\ m \in [Paths -> Nat]
         /\ \A p \in Paths : m[p] \in {stored[p], NoEntry}
<1>1. CASE m = stored
  BY <1>1 DEF Shape
<1>2. CASE \E keep : m = [p \in Paths |-> IF p \in keep THEN stored[p] ELSE NoEntry]
  BY <1>2, NoEntryIsNat DEF Shape
<1> QED
  BY <1>1, <1>2 DEF Trims

LEMMA BeginsSpares ==
  ASSUME IInv, NEW kind, NEW where, NEW s \in {"todo", "broken"}, Begins(kind, where, s),
         memory' \in [Paths -> Nat], \A p \in Paths : memory'[p] \in {stored[p], NoEntry}
  PROVE  IInv'
<1>1. Shape'
  BY DEF IInv, Shape, Begins, States
<1>2. \A p \in Paths : Spares(p)
  BY DEF IInv, Shape, Begins, Spares
<1> QED
  BY <1>1, <1>2, SparedAll

\* A step that changes no file, entry or check.
LEMMA NothingChanges ==
  ASSUME IInv, UNCHANGED <<clock, disk, memory, stored, state, seen, sneaky>>
  PROVE  IInv'
<1>1. Shape'
  BY DEF IInv, Shape
<1>2. \A p \in Paths : Spares(p)
  BY DEF IInv, Shape, Spares
<1> QED
  BY <1>1, <1>2, SparedAll

\* A check moves on, to something else than an insertion.
LEMMA CheckMovesOn ==
  ASSUME IInv, NEW p \in Paths, NEW s \in {"hash", "valid", "broken"}, Becomes(p, s),
         memory' \in {memory, [memory EXCEPT ![p] = NoEntry]},
         seen' \in {seen, [seen EXCEPT ![p] = disk[p].at]},
         UNCHANGED <<clock, disk, stored, sneaky>>
  PROVE  IInv'
<1>1. Shape'
  BY NoEntryIsNat DEF IInv, Shape, Becomes, States
<1>2. \A q \in Paths : Spares(q)
  BY DEF IInv, Shape, Becomes, Spares
<1> QED
  BY <1>1, <1>2, SparedAll
-----------------------------------------------------------------------------
(***************************************************************************)
(* The steps that read, write or record one file.                          *)
(***************************************************************************)
\* Every other file is spared.
LEMMA OneFile ==
  ASSUME IInv, Shape', NEW p \in Paths, Safe(p)', \A q \in Paths \ {p} : Spares(q)
  PROVE  IInv'
<1> SUFFICES ASSUME NEW q \in Paths \ {p} PROVE Safe(q)'
  BY DEF IInv
<1> QED
  BY SparedIsSafe DEF IInv

LEMMA StatInv == ASSUME IInv, NEW p \in Paths, Stat(p) PROVE IInv'
<1>1. CASE SizeOk(p)
  BY <1>1, CheckMovesOn DEF Stat, history
<1>2. CASE ~SizeOk(p)
  BY <1>2, CheckMovesOn DEF Stat, Forget, history
<1> QED
  BY <1>1, <1>2

LEMMA MeasureInv == ASSUME IInv, NEW p \in Paths, Measure(p) PROVE IInv'
BY CheckMovesOn DEF Measure, cacheVars

LEMMA HashInv == ASSUME IInv, NEW p \in Paths, Hash(p) PROVE IInv'
<1>1. CASE disk[p].is # "right"
  BY <1>1, CheckMovesOn DEF Hash, Forget, history
<1>2. CASE disk[p].is = "right" /\ Becomes(p, "valid")
  BY <1>2, CheckMovesOn DEF Hash, history
<1>3. CASE disk[p].is = "right" /\ Becomes(p, "insert")
  <2>1. Shape'
    BY <1>3 DEF Hash, Becomes, IInv, Shape, States
  <2>2. Safe(p)'
    BY <1>3 DEF Hash, Becomes, IInv, Shape, Safe, Dated, Vouches, SizeOk, history
  <2>3. \A q \in Paths \ {p} : Spares(q)
    BY <1>3 DEF Hash, Becomes, IInv, Shape, Spares, history
  <2> QED
    BY <2>1, <2>2, <2>3, OneFile
<1> QED
  BY <1>1, <1>2, <1>3 DEF Hash

LEMMA InsertInv == ASSUME IInv, NEW p \in Paths, Insert(p) PROVE IInv'
<1>1. Shape'
  BY DEF Insert, Becomes, IInv, Shape, States
<1>2. Safe(p)'
  BY DEF Insert, Becomes, IInv, Shape, Safe, Dated, Vouches, SizeOk, history
<1>3. \A q \in Paths \ {p} : Spares(q)
  BY DEF Insert, Becomes, IInv, Shape, Spares, history
<1> QED
  BY <1>1, <1>2, <1>3, OneFile

\* A file is written, whatever becomes of its check.
LEMMA PutInv ==
  ASSUME IInv, NEW p \in Paths, Put(p, "right"), NEW s \in States, Becomes(p, s),
         sneaky' = sneaky \ {p},
         memory' \in {memory, [memory EXCEPT ![p] = clock], [memory EXCEPT ![p] = NoEntry]},
         UNCHANGED <<clock, stored, seen>>
  PROVE  IInv'
<1>1. Shape'
  BY NoEntryIsNat DEF Put, Becomes, IInv, Shape, Contents
<1>2. Writes(p)
  BY DEF Put, IInv, Shape, Writes
<1>3. Safe(p)'
  BY <1>1, <1>2, WrittenIsSafe DEF IInv
<1>4. \A q \in Paths \ {p} : Spares(q)
  BY DEF Put, Becomes, IInv, Shape, Spares
<1> QED
  BY <1>1, <1>3, <1>4, OneFile

LEMMA WriteEagerInv == ASSUME IInv, NEW p \in Paths, WriteEager(p) PROVE IInv'
BY PutInv DEF WriteEager, cacheVars, States

\* A file skipped by its bits is right, or counts as changed unnoticed.
LEMMA SkipEagerInv == ASSUME IInv, NEW p \in Paths, SkipEager(p) PROVE IInv'
<1>1. Shape'
  BY DEF SkipEager, Becomes, IInv, Shape, States, cacheVars
<1>2. Safe(p)'
  BY DEF SkipEager, Becomes, IInv, Shape, Safe, Dated, Vouches, SizeOk, cacheVars
<1>3. \A q \in Paths \ {p} : Spares(q)
  BY DEF SkipEager, Becomes, IInv, Shape, Spares, cacheVars
<1> QED
  BY <1>1, <1>2, <1>3, OneFile

LEMMA RecordEagerInv == ASSUME IInv, NEW p \in Paths, RecordEager(p) PROVE IInv'
<1>1. Shape'
  BY DEF RecordEager, Becomes, IInv, Shape, States
<1>2. Safe(p)'
  BY DEF RecordEager, Becomes, IInv, Shape, Safe, Dated, Vouches, SizeOk, history
<1>3. \A q \in Paths \ {p} : Spares(q)
  BY DEF RecordEager, Becomes, IInv, Shape, Spares, history
<1> QED
  BY <1>1, <1>2, <1>3, OneFile

LEMMA AssembleInv == ASSUME IInv, NEW p \in Paths, Assemble(p) PROVE IInv'
<1>1. CASE SizeOk(p) /\ (memory[p] # NoEntry \/ disk[p].is = "right")
  BY <1>1, CheckMovesOn DEF Assemble, cacheVars
<1>2. CASE ~(SizeOk(p) /\ (memory[p] # NoEntry \/ disk[p].is = "right"))
  BY <1>2, PutInv DEF Assemble, cacheVars, States
<1> QED
  BY <1>1, <1>2

LEMMA JobEndsInv == ASSUME IInv, NEW p \in Paths, JobEnds(p) PROVE IInv'
BY PutInv DEF JobEnds, States

\* Broken files are removed: nothing vouches for them any more.
LEMMA EndScanInv == ASSUME IInv, EndScan PROVE IInv'
<1>1. Shape'
  BY DEF EndScan, IInv, Shape, Contents, cacheVars
<1> SUFFICES ASSUME NEW p \in Paths PROVE Safe(p)'
  BY <1>1 DEF IInv
<1>2. CASE p \in Broken \ manifest.old
  <2>1. disk'[p] = [disk[p] EXCEPT !.is = "none"] /\ state[p] = "broken"
    BY <1>2 DEF EndScan, Broken, IInv, Shape
  <2>2. UNCHANGED <<clock, memory, stored, seen, state>>
    BY DEF EndScan
  <2>3. disk'[p].is = "none" /\ disk'[p].at = disk[p].at
    BY <2>1 DEF IInv, Shape
  <2>4. Dated(p)'
    BY <2>2, <2>3 DEF IInv, Safe, Dated, NoEntry
  <2> QED
    BY <2>1, <2>2, <2>3, <2>4 DEF Safe, Vouches, SizeOk
<1>3. CASE p \notin Broken \ manifest.old
  <2>1. disk'[p] = disk[p]
    BY <1>3 DEF EndScan, IInv, Shape
  <2>2. UNCHANGED <<clock, memory, stored, seen, state, sneaky>>
    BY DEF EndScan, history
  <2>3. Spares(p)
    BY <2>1, <2>2 DEF IInv, Shape, Spares
  <2> QED
    BY <1>1, <2>3, SparedIsSafe DEF IInv
<1> QED
  BY <1>2, <1>3

\* An edit at another time leaves its entries behind, any other is sneaky.
LEMMA EditInv == ASSUME IInv, NEW p \in Paths, Edit(p) PROVE IInv'
<1>1. PICK what \in Contents \ {"right"}, t \in {clock, disk[p].at} :
        /\ disk' = [disk EXCEPT ![p] = [is |-> what, at |-> t]]
        /\ sneaky' = IF t = disk[p].at \/ state[p] = "written" THEN sneaky \cup {p} ELSE sneaky
  BY DEF Edit
<1>2. UNCHANGED <<clock, memory, stored, state, seen>>
  BY DEF Edit, cacheVars
<1>3. Shape'
  BY <1>1, <1>2 DEF IInv, Shape
<1>4. Safe(p)'
  <2>1. Dated(p)'
    BY <1>1, <1>2 DEF IInv, Shape, Safe, Dated
  <2>2. ASSUME p \notin sneaky' PROVE t > disk[p].at /\ state[p] # "written"
    <3>1. t # disk[p].at /\ state[p] # "written"
      BY <1>1, <2>2
    <3>2. disk[p].at \in Nat /\ disk[p].at <= clock /\ clock \in Nat
      BY DEF IInv, Shape, Safe, Dated
    <3> QED
      BY <3>1, <3>2
  <2>3. disk'[p].at = t /\ t \in Nat
    BY <1>1 DEF IInv, Shape
  <2>4. ASSUME p \notin sneaky'
        PROVE  /\ memory[p] = NoEntry \/ memory[p] # t
               /\ stored[p] = NoEntry \/ stored[p] # t
               /\ seen[p] # t
    BY <2>2, <2>3, <2>4 DEF IInv, Shape, Safe, Dated
  <2> QED
    BY <1>2, <2>1, <2>2, <2>3, <2>4 DEF Safe, Vouches
<1>5. \A q \in Paths \ {p} : Spares(q)
  BY <1>1, <1>2 DEF IInv, Shape, Spares
<1> QED
  BY <1>3, <1>4, <1>5, OneFile
-----------------------------------------------------------------------------
LEMMA CacheStepInv == ASSUME IInv, CacheStep PROVE IInv'
<1>1. CASE \E p \in Paths : \/ Stat(p) \/ Hash(p) \/ Insert(p)
                            \/ Measure(p) \/ WriteEager(p) \/ SkipEager(p)
                            \/ RecordEager(p) \/ Assemble(p)
  BY <1>1, StatInv, HashInv, InsertInv, MeasureInv, WriteEagerInv, SkipEagerInv, RecordEagerInv, AssembleInv
<1>2. CASE WriteCache \/ EndWork
  BY <1>2, NothingChanges DEF WriteCache, EndWork, cacheVars, sessionVars, history
<1>3. CASE RenameCache \/ SaveFails \/ InstallFails
  BY <1>3, EndSpares DEF RenameCache, SaveFails, InstallFails
<1>4. CASE EndScan
  BY <1>4, EndScanInv
<1> QED
  BY <1>1, <1>2, <1>3, <1>4 DEF CacheStep

LEMMA CacheEnvInv == ASSUME IInv, CacheEnv PROVE IInv'
<1>1. CASE StartInstall \/ StartResume
  <2>1. memory' \in [Paths -> Nat] /\ \A p \in Paths : memory'[p] \in {stored[p], NoEntry}
    BY <1>1, TrimsKeep DEF StartInstall, StartResume, Load, IInv
  <2> QED
    BY <1>1, <2>1, BeginsSpares DEF StartInstall, StartResume
<1>2. CASE Tick
  <2>1. Shape'
    BY <1>2 DEF Tick, IInv, Shape, cacheVars, sessionVars
  <2>2. \A p \in Paths : Spares(p)
    BY <1>2 DEF Tick, IInv, Shape, Spares, cacheVars, sessionVars, history
  <2> QED
    BY <2>1, <2>2, SparedAll
<1>3. CASE \E p \in Paths : Edit(p)
  BY <1>3, EditInv
<1> QED
  BY <1>1, <1>2, <1>3 DEF CacheEnv

LEMMA RepairStepInv == ASSUME IInv, RepairStep PROVE IInv'
<1>1. CASE \E p \in Paths : CheckFails(p) \/ CheckStopped(p)
  BY <1>1, CheckMovesOn DEF CheckFails, CheckStopped, cacheVars, history
<1>2. CASE \E p \in Paths : StartJob(p) \/ JobFails(p)
  BY <1>2, NothingChanges DEF StartJob, JobFails, cacheVars, sessionVars, history
<1>3. CASE \E p \in Paths : JobEnds(p)
  BY <1>3, JobEndsInv
<1>4. CASE \E n \in ChunkNames : StartFetch(n) \/ EndFetch(n)
  BY <1>4, NothingChanges DEF StartFetch, EndFetch, cacheVars, sessionVars, history
<1>5. CASE Collect \/ Count \/ EndJobs
  <2>1. UNCHANGED <<clock, disk, stored, history>>
    BY <1>5 DEF Collect, Count, EndJobs
  <2>2. CASE UNCHANGED <<memory, state, seen>>
    BY <2>1, <2>2, NothingChanges DEF history
  <2>3. CASE \E how : End(how)
    BY <2>1, <2>3, EndSpares
  <2> QED
    BY <1>5, <2>2, <2>3 DEF Collect, Count, EndJobs
<1> QED
  BY <1>1, <1>2, <1>3, <1>4, <1>5 DEF RepairStep

LEMMA NextInv == IInv /\ [Next]_vars => IInv'
<1> SUFFICES ASSUME IInv, [Next]_vars PROVE IInv'
  OBVIOUS
<1>1. CASE CacheStep
  BY <1>1, CacheStepInv
<1>2. CASE RepairStep
  BY <1>2, RepairStepInv
<1>3. CASE CacheEnv
  BY <1>3, CacheEnvInv
<1>4. CASE Crash
  BY <1>4, EndSpares DEF Crash
<1>5. CASE StartRepair
  BY <1>5, BeginsSpares, NoEntryIsNat DEF StartRepair, Empty
<1>6. CASE \E n \in ChunkNames : SpoilChunk(n)
  BY <1>6, NothingChanges DEF SpoilChunk, cacheVars, sessionVars, history
<1>7. CASE UNCHANGED vars
  BY <1>7, NothingChanges DEF vars, cacheVars, sessionVars, history
<1> QED
  BY <1>1, <1>2, <1>3, <1>4, <1>5, <1>6, <1>7 DEF Next, Step

(***************************************************************************)
(* An entry of the cache, in memory or on disk, vouches for a file only if *)
(* it is right, unless somebody changed it and kept its time, or a new     *)
(* install recorded it without writing it.                                 *)
(***************************************************************************)
THEOREM EntriesVouchHolds == Spec => []EntriesVouch
<1> QED
  BY InitInv, NextInv, IInvVouches, PTL DEF Spec
-----------------------------------------------------------------------------
(***************************************************************************)
(* What a session has settled.  A file is as it has to be if it is right,  *)
(* or was changed behind the back of the session; outside of a repair also *)
(* if it was changed and the session took it for installed unhashed.       *)
(***************************************************************************)
Good(p) ==
  \/ disk[p].is = "right" \/ p \in unseen
  \/ session # "repair" /\ p \in sneaky \cup stale

Settled == {"insert", "valid", "written"}

Steps ==
  /\ session \in {"none", "install", "resume", "changed", "repair"}
  /\ stage \in {"none", "scan", "work", "fetch", "jobs", "save"}
  /\ result \in {"none", "ok", "err"}
  /\ stopped \in BOOLEAN

\* Which stages a session has; only a repair that has yet to end is stopped.
Course ==
  /\ session = "none" <=> stage = "none"
  /\ result # "none" => session = "none"
  /\ stage = "work" => session # "repair"
  /\ stage \in {"fetch", "jobs"} => session = "repair"
  /\ stopped => session = "repair" /\ stage \in {"scan", "fetch", "jobs"}

\* What counts as settled is good, unless the repair will report an error.
Sound(p) ==
  /\ session # "none" /\ state[p] \in Settled => Good(p) \/ stopped
  /\ stage = "save" \/ result = "ok" => Good(p)
  /\ session = "repair" /\ state[p] = "todo" => memory[p] = NoEntry
  /\ stage \in {"fetch", "jobs"} => state[p] \in {"valid", "broken"}
  /\ stage = "jobs" /\ ~stopped /\ state[p] = "broken" => p \in jobs.waiting \cup jobs.running

SoundInv == Steps /\ Course /\ \A p \in Paths : Sound(p)

(***************************************************************************)
(* The chunks of a repair: what is wanted is there or on its way, and then *)
(* each file that is still to be assembled has its claims.                 *)
(***************************************************************************)
Claimants == jobs.waiting \cup jobs.running

Batches ==
  /\ manifest \in Manifests
  /\ fetch \in [waiting : SUBSET ChunkNames, running : SUBSET ChunkNames]
  /\ jobs \in [waiting : SUBSET Paths, running : SUBSET Paths]
  /\ chunks \in [ChunkNames -> {"none", "right", "wrong"}]
  /\ claims \in [ChunkNames -> Nat]

Fetched ==
  stage = "fetch" /\ ~stopped =>
    \A p \in Broken : \A n \in Named(p) : chunks[n] = "right" \/ n \in fetch.waiting \cup fetch.running

Claimed ==
  /\ jobs.waiting \cap jobs.running = {}
  /\ stage # "jobs" => Claimants = {}
  /\ stage = "jobs" => \A n \in ChunkNames : claims[n] >= Cardinality(ClaimsOf(Claimants, n))

Supplied ==
  stage = "jobs" /\ ~stopped => \A p \in Claimants : \A n \in Named(p) : chunks[n] = "right"

SupplyInv == Batches /\ Fetched /\ Claimed /\ Supplied
LEMMA StatSound == ASSUME SoundInv, IInv, NEW p \in Paths, Stat(p), UNCHANGED repairVars PROVE SoundInv'
<1>1. Steps' /\ Course'
  BY DEF Stat, Forget, Becomes, Hit, SizeOk, history, repairVars, Safe, Vouches, SoundInv, Steps, Course
<1> SUFFICES ASSUME NEW q \in Paths PROVE Sound(q)'
  BY <1>1 DEF SoundInv
<1> QED
  BY DEF Stat, Forget, Becomes, Hit, SizeOk, history, repairVars, Safe, Vouches, SoundInv, Steps, Course, Sound, Good, Settled, IInv, Shape, States

LEMMA HashSound == ASSUME SoundInv, IInv, NEW p \in Paths, Hash(p), UNCHANGED repairVars PROVE SoundInv'
<1>1. Steps' /\ Course'
  BY DEF Hash, Forget, Becomes, history, repairVars, SoundInv, Steps, Course
<1> SUFFICES ASSUME NEW q \in Paths PROVE Sound(q)'
  BY <1>1 DEF SoundInv
<1> QED
  BY DEF Hash, Forget, Becomes, history, repairVars, SoundInv, Steps, Course, Sound, Good, Settled, IInv, Shape, States

LEMMA InsertSound == ASSUME SoundInv, IInv, NEW p \in Paths, Insert(p), UNCHANGED repairVars PROVE SoundInv'
<1>1. Steps' /\ Course'
  BY DEF Insert, Becomes, history, repairVars, SoundInv, Steps, Course
<1> SUFFICES ASSUME NEW q \in Paths PROVE Sound(q)'
  BY <1>1 DEF SoundInv
<1> QED
  BY DEF Insert, Becomes, history, repairVars, SoundInv, Steps, Course, Sound, Good, Settled, IInv, Shape, States

LEMMA WriteEagerSound == ASSUME SoundInv, IInv, NEW p \in Paths, WriteEager(p), UNCHANGED repairVars PROVE SoundInv'
<1>1. Steps' /\ Course'
  BY DEF WriteEager, Becomes, Put, cacheVars, repairVars, Contents, SoundInv, Steps, Course
<1> SUFFICES ASSUME NEW q \in Paths PROVE Sound(q)'
  BY <1>1 DEF SoundInv
<1> QED
  BY DEF WriteEager, Becomes, Put, cacheVars, repairVars, Contents, SoundInv, Steps, Course, Sound, Good, Settled, IInv, Shape, States

LEMMA RecordEagerSound == ASSUME SoundInv, IInv, NEW p \in Paths, RecordEager(p), UNCHANGED repairVars PROVE SoundInv'
<1>1. Steps' /\ Course'
  BY DEF RecordEager, Becomes, history, repairVars, SoundInv, Steps, Course
<1> SUFFICES ASSUME NEW q \in Paths PROVE Sound(q)'
  BY <1>1 DEF SoundInv
<1> QED
  BY DEF RecordEager, Becomes, history, repairVars, SoundInv, Steps, Course, Sound, Good, Settled, IInv, Shape, States

LEMMA AssembleSound == ASSUME SoundInv, IInv, NEW p \in Paths, Assemble(p), UNCHANGED repairVars PROVE SoundInv'
<1>1. Steps' /\ Course'
  BY DEF Assemble, Becomes, Put, cacheVars, repairVars, SizeOk, Safe, Vouches, Contents, SoundInv, Steps, Course
<1> SUFFICES ASSUME NEW q \in Paths PROVE Sound(q)'
  BY <1>1 DEF SoundInv
<1> QED
  BY DEF Assemble, Becomes, Put, cacheVars, repairVars, SizeOk, Safe, Vouches, Contents, SoundInv, Steps, Course, Sound, Good, Settled, IInv, Shape, States

LEMMA MeasureSound == ASSUME SoundInv, IInv, NEW p \in Paths, Measure(p), UNCHANGED repairVars PROVE SoundInv'
<1>1. Steps' /\ Course'
  BY DEF Measure, Becomes, Takes, Unhashed, cacheVars, repairVars, SoundInv, Steps, Course
<1> SUFFICES ASSUME NEW q \in Paths PROVE Sound(q)'
  BY <1>1 DEF SoundInv
<1> USE DEF Measure, Becomes, SoundInv, Course, IInv, Shape
<1>2. /\ session = session' /\ stage = "scan" /\ stage' = "scan" /\ session # "none" /\ session # "repair"
      /\ UNCHANGED <<disk, result, stopped, unseen, sneaky>> /\ stale \subseteq stale'
      /\ result = "none" /\ Sound(q)
  BY DEF Takes, Unhashed, repairVars, Steps
<1>3. Good(q) => Good(q)'
  BY <1>2 DEF Good
<1>4. state'[q] \in Settled => Good(q)' \/ stopped'
  <2>1. CASE q # p
    BY <1>2, <1>3, <2>1 DEF Sound
  <2>2. CASE q = p
    BY <1>2, <2>2 DEF Takes, Good, Settled
  <2> QED
    BY <2>1, <2>2
<1> QED
  BY <1>2, <1>3, <1>4 DEF Sound

LEMMA SkipEagerSound == ASSUME SoundInv, IInv, NEW p \in Paths, SkipEager(p), UNCHANGED repairVars PROVE SoundInv'
<1>1. Steps' /\ Course'
  BY DEF SkipEager, Becomes, cacheVars, SkippedByBits, repairVars, SoundInv, Steps, Course
<1> SUFFICES ASSUME NEW q \in Paths PROVE Sound(q)'
  BY <1>1 DEF SoundInv
<1> QED
  BY DEF SkipEager, Becomes, cacheVars, SkippedByBits, repairVars, SoundInv, Steps, Course, Sound, Good, Settled, IInv, Shape, States

LEMMA WriteCacheSound == ASSUME SoundInv, IInv, WriteCache, UNCHANGED repairVars PROVE SoundInv'
<1>1. Steps' /\ Course'
  BY DEF WriteCache, sessionVars, history, repairVars, SoundInv, Steps, Course
<1> SUFFICES ASSUME NEW q \in Paths PROVE Sound(q)'
  BY <1>1 DEF SoundInv
<1> QED
  BY DEF WriteCache, sessionVars, history, repairVars, SoundInv, Steps, Course, Sound, Good, Settled, IInv, Shape, States

LEMMA RenameCacheSound == ASSUME SoundInv, IInv, RenameCache, UNCHANGED repairVars PROVE SoundInv'
<1>1. Steps' /\ Course'
  BY DEF RenameCache, End, Empty, history, repairVars, SoundInv, Steps, Course
<1> SUFFICES ASSUME NEW q \in Paths PROVE Sound(q)'
  BY <1>1 DEF SoundInv
<1> QED
  BY DEF RenameCache, End, Empty, history, repairVars, SoundInv, Steps, Course, Sound, Good, Settled, IInv, Shape, States

LEMMA SaveFailsSound == ASSUME SoundInv, IInv, SaveFails, UNCHANGED repairVars PROVE SoundInv'
<1>1. Steps' /\ Course'
  BY DEF SaveFails, End, Empty, history, repairVars, SoundInv, Steps, Course
<1> SUFFICES ASSUME NEW q \in Paths PROVE Sound(q)'
  BY <1>1 DEF SoundInv
<1> QED
  BY DEF SaveFails, End, Empty, history, repairVars, SoundInv, Steps, Course, Sound, Good, Settled, IInv, Shape, States

LEMMA EndScanSound == ASSUME SoundInv, IInv, EndScan, UNCHANGED repairVars PROVE SoundInv'
<1>1. Steps' /\ Course'
  BY DEF EndScan, cacheVars, history, repairVars, Scanned, SoundInv, Steps, Course
<1> SUFFICES ASSUME NEW q \in Paths PROVE Sound(q)'
  BY <1>1 DEF SoundInv
<1> USE DEF EndScan, SoundInv, Course
<1>2. /\ session \in {"resume", "changed"} /\ stage' = "work" /\ result' = "none"
      /\ UNCHANGED <<session, state, stopped, unseen, sneaky, stale>> /\ Sound(q)
  BY DEF history, repairVars, Steps
<1>3. state[q] \in Settled => disk'[q] = disk[q]
  BY DEF Broken, Settled, IInv, Shape
<1>4. state'[q] \in Settled => Good(q)' \/ stopped'
  BY <1>2, <1>3 DEF Sound, Good
<1> QED
  BY <1>2, <1>4 DEF Sound

LEMMA EndWorkSound == ASSUME SoundInv, IInv, EndWork, UNCHANGED repairVars PROVE SoundInv'
<1>1. Steps' /\ Course'
  BY DEF EndWork, cacheVars, history, repairVars, SoundInv, Steps, Course
<1> SUFFICES ASSUME NEW q \in Paths PROVE Sound(q)'
  BY <1>1 DEF SoundInv
<1> QED
  BY DEF EndWork, cacheVars, history, repairVars, SoundInv, Steps, Course, Sound, Good, Settled, IInv, Shape, States

LEMMA InstallFailsSound == ASSUME SoundInv, IInv, InstallFails, UNCHANGED repairVars PROVE SoundInv'
<1>1. Steps' /\ Course'
  BY DEF InstallFails, End, history, repairVars, SoundInv, Steps, Course
<1> SUFFICES ASSUME NEW q \in Paths PROVE Sound(q)'
  BY <1>1 DEF SoundInv
<1> QED
  BY DEF InstallFails, End, history, repairVars, SoundInv, Steps, Course, Sound, Good, Settled, IInv, Shape, States

LEMMA StartInstallSound == ASSUME SoundInv, IInv, StartInstall, UNCHANGED repairVars PROVE SoundInv'
<1>1. Steps' /\ Course'
  BY DEF StartInstall, Begins, repairVars, SoundInv, Steps, Course
<1> SUFFICES ASSUME NEW q \in Paths PROVE Sound(q)'
  BY <1>1 DEF SoundInv
<1> QED
  BY DEF StartInstall, Begins, repairVars, SoundInv, Steps, Course, Sound, Good, Settled, IInv, Shape, States

LEMMA StartResumeSound == ASSUME SoundInv, IInv, StartResume, UNCHANGED repairVars PROVE SoundInv'
<1>1. Steps' /\ Course'
  BY DEF StartResume, Begins, repairVars, SoundInv, Steps, Course
<1> SUFFICES ASSUME NEW q \in Paths PROVE Sound(q)'
  BY <1>1 DEF SoundInv
<1> QED
  BY DEF StartResume, Begins, repairVars, SoundInv, Steps, Course, Sound, Good, Settled, IInv, Shape, States

LEMMA TickSound == ASSUME SoundInv, IInv, Tick, UNCHANGED repairVars PROVE SoundInv'
<1>1. Steps' /\ Course'
  BY DEF Tick, cacheVars, sessionVars, history, repairVars, SoundInv, Steps, Course
<1> SUFFICES ASSUME NEW q \in Paths PROVE Sound(q)'
  BY <1>1 DEF SoundInv
<1> QED
  BY DEF Tick, cacheVars, sessionVars, history, repairVars, SoundInv, Steps, Course, Sound, Good, Settled, IInv, Shape, States

LEMMA EditSound == ASSUME SoundInv, IInv, NEW p \in Paths, Edit(p), UNCHANGED repairVars PROVE SoundInv'
<1>1. Steps' /\ Course'
  BY DEF Edit, cacheVars, repairVars, SoundInv, Steps, Course
<1> SUFFICES ASSUME NEW q \in Paths PROVE Sound(q)'
  BY <1>1 DEF SoundInv
<1> QED
  BY DEF Edit, cacheVars, repairVars, SoundInv, Steps, Course, Sound, Good, Settled, IInv, Shape, States

LEMMA CrashSound == ASSUME SoundInv, IInv, Crash, Close PROVE SoundInv'
<1>1. Steps' /\ Course'
  BY DEF Crash, End, history, Close, Idle, SoundInv, Steps, Course
<1> SUFFICES ASSUME NEW q \in Paths PROVE Sound(q)'
  BY <1>1 DEF SoundInv
<1> QED
  BY DEF Crash, End, history, Close, Idle, SoundInv, Steps, Course, Sound, Good, Settled, IInv, Shape, States

LEMMA StartRepairSound == ASSUME SoundInv, IInv, StartRepair PROVE SoundInv'
<1>1. Steps' /\ Course'
  BY DEF StartRepair, Begins, Empty, repairVars, SoundInv, Steps, Course
<1> SUFFICES ASSUME NEW q \in Paths PROVE Sound(q)'
  BY <1>1 DEF SoundInv
<1> QED
  BY DEF StartRepair, Begins, Empty, repairVars, SoundInv, Steps, Course, Sound, Good, Settled, IInv, Shape, States

LEMMA CheckFailsSound == ASSUME SoundInv, IInv, NEW p \in Paths, CheckFails(p) PROVE SoundInv'
<1>1. Steps' /\ Course'
  BY DEF CheckFails, Becomes, cacheVars, history, SoundInv, Steps, Course
<1> SUFFICES ASSUME NEW q \in Paths PROVE Sound(q)'
  BY <1>1 DEF SoundInv
<1> QED
  BY DEF CheckFails, Becomes, cacheVars, history, SoundInv, Steps, Course, Sound, Good, Settled, IInv, Shape, States

LEMMA CheckStoppedSound == ASSUME SoundInv, IInv, NEW p \in Paths, CheckStopped(p) PROVE SoundInv'
<1>1. Steps' /\ Course'
  BY DEF CheckStopped, Becomes, cacheVars, history, repairVars, SoundInv, Steps, Course
<1> SUFFICES ASSUME NEW q \in Paths PROVE Sound(q)'
  BY <1>1 DEF SoundInv
<1> QED
  BY DEF CheckStopped, Becomes, cacheVars, history, repairVars, SoundInv, Steps, Course, Sound, Good, Settled, IInv, Shape, States

LEMMA CollectSound == ASSUME SoundInv, IInv, Collect PROVE SoundInv'
<1>1. Steps' /\ Course'
  BY DEF Collect, End, Close, Idle, Scanned, Broken, history, SoundInv, Steps, Course
<1> SUFFICES ASSUME NEW q \in Paths PROVE Sound(q)'
  BY <1>1 DEF SoundInv
<1> QED
  BY DEF Collect, End, Close, Idle, Scanned, Broken, history, SoundInv, Steps, Course, Sound, Good, Settled, IInv, Shape, States

LEMMA StartFetchSound == ASSUME SoundInv, IInv, NEW n \in ChunkNames, StartFetch(n) PROVE SoundInv'
<1>1. Steps' /\ Course'
  BY DEF StartFetch, cacheVars, sessionVars, history, SoundInv, Steps, Course
<1> SUFFICES ASSUME NEW q \in Paths PROVE Sound(q)'
  BY <1>1 DEF SoundInv
<1> QED
  BY DEF StartFetch, cacheVars, sessionVars, history, SoundInv, Steps, Course, Sound, Good, Settled, IInv, Shape, States

LEMMA EndFetchSound == ASSUME SoundInv, IInv, NEW n \in ChunkNames, EndFetch(n) PROVE SoundInv'
<1>1. Steps' /\ Course'
  BY DEF EndFetch, cacheVars, sessionVars, history, SoundInv, Steps, Course
<1> SUFFICES ASSUME NEW q \in Paths PROVE Sound(q)'
  BY <1>1 DEF SoundInv
<1> QED
  BY DEF EndFetch, cacheVars, sessionVars, history, SoundInv, Steps, Course, Sound, Good, Settled, IInv, Shape, States

LEMMA CountSound == ASSUME SoundInv, IInv, Batches, Count PROVE SoundInv'
<1>1. Steps' /\ Course'
  BY DEF Count, End, Close, Idle, Broken, history, SoundInv, Steps, Course
<1> SUFFICES ASSUME NEW q \in Paths PROVE Sound(q)'
  BY <1>1 DEF SoundInv
<1> QED
  BY DEF Count, End, Close, Idle, Broken, history, SoundInv, Steps, Course, Sound, Good, Settled, IInv, Shape, States, Batches

LEMMA StartJobSound == ASSUME SoundInv, IInv, NEW p \in Paths, StartJob(p) PROVE SoundInv'
<1>1. Steps' /\ Course'
  BY DEF StartJob, cacheVars, sessionVars, history, SoundInv, Steps, Course
<1> SUFFICES ASSUME NEW q \in Paths PROVE Sound(q)'
  BY <1>1 DEF SoundInv
<1> QED
  BY DEF StartJob, cacheVars, sessionVars, history, SoundInv, Steps, Course, Sound, Good, Settled, IInv, Shape, States

LEMMA JobEndsSound == ASSUME SoundInv, IInv, NEW p \in Paths, JobEnds(p) PROVE SoundInv'
<1>1. Steps' /\ Course'
  BY DEF JobEnds, Becomes, Put, Contents, SoundInv, Steps, Course
<1> SUFFICES ASSUME NEW q \in Paths PROVE Sound(q)'
  BY <1>1 DEF SoundInv
<1> QED
  BY DEF JobEnds, Becomes, Put, Contents, SoundInv, Steps, Course, Sound, Good, Settled, IInv, Shape, States

LEMMA JobFailsSound == ASSUME SoundInv, IInv, NEW p \in Paths, JobFails(p) PROVE SoundInv'
<1>1. Steps' /\ Course'
  BY DEF JobFails, cacheVars, sessionVars, history, SoundInv, Steps, Course
<1> SUFFICES ASSUME NEW q \in Paths PROVE Sound(q)'
  BY <1>1 DEF SoundInv
<1> QED
  BY DEF JobFails, cacheVars, sessionVars, history, SoundInv, Steps, Course, Sound, Good, Settled, IInv, Shape, States

LEMMA EndJobsSound == ASSUME SoundInv, IInv, EndJobs PROVE SoundInv'
<1>1. Steps' /\ Course'
  BY DEF EndJobs, End, Close, Idle, history, SoundInv, Steps, Course
<1> SUFFICES ASSUME NEW q \in Paths PROVE Sound(q)'
  BY <1>1 DEF SoundInv
<1> QED
  BY DEF EndJobs, End, Close, Idle, history, SoundInv, Steps, Course, Sound, Good, Settled, IInv, Shape, States

LEMMA SpoilChunkSound == ASSUME SoundInv, IInv, NEW n \in ChunkNames, SpoilChunk(n) PROVE SoundInv'
<1>1. Steps' /\ Course'
  BY DEF SpoilChunk, cacheVars, sessionVars, history, SoundInv, Steps, Course
<1> SUFFICES ASSUME NEW q \in Paths PROVE Sound(q)'
  BY <1>1 DEF SoundInv
<1> QED
  BY DEF SpoilChunk, cacheVars, sessionVars, history, SoundInv, Steps, Course, Sound, Good, Settled, IInv, Shape, States

-----------------------------------------------------------------------------
LEMMA PlacesFinite ==
  ASSUME Batches, NEW p \in Paths, NEW n
  PROVE  IsFiniteSet(Places(p, n))
<1>1. Needs[p] \in Seq(ChunkNames)
  BY RepairAssumption DEF Batches, Needs
<1>2. DOMAIN Needs[p] = 1 .. Len(Needs[p]) /\ Len(Needs[p]) \in Int
  BY <1>1
<1>3. IsFiniteSet(DOMAIN Needs[p])
  <2>1. ASSUME NEW k \in Int PROVE IsFiniteSet(1 .. k)
    BY <2>1, FS_Interval
  <2> QED
    BY <1>2, <2>1
<1>4. Places(p, n) \subseteq DOMAIN Needs[p]
  BY DEF Places
<1> QED
  BY <1>3, <1>4, FS_Subset

\* The chunks that a set of files and one of its files claim.
LEMMA ClaimsFinite ==
  ASSUME Batches, NEW ps \in SUBSET Paths, NEW n
  PROVE  IsFiniteSet(ClaimsOf(ps, n)) /\ Cardinality(ClaimsOf(ps, n)) \in Nat
<1>1. IsFiniteSet(ps)
  BY CacheAssumption, FS_Subset
<1>2. ASSUME NEW p \in Paths
      PROVE  IsFiniteSet(Places(p, n)) /\ IsFiniteSet({p} \X Places(p, n))
  <2>1. IsFiniteSet(Places(p, n))
    BY PlacesFinite
  <2>2. IsFiniteSet({p})
    BY FS_Singleton
  <2> QED
    BY <2>1, <2>2, FS_Product
<1> DEFINE all == {{p} \X Places(p, n) : p \in ps}
           each == [p \in ps |-> {p} \X Places(p, n)]
<1>3. IsFiniteSet(all)
  <2>1. each \in Surjection(ps, all)
    BY DEF Surjection
  <2> QED
    BY <1>1, <2>1, FS_Surjection
<1>4. IsFiniteSet(UNION all)
  BY <1>2, <1>3, FS_UNION
<1> QED
  BY <1>4, FS_CardinalityType DEF ClaimsOf

LEMMA PlacesCounted ==
  ASSUME Batches, NEW p \in Paths, NEW n
  PROVE  /\ Occurrences(p, n) \in Nat
         /\ Occurrences(p, n) = Cardinality(ClaimsOf({p}, n))
         /\ n \in Named(p) => Occurrences(p, n) > 0
         /\ n \notin Named(p) => Occurrences(p, n) = 0
<1>1. ClaimsOf({p}, n) = {p} \X Places(p, n)
  BY DEF ClaimsOf
<1>2. IsFiniteSet(Places(p, n))
  BY PlacesFinite
<1>4. Occurrences(p, n) \in Nat
  BY <1>2, FS_CardinalityType DEF Occurrences
<1>3. Cardinality({p} \X Places(p, n)) = Occurrences(p, n)
  <2>1. IsFiniteSet({p}) /\ Cardinality({p}) = 1
    BY FS_Singleton
  <2>2. Cardinality({p} \X Places(p, n)) = Cardinality({p}) * Cardinality(Places(p, n))
    BY <1>2, <2>1, FS_Product
  <2> QED
    BY <1>4, <2>1, <2>2 DEF Occurrences
<1>5. Occurrences(p, n) = 0 <=> Places(p, n) = {}
  BY <1>2, FS_EmptySet DEF Occurrences
<1>6. n \in Named(p) <=> Places(p, n) # {}
  BY DEF Named, Places
<1> QED
  BY <1>1, <1>3, <1>4, <1>5, <1>6

\* What one file claims is no part of what the others claim.
LEMMA ClaimsSplit ==
  ASSUME Batches, NEW ps \in SUBSET Paths, NEW p \in ps, NEW n
  PROVE  Cardinality(ClaimsOf(ps, n)) = Occurrences(p, n) + Cardinality(ClaimsOf(ps \ {p}, n))
<1>1. /\ IsFiniteSet(ClaimsOf({p}, n)) /\ IsFiniteSet(ClaimsOf(ps \ {p}, n))
      /\ Cardinality(ClaimsOf({p}, n)) \in Nat /\ Cardinality(ClaimsOf(ps \ {p}, n)) \in Nat
  BY ClaimsFinite
<1>2. ClaimsOf(ps, n) = ClaimsOf({p}, n) \cup ClaimsOf(ps \ {p}, n)
  BY DEF ClaimsOf
<1>3. ClaimsOf({p}, n) \cap ClaimsOf(ps \ {p}, n) = {}
  BY DEF ClaimsOf
<1>4. p \in Paths
  OBVIOUS
<1>6. Cardinality(ClaimsOf({p}, n) \cap ClaimsOf(ps \ {p}, n)) = 0
  BY <1>3, FS_EmptySet
<1>7. Occurrences(p, n) = Cardinality(ClaimsOf({p}, n))
  BY <1>4, PlacesCounted
<1>5. Cardinality(ClaimsOf(ps, n)) =
        Cardinality(ClaimsOf({p}, n)) + Cardinality(ClaimsOf(ps \ {p}, n))
          - Cardinality(ClaimsOf({p}, n) \cap ClaimsOf(ps \ {p}, n))
  BY <1>1, <1>2, FS_Union
<1> QED
  BY <1>1, <1>5, <1>6, <1>7
-----------------------------------------------------------------------------
(***************************************************************************)
(* Steps the batches of a repair.                                          *)
(***************************************************************************)
\* What the stages of a session leave as it is: a step outside of them.
LEMMA BatchesKept ==
  ASSUME SupplyInv, manifest' = manifest, UNCHANGED repairVars,
         stage' \notin {"fetch", "jobs"} \/ UNCHANGED <<stage, state>>,
         stage # "jobs" \/ stage' = "jobs"
  PROVE  SupplyInv'
<1> USE DEF SupplyInv, repairVars, Needs
<1>1. Batches'
  BY DEF Batches
<1>2. ASSUME NEW p, NEW n PROVE Places(p, n)' = Places(p, n) /\ Named(p)' = Named(p)
  BY DEF Places, Named
<1>3. ASSUME NEW n PROVE ClaimsOf(Claimants, n)' = ClaimsOf(Claimants, n)
  BY <1>2 DEF ClaimsOf, Claimants
<1>4. Fetched'
  BY <1>2 DEF Fetched, Broken
<1>5. Claimed'
  BY <1>3 DEF Claimed, Claimants
<1>6. Supplied'
  BY <1>2, <1>5 DEF Supplied, Claimants, Claimed
<1> QED
  BY <1>1, <1>4, <1>5, <1>6

\* A session ends, or begins: no batch is left.
LEMMA NoBatch ==
  ASSUME SupplyInv, manifest' = manifest, Close, chunks' \in [ChunkNames -> {"none", "right", "wrong"}],
         stage' \notin {"fetch", "jobs"}
  PROVE  SupplyInv'
BY DEF SupplyInv, Batches, Fetched, Claimed, Supplied, Claimants, Close, Idle

LEMMA CheckFailsSupply ==
  ASSUME SupplyInv, NEW p \in Paths, CheckFails(p), manifest' = manifest PROVE SupplyInv'
BY DEF SupplyInv, Batches, Fetched, Claimed, Supplied, Claimants, CheckFails

LEMMA CollectSupply == ASSUME SupplyInv, Collect, manifest' = manifest PROVE SupplyInv'
<1>1. CASE stopped \/ Broken = {}
  BY <1>1, NoBatch DEF Collect, End, SupplyInv, Batches
<1>2. CASE ~(stopped \/ Broken = {})
  <2>1. /\ stage = "scan" /\ stage' = "fetch" /\ fetch' = [fetch EXCEPT !.waiting = Wanted]
        /\ UNCHANGED <<state, stopped, jobs, claims, chunks>>
    BY <1>2 DEF Collect
  <2>2. ASSUME NEW p \in Paths PROVE Named(p) \subseteq ChunkNames
    BY RepairAssumption DEF SupplyInv, Batches, Named, Needs
  <2>3. Wanted \subseteq ChunkNames
    BY <2>2 DEF Wanted, Broken
  <2>4. Batches'
    BY <2>1, <2>3 DEF SupplyInv, Batches
  <2>5. fetch'.waiting = Wanted
    BY <2>1 DEF SupplyInv, Batches
  <2>6. ASSUME NEW p \in Broken, NEW n \in Named(p) PROVE chunks[n] = "right" \/ n \in Wanted
    BY DEF Wanted
  <2>7. Fetched'
    BY <2>1, <2>5, <2>6 DEF Fetched, Broken, Named, Needs
  <2> QED
    BY <2>1, <2>4, <2>7 DEF SupplyInv, Claimed, Supplied, Claimants
<1> QED
  BY <1>1, <1>2

LEMMA FetchSupply ==
  ASSUME SupplyInv, NEW n \in ChunkNames, StartFetch(n) \/ EndFetch(n), manifest' = manifest
  PROVE  SupplyInv'
<1>1. UNCHANGED <<stage, state, jobs, claims>> /\ stage = "fetch"
  BY DEF StartFetch, EndFetch, sessionVars
<1>2. Batches'
  BY DEF StartFetch, EndFetch, SupplyInv, Batches
<1>3. Broken' = Broken
  BY <1>1 DEF Broken
<1>4. ASSUME NEW p PROVE Named(p)' = Named(p)
  BY DEF Named, Needs
<1>5. ASSUME NEW p \in Broken, NEW k \in Named(p), ~stopped', ~stopped
      PROVE  chunks'[k] = "right" \/ k \in fetch'.waiting \cup fetch'.running
  <2>1. k \in ChunkNames
    BY RepairAssumption DEF SupplyInv, Batches, Named, Needs, Broken
  <2>2. chunks[k] = "right" \/ k \in fetch.waiting \cup fetch.running
    BY <1>1, <1>5 DEF SupplyInv, Fetched
  <2> QED
    BY <1>5, <2>1, <2>2 DEF StartFetch, EndFetch, SupplyInv, Batches
<1>6. ~stopped' => ~stopped
  BY DEF StartFetch, EndFetch
<1>7. Fetched'
  BY <1>3, <1>4, <1>5, <1>6 DEF Fetched
<1> QED
  BY <1>1, <1>2, <1>7 DEF SupplyInv, Claimed, Supplied, Claimants

LEMMA CountSupply == ASSUME SupplyInv, Count, manifest' = manifest PROVE SupplyInv'
<1>1. CASE stopped
  BY <1>1, NoBatch DEF Count, End, SupplyInv, Batches
<1>2. CASE ~stopped
  <2>1. /\ stage = "fetch" /\ fetch.waiting = {} /\ fetch.running = {} /\ stage' = "jobs"
        /\ jobs' = [jobs EXCEPT !.waiting = Broken]
        /\ claims' = [n \in ChunkNames |-> Claims(n)]
        /\ UNCHANGED <<state, fetch, stopped, chunks>>
    BY <1>2 DEF Count
  <2>2. Broken \subseteq Paths /\ jobs.running = {}
    BY <2>1 DEF Broken, SupplyInv, Claimed, Claimants
  <2>3. ASSUME NEW n \in ChunkNames
        PROVE  Claims(n) \in Nat /\ Claims(n) = Cardinality(ClaimsOf(Broken, n))
    BY <2>2, ClaimsFinite DEF Claims, SupplyInv
  <2>4. Batches'
    BY <2>1, <2>2, <2>3 DEF SupplyInv, Batches
  <2>5. Claimants' = Broken /\ (jobs.waiting \cap jobs.running = {})'
    BY <2>1, <2>2 DEF Claimants, SupplyInv, Batches
  <2>6. ASSUME NEW p PROVE Named(p)' = Named(p) /\ \A n : Places(p, n)' = Places(p, n)
    BY DEF Named, Places, Needs
  <2>7. ASSUME NEW n PROVE ClaimsOf(Claimants, n)' = ClaimsOf(Broken, n)
    BY <2>5, <2>6 DEF ClaimsOf
  <2>8. ASSUME NEW n \in ChunkNames
        PROVE  claims'[n] >= Cardinality(ClaimsOf(Claimants, n)')
    BY <2>1, <2>3, <2>7
  <2>9. Claimed'
    BY <2>1, <2>5, <2>8 DEF Claimed
  <2>10. \A p \in Broken : \A n \in Named(p) : chunks[n] = "right"
    BY <1>2, <2>1 DEF SupplyInv, Fetched
  <2> QED
    BY <2>1, <2>4, <2>5, <2>6, <2>9, <2>10 DEF SupplyInv, Fetched, Supplied
<1> QED
  BY <1>1, <1>2

LEMMA StartJobSupply ==
  ASSUME SupplyInv, NEW p \in Paths, StartJob(p), manifest' = manifest PROVE SupplyInv'
<1>1. UNCHANGED <<stage, state, fetch, stopped, claims, chunks>> /\ stage = "jobs"
  BY DEF StartJob, sessionVars
<1>2. Batches'
  BY DEF StartJob, SupplyInv, Batches
<1>3. Claimants' = Claimants /\ (jobs.waiting \cap jobs.running = {})'
  BY DEF StartJob, SupplyInv, Batches, Claimants, Claimed
<1>4. ASSUME NEW q PROVE Named(q)' = Named(q) /\ \A n : Places(q, n)' = Places(q, n)
  BY DEF Named, Places, Needs
<1>5. ASSUME NEW n PROVE ClaimsOf(Claimants, n)' = ClaimsOf(Claimants, n)
  BY <1>3, <1>4 DEF ClaimsOf
<1> QED
  BY <1>1, <1>2, <1>3, <1>4, <1>5 DEF SupplyInv, Fetched, Claimed, Supplied

(***************************************************************************)
(* A job releases what it claimed, or less: the claims of the other files  *)
(* are still covered, and a chunk one of them needs keeps a claim.         *)
(***************************************************************************)
LEMMA ReleaseKeeps ==
  ASSUME SupplyInv, stage = "jobs", NEW p \in jobs.running, NEW names \in SUBSET Named(p),
         Release(p, names), manifest' = manifest, jobs' = [jobs EXCEPT !.running = @ \ {p}],
         stage' = "jobs"
  PROVE  /\ chunks' \in [ChunkNames -> {"none", "right", "wrong"}]
         /\ claims' \in [ChunkNames -> Nat]
         /\ Claimed'
         /\ Claimants' = Claimants \ {p}
         /\ \A q \in Claimants \ {p} : \A n \in Named(q) : chunks'[n] = chunks[n]
<1>1. p \in Paths /\ Claimants \in SUBSET Paths /\ p \in Claimants
  BY DEF SupplyInv, Batches, Claimants
<1>2. Claimants' = Claimants \ {p} /\ (jobs.waiting \cap jobs.running = {})'
  BY DEF SupplyInv, Batches, Claimants, Claimed
<1>3. ASSUME NEW n \in ChunkNames
      PROVE  /\ claims[n] \in Nat /\ Occurrences(p, n) \in Nat
             /\ Cardinality(ClaimsOf(Claimants \ {p}, n)) \in Nat
             /\ claims[n] >= Occurrences(p, n) + Cardinality(ClaimsOf(Claimants \ {p}, n))
  <2>1. claims[n] \in Nat /\ claims[n] >= Cardinality(ClaimsOf(Claimants, n))
    BY DEF SupplyInv, Batches, Claimed
  <2>2. Cardinality(ClaimsOf(Claimants \ {p}, n)) \in Nat
    BY <1>1, ClaimsFinite DEF SupplyInv
  <2>3. Occurrences(p, n) \in Nat
    BY <1>1, PlacesCounted DEF SupplyInv
  <2>4. Cardinality(ClaimsOf(Claimants, n)) =
          Occurrences(p, n) + Cardinality(ClaimsOf(Claimants \ {p}, n))
    BY <1>1, ClaimsSplit DEF SupplyInv
  <2> QED
    BY <2>1, <2>2, <2>3, <2>4
<1>4. ASSUME NEW n \in ChunkNames
      PROVE  /\ claims'[n] \in Nat
             /\ claims'[n] >= Cardinality(ClaimsOf(Claimants \ {p}, n))
  <2> DEFINE c == claims[n]
             o == Occurrences(p, n)
             k == Cardinality(ClaimsOf(Claimants \ {p}, n))
  <2>1. claims'[n] = c - o \/ claims'[n] = c
    BY DEF Release
  <2>2. c \in Nat /\ o \in Nat /\ k \in Nat /\ c >= o + k
    BY <1>3
  <2>3. c - o \in Nat /\ c - o >= k /\ c >= k
    <3> HIDE DEF c, o, k
    <3> QED
      BY <2>2
  <2> QED
    BY <2>1, <2>2, <2>3
<1>5. ASSUME NEW q \in Claimants \ {p}, NEW n \in Named(q) PROVE chunks'[n] = chunks[n]
  <2>1. q \in Paths /\ n \in ChunkNames
    BY <1>1, RepairAssumption DEF SupplyInv, Batches, Named, Needs
  <2>2. /\ Cardinality(ClaimsOf(Claimants \ {p}, n)) =
            Occurrences(q, n) + Cardinality(ClaimsOf((Claimants \ {p}) \ {q}, n))
        /\ Cardinality(ClaimsOf((Claimants \ {p}) \ {q}, n)) \in Nat
    BY <1>1, ClaimsSplit, ClaimsFinite DEF SupplyInv
  <2>3. Occurrences(q, n) \in Nat /\ Occurrences(q, n) > 0
    BY <2>1, PlacesCounted DEF SupplyInv
  <2>4. claims[n] # Occurrences(p, n)
    BY <1>3, <2>1, <2>2, <2>3
  <2> QED
    BY <2>1, <2>4 DEF Release
<1>6. ASSUME NEW n PROVE ClaimsOf(Claimants, n)' = ClaimsOf(Claimants \ {p}, n)
  BY <1>2 DEF ClaimsOf, Places, Needs
<1>7. Claimed'
  BY <1>2, <1>4, <1>6 DEF Claimed
<1>8. chunks' \in [ChunkNames -> {"none", "right", "wrong"}]
  BY DEF Release, SupplyInv, Batches
<1>9. claims' \in [ChunkNames -> Nat]
  BY <1>4 DEF Release
<1> QED
  BY <1>2, <1>5, <1>7, <1>8, <1>9

LEMMA JobReturnsSupply ==
  ASSUME SupplyInv, NEW p \in Paths, JobEnds(p) \/ JobFails(p), manifest' = manifest
  PROVE  SupplyInv'
<1>1. PICK names \in SUBSET Named(p) : Release(p, names)
  <2>1. CASE JobEnds(p)
    BY <2>1 DEF JobEnds
  <2>2. CASE JobFails(p)
    BY <2>2 DEF JobFails
  <2> QED
    BY <2>1, <2>2
<1>2. /\ stage = "jobs" /\ stage' = "jobs" /\ p \in jobs.running
      /\ jobs' = [jobs EXCEPT !.running = @ \ {p}] /\ fetch' = fetch
      /\ ~stopped' => ~stopped
  BY DEF JobEnds, JobFails, sessionVars
<1>3. /\ chunks' \in [ChunkNames -> {"none", "right", "wrong"}] /\ claims' \in [ChunkNames -> Nat]
      /\ Claimed' /\ Claimants' = Claimants \ {p}
      /\ \A q \in Claimants \ {p} : \A n \in Named(q) : chunks'[n] = chunks[n]
  BY <1>1, <1>2, ReleaseKeeps
<1>4. Batches'
  BY <1>2, <1>3 DEF SupplyInv, Batches
<1>5. Supplied'
  BY <1>2, <1>3 DEF Supplied, SupplyInv, Named, Needs
<1> QED
  BY <1>2, <1>3, <1>4, <1>5 DEF SupplyInv, Fetched

LEMMA EndJobsSupply == ASSUME SupplyInv, EndJobs, manifest' = manifest PROVE SupplyInv'
BY NoBatch DEF EndJobs, End, SupplyInv, Batches

LEMMA SpoilChunkSupply ==
  ASSUME SupplyInv, Course, NEW n \in ChunkNames, SpoilChunk(n), manifest' = manifest
  PROVE  SupplyInv'
<1>1. stage = "none" /\ UNCHANGED <<stage, state, fetch, jobs, stopped, claims>>
  BY DEF SpoilChunk, sessionVars, Course
<1>2. Batches'
  BY <1>1 DEF SpoilChunk, SupplyInv, Batches
<1> QED
  BY <1>1, <1>2 DEF SupplyInv, Fetched, Claimed, Supplied, Claimants
-----------------------------------------------------------------------------
(***************************************************************************)
(* Every step preserves the three invariants.                              *)
(***************************************************************************)
RepairInv == IInv /\ SoundInv /\ SupplyInv

LEMMA RepairInvInit == Init => RepairInv
<1> SUFFICES ASSUME Init PROVE RepairInv
  OBVIOUS
<1>1. SoundInv
  BY DEF Init, CacheInit, SoundInv, Steps, Course, Sound, Settled
<1>2. SupplyInv
  BY DEF Init, CacheInit, SupplyInv, Batches, Fetched, Claimed, Supplied, Claimants, Idle
<1> QED
  BY <1>1, <1>2, InitInv DEF RepairInv

LEMMA CacheSteps ==
  ASSUME RepairInv, CacheStep \/ CacheEnv, UNCHANGED repairVars, manifest' = manifest
  PROVE  SoundInv' /\ SupplyInv'
<1> USE DEF RepairInv
<1>1. SoundInv'
  BY StatSound, HashSound, InsertSound, WriteEagerSound, RecordEagerSound, AssembleSound,
     MeasureSound, SkipEagerSound,
     WriteCacheSound, RenameCacheSound, SaveFailsSound, EndScanSound, EndWorkSound,
     InstallFailsSound, StartInstallSound, StartResumeSound, TickSound, EditSound
     DEF CacheStep, CacheEnv
<1>2. /\ stage' \notin {"fetch", "jobs"} \/ UNCHANGED <<stage, state>>
      /\ stage # "jobs" \/ stage' = "jobs"
  <2> USE DEF SoundInv, Course
  <2>1. CASE \E p \in Paths : Stat(p) \/ Hash(p) \/ Insert(p) \/ Measure(p)
    BY <2>1 DEF Stat, Hash, Insert, Measure
  <2>2. CASE \E p \in Paths : WriteEager(p) \/ SkipEager(p) \/ RecordEager(p) \/ Assemble(p)
    BY <2>2 DEF WriteEager, SkipEager, RecordEager, Assemble
  <2>3. CASE WriteCache \/ RenameCache \/ SaveFails \/ EndScan \/ EndWork \/ InstallFails
    BY <2>3 DEF WriteCache, RenameCache, SaveFails, EndScan, EndWork, InstallFails, End, sessionVars
  <2>4. CASE StartInstall \/ StartResume
    BY <2>4 DEF StartInstall, StartResume, Begins
  <2>5. CASE Tick \/ \E p \in Paths : Edit(p)
    BY <2>5 DEF Tick, Edit, sessionVars
  <2> QED
    BY <2>1, <2>2, <2>3, <2>4, <2>5 DEF CacheStep, CacheEnv
<1>3. SupplyInv'
  BY <1>2, BatchesKept
<1> QED
  BY <1>1, <1>3

LEMMA RepairSteps ==
  ASSUME RepairInv, RepairStep, manifest' = manifest
  PROVE  SoundInv' /\ SupplyInv'
<1> USE DEF RepairInv
<1>1. SoundInv'
  BY CheckFailsSound, CheckStoppedSound, StartJobSound, JobEndsSound, JobFailsSound,
     StartFetchSound, EndFetchSound, CollectSound, CountSound, EndJobsSound
     DEF RepairStep, SupplyInv
<1>2. ASSUME NEW p \in Paths, CheckStopped(p) PROVE SupplyInv'
  BY <1>2, BatchesKept DEF CheckStopped
<1>3. SupplyInv'
  BY <1>2, CheckFailsSupply, StartJobSupply, JobReturnsSupply, FetchSupply, CollectSupply,
     CountSupply, EndJobsSupply
     DEF RepairStep
<1> QED
  BY <1>1, <1>3

LEMMA RepairInvNext == RepairInv /\ [Next]_vars => RepairInv'
<1> SUFFICES ASSUME RepairInv, [Next]_vars PROVE SoundInv' /\ SupplyInv'
  BY NextInv DEF RepairInv
<1> USE DEF RepairInv
<1>1. CASE UNCHANGED vars
  <2>1. SupplyInv'
    BY <1>1, BatchesKept DEF vars, sessionVars
  <2>2. SoundInv'
    BY <1>1 DEF vars, cacheVars, sessionVars, history, repairVars, SoundInv, Steps, Course, Sound,
                Good
  <2> QED
    BY <2>1, <2>2
<1>2. CASE Next
  <2>0. manifest' = manifest
    BY <1>2 DEF Next
  <2>1. CASE (CacheStep \/ CacheEnv) /\ UNCHANGED repairVars
    BY <2>0, <2>1, CacheSteps
  <2>2. CASE RepairStep
    BY <2>0, <2>2, RepairSteps
  <2>3. CASE Crash /\ Close /\ UNCHANGED chunks
    BY <2>0, <2>3, CrashSound, NoBatch DEF Crash, End, SupplyInv, Batches
  <2>4. CASE StartRepair
    <3>1. stage # "jobs" /\ stage' = "scan" /\ UNCHANGED repairVars
      BY <2>4 DEF StartRepair, Begins, SoundInv, Course
    <3> QED
      BY <2>0, <2>4, <3>1, StartRepairSound, BatchesKept
  <2>5. CASE \E n \in ChunkNames : SpoilChunk(n)
    BY <2>0, <2>5, SpoilChunkSound, SpoilChunkSupply DEF SoundInv
  <2> QED
    BY <1>2, <2>1, <2>2, <2>3, <2>4, <2>5 DEF Next, Step
<1> QED
  BY <1>1, <1>2

-----------------------------------------------------------------------------
(***************************************************************************)
(* The rest of the types: what bounds the clock and names the stages.      *)
(***************************************************************************)
Bounded ==
  /\ clock \in 0 .. MaxTime /\ sessions \in 0 .. MaxSessions
  /\ tmpCache \in {"none", "written"}
  /\ session \in {"none", "install", "resume", "changed", "repair"}
  /\ stage \in {"none", "scan", "work", "fetch", "jobs", "save"}
  /\ result \in {"none", "ok", "err"} /\ stopped \in BOOLEAN

LEMMA BoundedInit == Init => Bounded
<1> SUFFICES ASSUME Init PROVE Bounded
  OBVIOUS
<1>1. clock = 0 /\ sessions = 0 /\ MaxTime \in Nat /\ MaxSessions \in Nat
  BY CacheAssumption DEF Init, CacheInit
<1>2. /\ tmpCache = "none" /\ session = "none" /\ stage = "none" /\ result = "none"
      /\ stopped = FALSE
  BY DEF Init, CacheInit
<1>3. clock \in 0 .. MaxTime /\ sessions \in 0 .. MaxSessions
  BY <1>1
<1> QED
  BY <1>2, <1>3 DEF Bounded

LEMMA BoundedNext == Bounded /\ [Next]_vars => Bounded'
<1> SUFFICES ASSUME Bounded, [Next]_vars PROVE Bounded'
  OBVIOUS
<1> USE DEF Bounded
<1>1. CASE CacheStep /\ UNCHANGED repairVars
  BY <1>1 DEF CacheStep, Stat, Hash, Insert, Measure, WriteEager, SkipEager, RecordEager, Assemble, WriteCache,
              RenameCache, SaveFails, EndScan, EndWork, InstallFails, End, sessionVars, cacheVars,
              repairVars
<1>2. CASE RepairStep
  <2>1. CASE \E p \in Paths : CheckFails(p) \/ CheckStopped(p) \/ StartJob(p) \/ JobEnds(p) \/ JobFails(p)
    BY <2>1 DEF CheckFails, CheckStopped, StartJob, JobEnds, JobFails, sessionVars, cacheVars, repairVars
  <2>2. CASE \E n \in ChunkNames : StartFetch(n) \/ EndFetch(n)
    BY <2>2 DEF StartFetch, EndFetch, sessionVars, cacheVars
  <2>3. CASE Collect \/ Count \/ EndJobs
    BY <2>3 DEF Collect, Count, EndJobs, End, Close
  <2> QED
    BY <1>2, <2>1, <2>2, <2>3 DEF RepairStep
<1>3. CASE CacheEnv /\ UNCHANGED repairVars
  <2>1. CASE StartInstall \/ StartResume
    BY <1>3, <2>1, CacheAssumption DEF StartInstall, StartResume, Begins, Load, repairVars
  <2>2. CASE Tick \/ \E p \in Paths : Edit(p)
    BY <1>3, <2>2, CacheAssumption DEF Tick, Edit, repairVars, sessionVars, cacheVars
  <2> QED
    BY <1>3, <2>1, <2>2 DEF CacheEnv
<1>4. CASE Crash /\ Close
  BY <1>4 DEF Crash, Close, End
<1>5. CASE StartRepair
  BY <1>5, CacheAssumption DEF StartRepair, Begins, repairVars
<1>6. CASE \E n \in ChunkNames : SpoilChunk(n)
  BY <1>6 DEF SpoilChunk, sessionVars, cacheVars
<1>7. CASE UNCHANGED vars
  BY <1>7 DEF vars, sessionVars, cacheVars, repairVars
<1> QED
  BY <1>1, <1>2, <1>3, <1>4, <1>5, <1>6, <1>7 DEF Next, Step

\* Only what is written eagerly has bits.
MarkedEager == marked \subseteq manifest.eager

LEMMA MarkedNext == MarkedEager /\ [Next]_vars => MarkedEager'
<1> SUFFICES ASSUME MarkedEager, [Next]_vars PROVE MarkedEager'
  OBVIOUS
<1>1. manifest' = manifest
  BY DEF Next, vars
<1>2. CASE \E p \in Paths : WriteEager(p)
  BY <1>1, <1>2 DEF WriteEager, MarkedEager
<1>3. CASE EndScan
  BY <1>1, <1>3 DEF EndScan, MarkedEager
<1>4. CASE UNCHANGED marked
  BY <1>1, <1>4 DEF MarkedEager
<1>5. CacheStep => (\E p \in Paths : WriteEager(p)) \/ EndScan \/ UNCHANGED marked
  BY DEF CacheStep, Stat, Hash, Insert, Measure, SkipEager, RecordEager, Assemble, WriteCache,
         RenameCache, SaveFails, EndWork, InstallFails, cacheVars
<1>6. CacheEnv => UNCHANGED marked
  BY DEF CacheEnv, StartInstall, StartResume, Begins, Tick, Edit, cacheVars
<1>7. RepairStep => UNCHANGED marked
  BY DEF RepairStep, CheckFails, CheckStopped, StartJob, JobEnds, JobFails, StartFetch, EndFetch,
         Collect, Count, EndJobs, cacheVars
<1>8. Crash \/ StartRepair \/ (\E n \in ChunkNames : SpoilChunk(n)) \/ UNCHANGED vars => UNCHANGED marked
  BY DEF Crash, StartRepair, Begins, SpoilChunk, vars, cacheVars
<1> QED
  BY <1>2, <1>3, <1>4, <1>5, <1>6, <1>7, <1>8 DEF Next, Step

LEMMA TimesBounded ==
  ASSUME RepairInv, Bounded
  PROVE  /\ disk \in [Paths -> [is : Contents, at : 0 .. MaxTime]]
         /\ memory \in [Paths -> 0 .. NoEntry] /\ stored \in [Paths -> 0 .. NoEntry]
         /\ seen \in [Paths -> 0 .. MaxTime]
<1> USE CacheAssumption DEF RepairInv, IInv, Shape, Bounded
<1>1. ASSUME NEW p \in Paths
      PROVE  /\ disk[p] \in [is : Contents, at : 0 .. MaxTime] /\ seen[p] \in 0 .. MaxTime
             /\ memory[p] \in 0 .. NoEntry /\ stored[p] \in 0 .. NoEntry
  <2>1. Dated(p)
    BY DEF Safe
  <2>2. disk[p].at \in 0 .. MaxTime /\ seen[p] \in 0 .. MaxTime
    BY <2>1 DEF Dated
  <2>3. memory[p] \in 0 .. NoEntry /\ stored[p] \in 0 .. NoEntry
    BY <2>1 DEF Dated, NoEntry
  <2>4. disk[p] \in [is : Contents, at : 0 .. MaxTime]
    BY <2>2
  <2> QED
    BY <2>2, <2>3, <2>4
<1>2. disk \in [Paths -> [is : Contents, at : 0 .. MaxTime]]
  BY <1>1
<1>3. memory \in [Paths -> 0 .. NoEntry] /\ stored \in [Paths -> 0 .. NoEntry]
  BY <1>1
<1>4. seen \in [Paths -> 0 .. MaxTime]
  BY <1>1
<1> QED
  BY <1>2, <1>3, <1>4

(***************************************************************************)
(* No entry or file is of a time to come, no chunk is released more often  *)
(* than it was claimed, and the operations go through their stages.        *)
(***************************************************************************)
THEOREM TypeCorrect == Spec => []TypeOK
<1>1. RepairInv /\ Bounded /\ MarkedEager => TypeOK
  BY TimesBounded DEF RepairInv, IInv, Shape, States, Bounded, MarkedEager, SupplyInv, Batches, TypeOK
<1>2. Init => MarkedEager
  BY DEF Init, CacheInit, MarkedEager
<1> QED
  BY <1>1, <1>2, RepairInvInit, RepairInvNext, BoundedInit, BoundedNext, MarkedNext, PTL DEF Spec

(***************************************************************************)
(* Every file is right after an install that ended well, new or resumed,   *)
(* with the exceptions the code makes: for any number of files and         *)
(* sessions before it, crashed or failed or not.                           *)
(***************************************************************************)
THEOREM InstalledIsRightHolds == Spec => []InstalledIsRight
<1>1. RepairInv => InstalledIsRight
  BY DEF RepairInv, SoundInv, Sound, Good, InstalledIsRight
<1> QED
  BY <1>1, RepairInvInit, RepairInvNext, PTL DEF Spec

(***************************************************************************)
(* As long as no job has failed, a file that waits or is being assembled   *)
(* finds all its chunks, in whatever order the others release theirs.      *)
(***************************************************************************)
THEOREM ChunksForJobsHolds == Spec => []ChunksForJobs
<1>1. RepairInv => ChunksForJobs
  BY DEF RepairInv, SupplyInv, Supplied, Claimants, ChunksForJobs
<1> QED
  BY <1>1, RepairInvInit, RepairInvNext, PTL DEF Spec

(***************************************************************************)
(* The step that ends a repair well finds every file right that nobody     *)
(* changed meanwhile, those with their old size and time included.         *)
(***************************************************************************)
THEOREM RepairedIsRightHolds == Spec => RepairedIsRight
<1>1. RepairInv /\ [Next]_vars =>
        [(session = "repair" /\ result' = "ok") => \A p \in Paths \ unseen : disk'[p].is = "right"]_vars
  <2> SUFFICES ASSUME RepairInv, Next, session = "repair", result' = "ok", NEW p \in Paths \ unseen
               PROVE  disk'[p].is = "right"
    OBVIOUS
  <2>1. result = "none"
    BY DEF RepairInv, SoundInv, Steps, Course
  <2>2. CASE Collect
    <3>1. stage = "scan" /\ Scanned /\ ~stopped /\ Broken = {} /\ disk' = disk
      BY <2>1, <2>2 DEF Collect, End
    <3>2. state[p] = "valid"
      BY <3>1 DEF Scanned, Broken
    <3> QED
      BY <3>1, <3>2 DEF RepairInv, SoundInv, Sound, Settled, Good
  <2>3. CASE RenameCache \/ SaveFails
    <3>1. stage = "save" /\ disk' = disk
      BY <2>3 DEF RenameCache, SaveFails
    <3> QED
      BY <3>1 DEF RepairInv, SoundInv, Sound, Good
  <2>4. Collect \/ RenameCache \/ SaveFails
    BY <2>1 DEF Next, Step, CacheStep, CacheEnv, RepairStep, Stat, Hash, Insert, Measure,
       WriteEager, SkipEager, RecordEager, Assemble, WriteCache, EndScan, EndWork, InstallFails, End, StartInstall,
       StartResume, Begins, Tick, Edit, sessionVars, Crash, StartRepair, CheckFails, CheckStopped,
       StartFetch, EndFetch, Count, StartJob, JobEnds, JobFails, EndJobs, SpoilChunk
  <2> QED
    BY <2>2, <2>3, <2>4
<1> QED
  BY <1>1, RepairInvInit, RepairInvNext, PTL DEF Spec, RepairedIsRight
=============================================================================
