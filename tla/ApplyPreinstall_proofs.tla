----------------------- MODULE ApplyPreinstall_proofs -----------------------
(***************************************************************************)
(* Proofs about ApplyPreinstall and the package it is given: for every     *)
(* release, number of workers and retries, and whatever mishaps.           *)
(***************************************************************************)
EXTENDS ApplyPreinstall, FiniteSetTheorems, SequenceTheorems, TLAPS

\* Workers that have taken a chunk from the queue, and what they have taken.
Fetching == {w \in Workers : at[w] \in {"call", "fetch"}}
Held == {job[w] : w \in Fetching}

\* What the proof needs to know of the types.
Shape ==
  /\ release \in Releases
  /\ patch \in [Patches -> {"none", "partial", "good"}]
  /\ had \subseteq Wanted /\ todo \subseteq Wanted
  /\ at \in [Workers -> {"off", "loop", "call", "fetch", "over"}]
  /\ DOMAIN job = Workers /\ job = [w \in Workers |-> job[w]]

\* A chunk is verified, in the queue or with one worker.
Parted ==
  /\ had \cap todo = {}
  /\ Held \subseteq Wanted \ (had \cup todo)
  /\ \A v, w \in Fetching : job[v] = job[w] => v = w

\* What is verified stays whole, and so does a sealed package: a session
\* over one fetches only what was removed from it.
Whole ==
  /\ \A p \in had : patch[p] = "good"
  /\ pkg # "none" => /\ \A p \in Wanted \ rotted : patch[p] = "good"
                     /\ todo \cup Held \subseteq rotted

\* The pool runs during the download only, and the next session starts anew.
Closed ==
  /\ pc # "download" => Running = {}
  /\ pc = "idle" => had = {}

\* The session goes on only with everything.
Sealed == pc \in {"recheck", "write"} => had = Wanted

\* The counter is exact.
Counted == remaining = Cardinality(todo) + Cardinality(Fetching)

\* Without an error or a refusal no chunk leaves queue and workers unverified.
Accounted ==
  (pc \in {"download", "joined"} /\ ~error /\ ~stopped) =>
    Wanted = had \cup todo \cup Held

\* As long as chunks are queued somebody works, or everybody was stopped.
Working ==
  (pc \in {"download", "joined"} /\ ~error /\ ~cancelled /\ todo # {}) => Running # {}

Queue == Parted /\ Whole /\ Closed /\ Sealed
Pool == Counted /\ Accounted /\ Working
PInv == Shape /\ Queue /\ Pool

LEMMA WantedIsFinite ==
  ASSUME release \in Releases
  PROVE  IsFiniteSet(Wanted) /\ Wanted \subseteq Patches /\ Cardinality(Wanted) \in Nat
<1>1. Wanted \in SUBSET Patches
  BY PackageAssumption DEF Wanted
<1> QED
  BY <1>1, PackageAssumption, FS_Subset, FS_CardinalityType

LEMMA CountsAreNumbers ==
  ASSUME Shape
  PROVE  /\ IsFiniteSet(todo) /\ IsFiniteSet(Fetching)
         /\ Cardinality(todo) \in Nat /\ Cardinality(Fetching) \in Nat
<1>1. todo \in SUBSET Wanted /\ IsFiniteSet(Wanted)
  BY WantedIsFinite DEF Shape
<1>2. Fetching \in SUBSET Workers /\ IsFiniteSet(Workers)
  BY PackageAssumption DEF Fetching
<1>3. IsFiniteSet(todo) /\ IsFiniteSet(Fetching)
  BY <1>1, <1>2, FS_Subset
<1> QED
  BY <1>3, FS_CardinalityType

\* A process without a session satisfies all of it but what is on disk.
LEMMA AfterClear ==
  ASSUME PInv, UNCHANGED <<release, patch, rotted>>, Clear,
         pc' = "idle", pkg' # "none" => pkg # "none"
  PROVE  PInv'
<1>1. Wanted' = Wanted
  BY DEF Wanted
<1>2. Fetching' = {} /\ Held' = {} /\ Running' = {}
  BY DEF Clear, Fetching, Held, Running
<1>3. Shape'
  BY <1>1 DEF PInv, Shape, Clear
<1>4. Queue'
  BY <1>1, <1>2 DEF PInv, Queue, Parted, Whole, Closed, Sealed, Clear
<1>5. Pool'
  BY <1>1, <1>2, FS_EmptySet DEF Pool, Counted, Accounted, Working, Clear
<1> QED
  BY <1>3, <1>4, <1>5 DEF PInv

LEMMA PInvInit == Init => PInv
<1> SUFFICES ASSUME Init PROVE PInv
  OBVIOUS
<1> USE DEF Init, PackageInit
<1>1. Fetching = {} /\ Held = {} /\ Running = {}
  BY DEF Fetching, Held, Running
<1>2. Shape
  BY DEF Shape
<1>3. Wanted \subseteq Patches
  BY WantedIsFinite
<1>4. Queue
  BY <1>1, <1>3 DEF Queue, Parted, Whole, Closed, Sealed
<1>5. Pool
  BY <1>1, FS_EmptySet DEF Pool, Counted, Accounted, Working
<1> QED
  BY <1>2, <1>4, <1>5 DEF PInv

\* A step of the application, which has no pool.
LEMMA OutsideTheDownload ==
  ASSUME PInv, UNCHANGED <<release, patch, rotted, poolVars>>,
         pc # "download", pc' \notin {"download", "joined", "recheck", "write"},
         pc' = "idle" => pc = "idle", pkg' # "none" => pkg # "none"
  PROVE  PInv'
<1>1. Wanted' = Wanted
  BY DEF Wanted
<1>2. Fetching' = Fetching /\ Held' = Held /\ Running' = Running
  BY DEF poolVars, workVars, Fetching, Held, Running
<1>3. Shape'
  BY <1>1 DEF PInv, Shape, poolVars, workVars
<1>4. Parted' /\ Whole'
  BY <1>1, <1>2 DEF PInv, Queue, Parted, Whole, poolVars, workVars
<1>5. Closed' /\ Sealed'
  BY <1>2 DEF PInv, Queue, Closed, Sealed, poolVars
<1>6. Pool'
  BY <1>2 DEF PInv, Pool, Counted, Accounted, Working, poolVars
<1> QED
  BY <1>3, <1>4, <1>5, <1>6 DEF PInv, Queue

LEMMA StartInv == ASSUME PInv, StartPreinstall PROVE PInv'
<1>1. Wanted' = Wanted /\ OnDisk \subseteq Wanted
  BY DEF StartPreinstall, Wanted, OnDisk
<1>2. PICK started \in SUBSET Workers :
        /\ Cardinality(started) \in {Initial, Cardinality(Wanted)}
        /\ at' = [w \in Workers |-> IF w \in started THEN "loop" ELSE "off"]
  BY DEF StartPreinstall
<1>3. Fetching' = {} /\ Held' = {} /\ Running' = started
  BY <1>2 DEF Fetching, Held, Running
<1>4. Shape'
  BY <1>1, <1>2 DEF PInv, Shape, StartPreinstall, diskVars
<1>5. Queue'
  BY <1>1, <1>3 DEF PInv, Queue, Parted, Whole, Closed, Sealed, StartPreinstall, diskVars, OnDisk
<1>6. Counted' /\ Accounted'
  <2>1. Cardinality(todo') \in Nat
    BY <1>4, CountsAreNumbers, WantedIsFinite, <1>1, FS_Subset, FS_CardinalityType
       DEF Shape, StartPreinstall, diskVars
  <2> QED
    BY <1>1, <1>3, <2>1, FS_EmptySet DEF Counted, Accounted, StartPreinstall
<1>7. Working'
  <2>1. CASE Wanted = {}
    BY <2>1 DEF Working, StartPreinstall
  <2>2. CASE Wanted # {}
    <3>1. IsFiniteSet(Wanted) /\ Cardinality(Wanted) # 0
      BY <2>2, WantedIsFinite, FS_EmptySet DEF PInv, Shape
    <3>2. Cardinality(started) # 0
      BY <1>2, <3>1, PackageAssumption
    <3>3. started # {}
      BY <3>2, FS_EmptySet
    <3> QED
      BY <1>3, <3>3 DEF Working
  <2> QED
    BY <2>1, <2>2
<1> QED
  BY <1>4, <1>5, <1>6, <1>7 DEF PInv, Pool

(***************************************************************************)
(* The pool.                                                               *)
(***************************************************************************)
\* A worker that is busy says that the download goes on.
LEMMA BusyDownloads ==
  ASSUME PInv, NEW w \in Workers, at[w] \in {"loop", "call", "fetch"}
  PROVE  pc = "download"
BY DEF PInv, Queue, Closed, Running

LEMMA ScaleInv == ASSUME PInv, NEW w \in Workers, Scale(w) PROVE PInv'
<1> USE DEF Scale, diskVars
<1>1. Wanted' = Wanted
  BY DEF Wanted
<1>2. Shape'
  BY <1>1 DEF PInv, Shape
<1>3. Fetching' = Fetching /\ Held' = Held /\ w \in Running'
  BY DEF PInv, Shape, Fetching, Held, Running
<1>4. Queue'
  BY <1>1, <1>3 DEF PInv, Queue, Parted, Whole, Closed, Sealed
<1>5. Pool'
  BY <1>1, <1>3 DEF PInv, Pool, Counted, Accounted, Working
<1> QED
  BY <1>2, <1>4, <1>5 DEF PInv

LEMMA TakeInv == ASSUME PInv, NEW w \in Workers, Take(w) PROVE PInv'
<1> USE DEF Take, diskVars
<1>1. Wanted' = Wanted
  BY DEF Wanted
<1>2. PICK p \in todo : todo' = todo \ {p} /\ job' = [job EXCEPT ![w] = p]
  OBVIOUS
<1>3. Shape'
  BY <1>1, <1>2 DEF PInv, Shape
<1>4. w \notin Fetching /\ Fetching' = Fetching \cup {w}
  BY DEF PInv, Shape, Fetching
<1>5. job'[w] = p /\ \A v \in Fetching : job'[v] = job[v]
  BY <1>2, <1>4 DEF PInv, Shape, Fetching
<1>6. Held' = Held \cup {p}
  BY <1>4, <1>5 DEF Held
<1>7. pc = "download" /\ w \in Running'
  BY BusyDownloads DEF PInv, Shape, Running
<1>8. Parted'
  <2>1. p \notin Held
    BY <1>2 DEF PInv, Queue, Parted
  <2>2. \A v, x \in Fetching' : job'[v] = job'[x] => v = x
    BY <2>1, <1>4, <1>5 DEF PInv, Queue, Parted, Held
  <2> QED
    BY <1>1, <1>2, <1>6, <2>1, <2>2 DEF PInv, Shape, Queue, Parted
<1>9. Whole' /\ Closed' /\ Sealed'
  BY <1>1, <1>2, <1>6, <1>7 DEF PInv, Queue, Whole, Closed, Sealed
<1>10. Counted'
  <2>1. Cardinality(todo') = Cardinality(todo) - 1
    BY <1>2, CountsAreNumbers, FS_RemoveElement DEF PInv
  <2>2. Cardinality(Fetching') = Cardinality(Fetching) + 1
    BY <1>4, CountsAreNumbers, FS_AddElement DEF PInv
  <2> QED
    BY <2>1, <2>2, CountsAreNumbers DEF PInv, Pool, Counted
<1>11. Accounted' /\ Working'
  BY <1>1, <1>2, <1>6, <1>7 DEF PInv, Pool, Accounted, Working
<1> QED
  BY <1>3, <1>8, <1>9, <1>10, <1>11 DEF PInv, Queue, Pool

LEMMA QuitInv == ASSUME PInv, NEW w \in Workers, Quit(w) PROVE PInv'
<1> USE DEF Quit, diskVars
<1>1. Wanted' = Wanted
  BY DEF Wanted
<1>2. Shape'
  BY <1>1 DEF PInv, Shape
<1>3. Fetching' = Fetching /\ Held' = Held /\ Running' \subseteq Running
  BY DEF PInv, Shape, Fetching, Held, Running
<1>4. Queue'
  BY <1>1, <1>3 DEF PInv, Queue, Parted, Whole, Closed, Sealed
<1>5. Pool'
  BY <1>1, <1>3 DEF PInv, Pool, Counted, Accounted, Working
<1> QED
  BY <1>2, <1>4, <1>5 DEF PInv

\* A chunk file is begun, or an attempt fails and is repeated.
LEMMA AttemptInv ==
  ASSUME PInv, NEW w \in Fetching,
         UNCHANGED <<release, rotted, pkg, pc, cancelled, had, todo, remaining, job, error, stopped>>,
         NEW now \in {"none", "partial", "good"}, patch' = [patch EXCEPT ![job[w]] = now],
         NEW there \in {"call", "fetch"}, at' = [at EXCEPT ![w] = there]
  PROVE  PInv'
<1>1. Wanted' = Wanted
  BY DEF Wanted
<1>2. w \in Workers /\ job[w] \in Held
  BY DEF Fetching, Held
<1>3. Shape'
  BY <1>1, <1>2 DEF PInv, Shape
<1>4. Fetching' = Fetching /\ Held' = Held /\ Running' = Running
  BY <1>2 DEF PInv, Shape, Fetching, Held, Running
<1>5. Parted' /\ Closed' /\ Sealed'
  BY <1>1, <1>4 DEF PInv, Queue, Parted, Closed, Sealed
<1>6. job[w] \notin had /\ Wanted \subseteq Patches
  BY <1>2, WantedIsFinite DEF PInv, Queue, Parted, Shape
<1>7. Whole'
  BY <1>1, <1>2, <1>4, <1>6 DEF PInv, Queue, Whole, Shape
<1>8. Pool'
  BY <1>1, <1>4 DEF PInv, Pool, Counted, Accounted, Working
<1> QED
  BY <1>3, <1>5, <1>7, <1>8 DEF PInv, Queue

LEMMA CreateInv == ASSUME PInv, NEW w \in Workers, Create(w) PROVE PInv'
<1>1. w \in Fetching
  BY DEF Create, Fetching
<1> QED
  BY <1>1, AttemptInv DEF Create

\* A worker accounts for its chunk: it was verified, or that is noted.
LEMMA EndChunkInv ==
  ASSUME PInv, NEW w \in Fetching, EndChunk(w),
         NEW now \in {"none", "partial", "good"},
         patch' = patch \/ patch' = [patch EXCEPT ![job[w]] = now],
         \/ had' = had /\ (error' \/ stopped') /\ (error => error') /\ (stopped => stopped')
         \/ /\ had' = had \cup {job[w]} /\ UNCHANGED <<error, stopped>>
            /\ patch' = [patch EXCEPT ![job[w]] = "good"]
  PROVE  PInv'
<1> USE DEF EndChunk
<1>1. Wanted' = Wanted
  BY DEF Wanted
<1>2. w \in Workers /\ job[w] \in Held
  BY DEF Fetching, Held
<1>3. job[w] \in Wanted /\ job[w] \notin had /\ job[w] \notin todo /\ Wanted \subseteq Patches
  BY <1>2, WantedIsFinite DEF PInv, Queue, Parted, Shape
<1>4. pc = "download"
  BY <1>2, BusyDownloads DEF Fetching
<1>5. Shape'
  BY <1>1, <1>2, <1>3 DEF PInv, Shape
<1>6. Fetching' = Fetching \ {w}
  BY <1>2 DEF PInv, Shape, Fetching
<1>7. Held' = Held \ {job[w]}
  BY <1>6 DEF PInv, Queue, Parted, Held
<1>8. Parted'
  BY <1>1, <1>3, <1>6, <1>7 DEF PInv, Queue, Parted
<1>9. Whole'
  BY <1>1, <1>2, <1>3, <1>7 DEF PInv, Queue, Whole, Shape
<1>10. Closed' /\ Sealed'
  BY <1>4 DEF PInv, Queue, Closed, Sealed
<1>11. Cardinality(Fetching') = Cardinality(Fetching) - 1
  BY <1>6, CountsAreNumbers, FS_RemoveElement DEF PInv
<1>12. Counted'
  BY <1>11, CountsAreNumbers DEF PInv, Pool, Counted
<1>13. Accounted'
  <2>1. CASE had' = had /\ (error' \/ stopped')
    BY <2>1 DEF Accounted
  <2>2. CASE had' = had \cup {job[w]} /\ UNCHANGED <<error, stopped>>
    BY <2>2, <1>1, <1>2, <1>3, <1>4, <1>7 DEF PInv, Pool, Accounted
  <2> QED
    BY <2>1, <2>2
<1>14. Working'
  <2>1. CASE remaining = 1
    <3>1. Cardinality(Fetching) # 0
      BY CountsAreNumbers, FS_EmptySet DEF PInv
    <3>2. Cardinality(todo) = 0
      BY <2>1, <3>1, CountsAreNumbers DEF PInv, Pool, Counted
    <3>3. todo = {}
      BY <3>2, CountsAreNumbers, FS_EmptySet DEF PInv
    <3> QED
      BY <3>3 DEF Working
  <2>2. CASE remaining # 1
    BY <2>2, <1>2 DEF Working, Running, PInv, Shape
  <2> QED
    BY <2>1, <2>2
<1> QED
  BY <1>5, <1>8, <1>9, <1>10, <1>12, <1>13, <1>14 DEF PInv, Queue, Pool

LEMMA AttemptFailsInv == ASSUME PInv, NEW w \in Workers, AttemptFails(w) PROVE PInv'
<1>1. w \in Fetching
  BY DEF AttemptFails, Fetching
<1>2. LeftOver(w) \subseteq {"none", "partial", "good"}
  <2>1. job[w] \in Patches
    BY <1>1, WantedIsFinite DEF PInv, Queue, Parted, Shape, Held
  <2> QED
    BY <2>1 DEF LeftOver, PInv, Shape
<1>3. PICK now \in {"none", "partial", "good"} : patch' = [patch EXCEPT ![job[w]] = now]
  BY <1>2 DEF AttemptFails
<1>4. CASE error' = TRUE /\ EndChunk(w) /\ UNCHANGED <<had, stopped>>
  BY <1>1, <1>3, <1>4, EndChunkInv
<1>5. CASE /\ at' = [at EXCEPT ![w] = "call"]
           /\ UNCHANGED <<release, tag, rotted, pkg, marker, pc, result, cancelled, had, todo,
                          remaining, job, error, stopped>>
  BY <1>1, <1>3, <1>5, AttemptInv
<1> QED
  BY <1>4, <1>5 DEF AttemptFails

LEMMA WorkerInv == ASSUME PInv, NEW w \in Workers, WorkerStep(w) PROVE PInv'
<1>1. CASE Refused(w)
  <2>1. w \in Fetching
    BY <1>1 DEF Refused, Fetching
  <2> QED
    BY <1>1, <2>1, EndChunkInv DEF Refused
<1>2. CASE Interrupted(w)
  <2>1. w \in Fetching
    BY <1>2 DEF Interrupted, Fetching
  <2> QED
    BY <1>2, <2>1, EndChunkInv DEF Interrupted
<1>3. CASE Delivered(w)
  <2>1. w \in Fetching
    BY <1>3 DEF Delivered, Fetching
  <2> QED
    BY <1>3, <2>1, EndChunkInv DEF Delivered
<1> QED
  BY <1>1, <1>2, <1>3, TakeInv, QuitInv, CreateInv, AttemptFailsInv DEF WorkerStep

(***************************************************************************)
(* The end of a session, what happens to it, and the application.          *)
(***************************************************************************)
LEMMA JoinInv == ASSUME PInv, Join PROVE PInv'
<1> USE DEF Join, diskVars, poolVars, workVars
<1>1. Wanted' = Wanted /\ Fetching' = Fetching /\ Held' = Held /\ Running' = Running
  BY DEF Wanted, Fetching, Held, Running
<1> QED
  BY <1>1 DEF PInv, Shape, Queue, Parted, Whole, Closed, Sealed, Pool, Counted, Accounted, Working

LEMMA ConcludeInv == ASSUME PInv, Conclude PROVE PInv'
<1>1. CASE pc' = "recheck" /\ UNCHANGED <<result, poolVars>> /\ Cardinality(had) = Cardinality(Wanted)
  <2> USE DEF Conclude, diskVars, poolVars, workVars
  <2>1. Wanted' = Wanted /\ Fetching' = Fetching /\ Held' = Held /\ Running' = Running
    BY <1>1 DEF Wanted, Fetching, Held, Running
  <2>2. had = Wanted
    BY <1>1, WantedIsFinite, FS_Subset DEF PInv, Shape
  <2> QED
    BY <1>1, <2>1, <2>2
       DEF PInv, Shape, Queue, Parted, Whole, Closed, Sealed, Pool, Counted, Accounted, Working
<1>2. CASE \E how \in {"cancelled", "failed"} : Return(how)
  BY <1>2, AfterClear DEF Conclude, Return, diskVars
<1> QED
  BY <1>1, <1>2 DEF Conclude

LEMMA RecheckInv == ASSUME PInv, Recheck PROVE PInv'
<1>1. CASE pc' = "write" /\ UNCHANGED <<result, poolVars>>
  <2> USE DEF Recheck, diskVars, poolVars, workVars
  <2>1. Wanted' = Wanted /\ Fetching' = Fetching /\ Held' = Held /\ Running' = Running
    BY <1>1 DEF Wanted, Fetching, Held, Running
  <2> QED
    BY <1>1, <2>1
       DEF PInv, Shape, Queue, Parted, Whole, Closed, Sealed, Pool, Counted, Accounted, Working
<1>2. CASE \E how \in {"cancelled", "failed"} : Return(how)
  BY <1>2, AfterClear DEF Recheck, Return, diskVars
<1> QED
  BY <1>1, <1>2 DEF Recheck

LEMMA WriteInv == ASSUME PInv, Write PROVE PInv'
<1> USE DEF Write, poolVars, workVars
<1>1. Wanted' = Wanted /\ Fetching' = Fetching /\ Held' = Held /\ Running' = Running
  BY DEF Wanted, Fetching, Held, Running
<1>2. had = Wanted /\ todo = {} /\ Held = {}
  BY DEF PInv, Queue, Sealed, Shape, Parted
<1>3. Whole'
  BY <1>1, <1>2 DEF PInv, Queue, Whole
<1> QED
  BY <1>1, <1>3
     DEF PInv, Shape, Queue, Parted, Closed, Sealed, Pool, Counted, Accounted, Working

LEMMA MarkInv == ASSUME PInv, Mark PROVE PInv'
BY AfterClear DEF Mark, Return

LEMMA PreinstallInv == ASSUME PInv, PreinstallStep PROVE PInv'
BY WorkerInv, JoinInv, ConcludeInv, RecheckInv, WriteInv, MarkInv DEF PreinstallStep

\* The handle and the tag are not part of what the pool relies on, but a
\* cancellation may stop everybody.
LEMMA CancelInv == ASSUME PInv, Cancel \/ Elsewhere PROVE PInv'
<1> USE DEF Cancel, Elsewhere, diskVars, poolVars, workVars
<1>1. Wanted' = Wanted /\ Fetching' = Fetching /\ Held' = Held /\ Running' = Running
  BY DEF Wanted, Fetching, Held, Running
<1> QED
  BY <1>1 DEF PInv, Shape, Queue, Parted, Whole, Closed, Sealed, Pool, Counted, Accounted, Working

LEMMA RotInv == ASSUME PInv, NEW p \in Patches, Rot(p) PROVE PInv'
<1> USE DEF Rot, poolVars, workVars
<1>1. Wanted' = Wanted /\ Fetching' = Fetching /\ Held' = Held /\ Running' = Running
  BY DEF Wanted, Fetching, Held, Running
<1>2. Shape'
  BY <1>1 DEF PInv, Shape
<1>3. had = {}
  BY DEF PInv, Queue, Closed
<1>4. Queue'
  BY <1>1, <1>3 DEF PInv, Shape, Queue, Parted, Whole, Closed, Sealed
<1>5. Pool'
  BY <1>1 DEF PInv, Pool, Counted, Accounted, Working
<1> QED
  BY <1>2, <1>4, <1>5 DEF PInv

LEMMA PackageInv == ASSUME PInv, PackageStep PROVE PInv'
<1>1. CASE Crash
  BY <1>1, AfterClear DEF Crash, Return, diskVars
<1> QED
  BY <1>1, StartInv, PreinstallInv, ScaleInv, CancelInv, RotInv DEF PackageStep

\* An application ends as a process without memory, or goes on without a pool.
LEMMA ApplyInv == ASSUME PInv, StartApply \/ ApplyStep PROVE PInv'
<1> DEFINE Ends == /\ Clear /\ pc' = "idle"
                   /\ UNCHANGED <<release, patch, rotted>>
                   /\ pkg' # "none" => pkg # "none"
           GoesOn == /\ UNCHANGED <<release, patch, rotted, poolVars>>
                     /\ pc # "download"
                     /\ pc' \notin {"download", "joined", "recheck", "write", "idle"}
                     /\ pkg' # "none" => pkg # "none"
<1>1. CASE StartApply
  BY <1>1, OutsideTheDownload DEF StartApply, diskVars
<1>2. CASE Refuse \/ Migrate \/ MigrationFails \/ Load
  <2>1. Ends \/ GoesOn
    BY <1>2 DEF Refuse, Migrate, MigrationFails, Load, Stop, Return, Goto, diskVars
  <2> QED
    BY <2>1, AfterClear, OutsideTheDownload
<1>3. CASE StopIfCancelled \/ OverFails \/ EndDelete
  <2>1. Ends \/ GoesOn
    BY <1>3 DEF StopIfCancelled, OverFails, EndDelete, Stop, Return, Goto, diskVars
  <2> QED
    BY <2>1, AfterClear, OutsideTheDownload
<1>4. CASE SkipAsset \/ BeginAsset \/ TrySucceeds \/ OverSucceeds \/ BeginDelete
  <2>1. GoesOn
    BY <1>4 DEF SkipAsset, BeginAsset, TrySucceeds, OverSucceeds, BeginDelete, AtAsset, Advance,
                Goto, diskVars
  <2> QED
    BY <2>1, OutsideTheDownload
<1>5. CASE TryFails
  <2>1. Ends \/ GoesOn
    BY <1>5 DEF TryFails, Stop, Return, Goto, diskVars
  <2> QED
    BY <2>1, AfterClear, OutsideTheDownload
<1>6. CASE (\E f \in Files : Delete(f)) \/ WriteTag \/ RemoveState
  <2>1. /\ UNCHANGED <<release, patch, rotted, poolVars>>
        /\ pc \in {"delete", "tag", "unstate"} /\ pc' \in {"delete", "unstate", "unmark"}
        /\ pkg' # "none" => pkg # "none"
    BY <1>6 DEF Delete, WriteTag, RemoveState, Goto, packageVars, diskVars
  <2> QED
    BY <2>1, OutsideTheDownload
<1>7. CASE RemoveMarker
  BY <1>7, AfterClear DEF RemoveMarker, Stop, Return
<1> QED
  BY <1>1, <1>2, <1>3, <1>4, <1>5, <1>6, <1>7 DEF ApplyStep

LEMMA PInvNext == PInv /\ [Next]_vars => PInv'
<1>1. ASSUME PInv, UNCHANGED vars PROVE PInv'
  <2> USE <1>1 DEF vars, packageVars, diskVars, poolVars, workVars
  <2>1. Wanted' = Wanted /\ Fetching' = Fetching /\ Held' = Held /\ Running' = Running
    BY DEF Wanted, Fetching, Held, Running
  <2> QED
    BY <2>1
       DEF PInv, Shape, Queue, Parted, Whole, Closed, Sealed, Pool, Counted, Accounted, Working
<1> QED
  BY <1>1, PackageInv, ApplyInv DEF Next

LEMMA PoolIsSound == Spec => []PInv
BY PInvInit, PInvNext, PTL DEF Spec

(***************************************************************************)
(* While there is a state file of a package, each chunk it needs is there  *)
(* and whole, whatever was cancelled, failed or crashed before and after.  *)
(***************************************************************************)
THEOREM PackageIsWholeHolds == Spec => []PackageIsWhole
<1>1. PInv => PackageIsWhole
  BY DEF PInv, Queue, Whole, PackageIsWhole
<1> QED
  BY <1>1, PoolIsSound, PTL

(***************************************************************************)
(* Workers that are joined without an error or a cancellation have left    *)
(* no chunk unverified.                                                    *)
(***************************************************************************)
THEOREM NothingUnverifiedHolds == Spec => []NothingUnverified
<1>1. ASSUME PInv PROVE NothingUnverified
  <2> SUFFICES ASSUME pc = "joined", ~error, ~stopped, ~cancelled PROVE had = Wanted
    BY DEF NothingUnverified
  <2>1. Running = {} /\ Held = {}
    BY <1>1 DEF PInv, Queue, Closed, Running, Fetching, Held
  <2>2. todo = {}
    BY <1>1, <2>1 DEF PInv, Pool, Working
  <2> QED
    BY <1>1, <2>1, <2>2 DEF PInv, Pool, Accounted
<1> QED
  BY <1>1, PoolIsSound, PTL

(***************************************************************************)
(* What an application does to files.  It runs over the version it is for, *)
(* since the tag is read first and nobody else updates the game meanwhile. *)
(***************************************************************************)
Applying == {"next", "try", "over", "delete", "tag"}

AInv ==
  /\ DOMAIN file = Files /\ file = [f \in Files |-> file[f]]
  /\ left \subseteq Deleted(release)
  /\ pc \in Applying => tag = "old"

LEMMA AInvInit == Init => AInv
BY DEF Init, PackageInit, Idle, AInv, Applying

\* What happens between applications leaves none under way.
LEMMA AInvPackage == ASSUME AInv, PackageStep PROVE AInv'
<1>1. CASE Elsewhere /\ Overwritten /\ UNCHANGED applyVars
  BY <1>1 DEF Elsewhere, Overwritten, AInv, Applying, Downloading, applyVars
<1>2. CASE Crash /\ ResetApply /\ UNCHANGED file
  BY <1>2 DEF Crash, ResetApply, Return, AInv, Applying, diskVars
<1>3. ASSUME UNCHANGED <<file, applyVars, release>>,
             pc' \in Downloading \cup {"idle"} \/ (pc' = pc /\ tag' = tag)
      PROVE  AInv'
  BY <1>3 DEF AInv, Applying, applyVars, Downloading
<1>4. CASE /\ StartPreinstall \/ Cancel \/ (\E p \in Patches : Rot(p))
              \/ (\E w \in Workers : Scale(w))
           /\ UNCHANGED <<file, applyVars>>
  <2>1. release' = release /\ (pc' \in Downloading \cup {"idle"} \/ (pc' = pc /\ tag' = tag))
    BY <1>4 DEF StartPreinstall, Cancel, Rot, Scale, Downloading, diskVars
  <2> QED
    BY <2>1, <1>3, <1>4
<1>5. CASE Join \/ Conclude \/ Recheck \/ Write \/ Mark
  <2>1. release' = release /\ pc' \in Downloading \cup {"idle"}
    BY <1>5 DEF Join, Conclude, Recheck, Write, Mark, Return, Downloading, diskVars
  <2>2. UNCHANGED <<file, applyVars>> => AInv'
    BY <2>1, <1>3
  <2> QED
    BY <2>2, <1>1, <1>2, <1>4 DEF PackageStep
<1>6. ASSUME NEW w \in Workers, WorkerStep(w), UNCHANGED <<file, applyVars>> PROVE AInv'
  <2>1. release' = release /\ pc' = pc /\ tag' = tag
    BY <1>6 DEF WorkerStep, Take, Quit, Refused, Create, AttemptFails, Interrupted, Delivered,
                EndChunk, diskVars
  <2> QED
    BY <2>1, <1>3, <1>6
<1> QED
  BY <1>1, <1>2, <1>4, <1>5, <1>6 DEF PackageStep, PreinstallStep

LEMMA AInvApply == ASSUME AInv, StartApply \/ ApplyStep PROVE AInv'
<1>1. CASE StartApply \/ Refuse \/ Load \/ Migrate \/ MigrationFails
  BY <1>1 DEF StartApply, Refuse, Load, Migrate, MigrationFails, Stop, Return, ResetApply, Goto,
              AInv, Applying, applyVars, diskVars
<1>2. CASE StopIfCancelled \/ SkipAsset \/ BeginAsset
  BY <1>2 DEF StopIfCancelled, SkipAsset, BeginAsset, AtAsset, Advance, Stop, Return, ResetApply,
              Goto, AInv, Applying, applyVars, diskVars
<1>3. CASE TrySucceeds \/ OverSucceeds
  <2>1. /\ file' = [file EXCEPT ![asset.file] = "new"] /\ UNCHANGED <<release, tag, left>>
        /\ pc \in Applying
    BY <1>3 DEF TrySucceeds, OverSucceeds, Advance, Goto, applyVars, diskVars, Applying
  <2> QED
    BY <2>1 DEF AInv
<1>4. CASE TryFails
  <2>1. /\ UNCHANGED <<release, tag, file>> /\ pc \in Applying
        /\ left' \in {left, {}}
    BY <1>4 DEF TryFails, Stop, Return, ResetApply, Goto, diskVars, Applying
  <2> QED
    BY <2>1 DEF AInv
<1>5. CASE OverFails \/ BeginDelete \/ EndDelete
  BY <1>5 DEF OverFails, BeginDelete, EndDelete, Stop, Return, ResetApply, Goto, AInv, Applying,
              applyVars, diskVars
<1>6. ASSUME NEW f \in Files, Delete(f) PROVE AInv'
  <2>1. /\ UNCHANGED <<release, tag, pc>> /\ left' \subseteq left
        /\ file' = [file EXCEPT ![f] = "missing"] \/ file' = file
    BY <1>6 DEF Delete, packageVars, diskVars
  <2> QED
    BY <2>1 DEF AInv
<1>7. CASE WriteTag \/ RemoveState \/ RemoveMarker
  BY <1>7 DEF WriteTag, RemoveState, RemoveMarker, Stop, Return, ResetApply, Goto, AInv, Applying,
              applyVars
<1> QED
  BY <1>1, <1>2, <1>3, <1>4, <1>5, <1>6, <1>7 DEF ApplyStep

LEMMA AInvNext == AInv /\ [Next]_vars => AInv'
<1>1. ASSUME AInv, UNCHANGED vars PROVE AInv'
  BY <1>1 DEF AInv, vars, packageVars, diskVars, applyVars
<1> QED
  BY <1>1, AInvPackage, AInvApply DEF Next

(***************************************************************************)
(* No step takes back a new file, except the deletions at the end, and a   *)
(* game of a version the package is not for is left alone.                 *)
(***************************************************************************)
THEOREM ProgressIsKeptHolds == Spec => ProgressIsKept
<1> DEFINE Kept == /\ \A f \in Files : (file[f] = "new" /\ file'[f] # "new") => f \in Deleted(release)
                   /\ tag = "other" => file' = file
<1>1. ASSUME file' = file PROVE Kept
  BY <1>1
<1>2. ASSUME AInv, Elsewhere, Overwritten PROVE Kept
  BY <1>2 DEF AInv, Elsewhere, Overwritten
<1>3. ASSUME AInv, TrySucceeds \/ OverSucceeds PROVE Kept
  <2>1. file' = [file EXCEPT ![asset.file] = "new"] /\ tag = "old"
    BY <1>3 DEF TrySucceeds, OverSucceeds, AInv, Applying
  <2> QED
    BY <2>1, <1>3 DEF AInv
<1>4. ASSUME AInv, NEW f \in Files, Delete(f) PROVE Kept
  <2>1. /\ file' = [file EXCEPT ![f] = "missing"] \/ file' = file
        /\ f \in Deleted(release) /\ tag = "old"
    BY <1>4 DEF Delete, AInv, Applying
  <2> QED
    BY <2>1, <1>4 DEF AInv
<1>5. ASSUME AInv, PackageStep PROVE Kept
  BY <1>1, <1>2, <1>5 DEF PackageStep
<1>6. ASSUME AInv, ApplyStep PROVE Kept
  <2>1. CASE Refuse \/ Load \/ Migrate \/ MigrationFails \/ StopIfCancelled \/ SkipAsset
    BY <2>1, <1>1 DEF Refuse, Load, Migrate, MigrationFails, StopIfCancelled, SkipAsset
  <2>2. CASE BeginAsset \/ TryFails \/ OverFails \/ BeginDelete \/ EndDelete
    BY <2>2, <1>1 DEF BeginAsset, TryFails, OverFails, BeginDelete, EndDelete
  <2>3. CASE WriteTag \/ RemoveState \/ RemoveMarker
    BY <2>3, <1>1 DEF WriteTag, RemoveState, RemoveMarker
  <2> QED
    BY <2>1, <2>2, <2>3, <1>3, <1>4, <1>6 DEF ApplyStep
<1>7. AInv /\ [Next]_vars => [Kept]_vars
  BY <1>5, <1>6, <1>1 DEF Next, StartApply
<1> QED
  BY <1>7, AInvInit, AInvNext, PTL DEF Spec, ProgressIsKept
-----------------------------------------------------------------------------
(***************************************************************************)
(* The plan.  The earlier places of two are nested, so that each has a     *)
(* number of its own.                                                      *)
(***************************************************************************)
Before(S, x) == {y \in S : Earlier(y, x)}

LEMMA EarlierIsOrder ==
  ASSUME NEW x \in Nat \X Nat, NEW y \in Nat \X Nat, NEW z \in Nat \X Nat
  PROVE  /\ ~Earlier(x, x)
         /\ x = y \/ Earlier(x, y) \/ Earlier(y, x)
         /\ Earlier(x, y) /\ Earlier(y, z) => Earlier(x, z)
<1>1. x = <<x[1], x[2]>> /\ y = <<y[1], y[2]>> /\ x[1] \in Nat /\ x[2] \in Nat
      /\ y[1] \in Nat /\ y[2] \in Nat /\ z[1] \in Nat /\ z[2] \in Nat
  OBVIOUS
<1> QED
  BY <1>1 DEF Earlier

LEMMA EarlierHasLess ==
  ASSUME NEW S \in SUBSET (Nat \X Nat), IsFiniteSet(S), NEW x \in S, NEW y \in S, Earlier(x, y)
  PROVE  Cardinality(Before(S, x)) < Cardinality(Before(S, y))
<1>1. Before(S, y) \in SUBSET S /\ IsFiniteSet(Before(S, y))
  BY FS_Subset DEF Before
<1>2. Before(S, x) \in SUBSET Before(S, y)
  BY EarlierIsOrder DEF Before
<1>3. x \in Before(S, y) /\ x \notin Before(S, x)
  BY EarlierIsOrder DEF Before
<1>4. /\ Cardinality(Before(S, x)) <= Cardinality(Before(S, y))
      /\ Cardinality(Before(S, x)) # Cardinality(Before(S, y))
      /\ IsFiniteSet(Before(S, x))
  BY <1>1, <1>2, <1>3, FS_Subset
<1>5. Cardinality(Before(S, x)) \in Nat /\ Cardinality(Before(S, y)) \in Nat
  BY <1>1, <1>4, FS_CardinalityType
<1> QED
  BY <1>4, <1>5

LEMMA InOrderCovers ==
  ASSUME NEW S \in SUBSET (Nat \X Nat), IsFiniteSet(S), NEW x \in S
  PROVE  \E n \in 1 .. Cardinality(S) : InOrder(S)[n] = x
<1>1. Before(S, x) \in SUBSET S /\ x \notin Before(S, x)
  BY EarlierIsOrder DEF Before
<1>2. /\ Cardinality(Before(S, x)) \in Nat /\ Cardinality(S) \in Nat
      /\ Cardinality(Before(S, x)) < Cardinality(S)
  BY <1>1, FS_Subset, FS_CardinalityType
<1> DEFINE n == Cardinality(Before(S, x)) + 1
<1>3. n \in 1 .. Cardinality(S)
  BY <1>2
<1>4. ASSUME NEW y \in S, Cardinality(Before(S, y)) = n - 1 PROVE y = x
  <2>1. Cardinality(Before(S, y)) = Cardinality(Before(S, x))
    BY <1>2, <1>4
  <2> QED
    BY <1>2, <2>1, EarlierHasLess, EarlierIsOrder
<1>5. Cardinality(Before(S, x)) = n - 1
  BY <1>2
<1>6. InOrder(S)[n] = CHOOSE y \in S : Cardinality(Before(S, y)) = n - 1
  BY <1>3 DEF InOrder, Before
<1>7. InOrder(S)[n] = x
  BY <1>4, <1>5, <1>6
<1> QED
  BY <1>3, <1>7

LEMMA EveryPlaceIsTaken ==
  ASSUME NEW S \in SUBSET (Nat \X Nat), IsFiniteSet(S), NEW n \in 1 .. Cardinality(S)
  PROVE  \E x \in S : Cardinality(Before(S, x)) = n - 1
<1> DEFINE number == [x \in S |-> Cardinality(Before(S, x)) + 1]
           all == 1 .. Cardinality(S)
<1>1. Cardinality(S) \in Int /\ 1 \in Int /\ Cardinality(S) >= 0
  BY FS_CardinalityType
<1>2. IsFiniteSet(all) /\ Cardinality(all) = Cardinality(S)
  BY <1>1, FS_Interval
<1>3. ASSUME NEW x \in S
      PROVE  Cardinality(Before(S, x)) \in Nat /\ Cardinality(Before(S, x)) + 1 \in all
  <2>1. Before(S, x) \in SUBSET S /\ x \notin Before(S, x)
    BY EarlierIsOrder DEF Before
  <2>2. /\ Cardinality(Before(S, x)) \in Nat
        /\ Cardinality(Before(S, x)) < Cardinality(S)
    BY <1>1, <2>1, FS_Subset, FS_CardinalityType
  <2> QED
    BY <1>1, <2>2
<1>4. number \in Injection(S, all)
  <2>1. number \in [S -> all]
    BY <1>3
  <2>2. ASSUME NEW x \in S, NEW y \in S, number[x] = number[y] PROVE x = y
    <3>1. Cardinality(Before(S, x)) = Cardinality(Before(S, y))
      BY <1>3, <2>2
    <3> QED
      BY <1>3, <3>1, EarlierHasLess, EarlierIsOrder
  <2> QED
    BY <2>1, <2>2 DEF Injection, IsInjective
<1>5. number \in Surjection(S, all)
  BY <1>2, <1>4, FS_Injection
<1>6. PICK x \in S : number[x] = n
  BY <1>5 DEF Surjection
<1> QED
  BY <1>3, <1>6

LEMMA PlacesAreFinite ==
  ASSUME NEW r \in Releases
  PROVE  Places(r) \in SUBSET (Nat \X Nat) /\ IsFiniteSet(Places(r))
<1> DEFINE at_(i) == {i} \X DOMAIN r.patches[i].assets
           all == {at_(i) : i \in DOMAIN r.patches}
<1>1. DOMAIN r.patches = 1 .. Len(r.patches) /\ Len(r.patches) \in Int /\ 1 \in Int
  BY ReleaseAssumption
<1>2. ASSUME NEW i \in DOMAIN r.patches
      PROVE  IsFiniteSet(at_(i)) /\ at_(i) \in SUBSET (Nat \X Nat)
  <2>1. /\ DOMAIN r.patches[i].assets = 1 .. Len(r.patches[i].assets)
        /\ Len(r.patches[i].assets) \in Int /\ 1 \in Int
    BY ReleaseAssumption
  <2>2. IsFiniteSet({i}) /\ IsFiniteSet(1 .. Len(r.patches[i].assets))
    BY <2>1, FS_Singleton, FS_Interval
  <2>3. IsFiniteSet(at_(i))
    BY <2>1, <2>2, FS_Product
  <2> QED
    BY <1>1, <2>1, <2>3
<1>3. IsFiniteSet(all)
  <2>1. IsFiniteSet(DOMAIN r.patches)
    BY <1>1, FS_Interval
  <2>2. [i \in DOMAIN r.patches |-> at_(i)] \in Surjection(DOMAIN r.patches, all)
    BY DEF Surjection
  <2> QED
    BY <2>1, <2>2, FS_Surjection
<1>4. \A T \in all : IsFiniteSet(T)
  BY <1>2
<1>5. Places(r) = UNION all
  BY DEF Places
<1> QED
  BY <1>2, <1>3, <1>4, <1>5, FS_UNION

(***************************************************************************)
(* A sequence by its length and its elements, and the one behind another.  *)
(***************************************************************************)
LEMMA LengthOf ==
  ASSUME NEW k \in Nat, NEW s, s = [n \in 1 .. k |-> s[n]]
  PROVE  s \in Seq({s[n] : n \in 1 .. k}) /\ Len(s) = k /\ DOMAIN s = 1 .. k
<1>1. s \in [1 .. k -> {s[n] : n \in 1 .. k}]
  OBVIOUS
<1>2. s \in Seq({s[n] : n \in 1 .. k})
  BY <1>1, SeqDef
<1> QED
  BY <1>1, <1>2, LenProperties

LEMMA OneBehindTheOther ==
  ASSUME NEW S, NEW T, NEW s \in Seq(S), NEW t \in Seq(T)
  PROVE  /\ Len(s \o t) = Len(s) + Len(t)
         /\ DOMAIN (s \o t) = 1 .. Len(s) + Len(t)
         /\ \A n \in 1 .. Len(s) : (s \o t)[n] = s[n]
         /\ \A n \in 1 .. Len(t) : (s \o t)[Len(s) + n] = t[n]
<1>1. s \in Seq(S \cup T) /\ t \in Seq(S \cup T)
  OBVIOUS
<1> QED
  BY <1>1

LEMMA PatchTasksOf ==
  ASSUME NEW r \in Releases
  PROVE  /\ Cardinality(PlannedPlaces(r)) \in Nat
         /\ PatchTasks(r) \in Seq({PatchTasks(r)[n] : n \in DOMAIN PatchTasks(r)})
         /\ Len(PatchTasks(r)) = Cardinality(PlannedPlaces(r))
         /\ DOMAIN PatchTasks(r) = 1 .. Cardinality(PlannedPlaces(r))
<1>1. PlannedPlaces(r) \in SUBSET Places(r)
  BY DEF PlannedPlaces
<1>2. Cardinality(PlannedPlaces(r)) \in Nat
  BY <1>1, PlacesAreFinite, FS_Subset, FS_CardinalityType
<1> DEFINE k == Cardinality(PlannedPlaces(r))
<1>3. PatchTasks(r) = [n \in 1 .. k |-> PatchTasks(r)[n]]
  BY DEF PatchTasks, InOrder
<1> QED
  BY <1>2, <1>3, LengthOf

New(r) == MainFiles(r) \ Seen(r, Len(r.patches))

LEMMA MainTasksOf ==
  ASSUME NEW r \in Releases
  PROVE  /\ MainTasks(r) \in Seq({MainTasks(r)[n] : n \in DOMAIN MainTasks(r)})
         /\ Len(MainTasks(r)) \in Nat /\ DOMAIN MainTasks(r) = 1 .. Len(MainTasks(r))
         /\ \A n \in DOMAIN MainTasks(r) : MainTasks(r)[n].file \in New(r)
         /\ \A f \in New(r) : \E n \in DOMAIN MainTasks(r) : MainTasks(r)[n].file = f
<1>1. IsFiniteSet(New(r))
  <2>1. New(r) \in SUBSET MainFiles(r)
    BY DEF New
  <2> QED
    BY <2>1, ReleaseAssumption, FS_Subset
<1> DEFINE k == Cardinality(New(r))
           new == SetToSeq(New(r))
<1>2. k \in Nat /\ \E g \in [1 .. k -> New(r)] : IsInjective(g)
  BY <1>1, FS_CardinalityType DEF ExistsBijection, Bijection, Injection
<1>3. new \in [1 .. k -> New(r)] /\ IsInjective(new)
  BY <1>2 DEF SetToSeq
<1>4. new \in Surjection(1 .. k, New(r))
  <2>1. new \in Injection(1 .. k, New(r)) /\ Cardinality(1 .. k) = k
    BY <1>2, <1>3, FS_Interval DEF Injection
  <2> QED
    BY <1>1, <2>1, FS_Injection
<1>5. /\ DOMAIN MainTasks(r) = 1 .. k
      /\ \A n \in 1 .. k : MainTasks(r)[n].file = new[n]
      /\ MainTasks(r) = [n \in 1 .. k |-> MainTasks(r)[n]]
  <2>1. DOMAIN new = 1 .. k
    BY <1>3
  <2> QED
    BY <2>1 DEF MainTasks, New, Over
<1>6. /\ MainTasks(r) \in Seq({MainTasks(r)[n] : n \in 1 .. k}) /\ Len(MainTasks(r)) = k
  BY <1>2, <1>5, LengthOf
<1>7. \A n \in 1 .. k : MainTasks(r)[n].file \in New(r)
  BY <1>3, <1>5
<1>8. \A f \in New(r) : \E n \in 1 .. k : MainTasks(r)[n].file = f
  BY <1>4, <1>5 DEF Surjection
<1> QED
  BY <1>2, <1>5, <1>6, <1>7, <1>8

(***************************************************************************)
(* The tasks: each is about a file of the game, and together they make all *)
(* that the release has, if every field that patches a file of the main    *)
(* manifests has a main manifest itself.  (Else the file would count as    *)
(* seen, but get no task.)                                                 *)
(***************************************************************************)
PatchersHaveMain ==
  \A r \in Releases : \A x \in Places(r) :
    AssetAt(r, x).file \in MainFiles(r) => HasMain(r, r.patches[x[1]].field)

LEMMA TasksOf ==
  ASSUME NEW r \in Releases
  PROVE  /\ Len(Tasks(r)) \in Nat /\ DOMAIN Tasks(r) = 1 .. Len(Tasks(r))
         /\ Len(Tasks(r)) = Len(PatchTasks(r)) + Len(MainTasks(r))
         /\ \A n \in DOMAIN PatchTasks(r) : n \in DOMAIN Tasks(r) /\ Tasks(r)[n] = PatchTasks(r)[n]
         /\ \A n \in DOMAIN MainTasks(r) : \E i \in DOMAIN Tasks(r) : Tasks(r)[i] = MainTasks(r)[n]
         /\ \A i \in DOMAIN Tasks(r) : \/ \E n \in DOMAIN PatchTasks(r) : Tasks(r)[i] = PatchTasks(r)[n]
                                       \/ \E n \in DOMAIN MainTasks(r) : Tasks(r)[i] = MainTasks(r)[n]
<1> DEFINE s == PatchTasks(r)
           t == MainTasks(r)
           S == {s[n] : n \in DOMAIN s}
           T == {t[n] : n \in DOMAIN t}
<1>1. s \in Seq(S) /\ t \in Seq(T)
  BY PatchTasksOf, MainTasksOf
<1>2. /\ Len(s) \in Nat /\ DOMAIN s = 1 .. Len(s) /\ Len(t) \in Nat /\ DOMAIN t = 1 .. Len(t)
  BY PatchTasksOf, MainTasksOf
<1>3. Tasks(r) = s \o t
  BY DEF Tasks
<1> HIDE DEF s, t, S, T
<1>4. /\ Len(s \o t) = Len(s) + Len(t)
      /\ DOMAIN (s \o t) = 1 .. Len(s) + Len(t)
      /\ \A n \in 1 .. Len(s) : (s \o t)[n] = s[n]
      /\ \A n \in 1 .. Len(t) : (s \o t)[Len(s) + n] = t[n]
  BY <1>1, OneBehindTheOther
<1>5. \A n \in 1 .. Len(t) : Len(s) + n \in 1 .. Len(s) + Len(t)
  BY <1>2
<1>6. ASSUME NEW i \in 1 .. Len(s) + Len(t)
      PROVE  i \in 1 .. Len(s) \/ \E n \in 1 .. Len(t) : i = Len(s) + n
  <2>1. CASE i <= Len(s)
    BY <1>2, <2>1
  <2>2. CASE ~(i <= Len(s))
    <3>1. i - Len(s) \in 1 .. Len(t) /\ i = Len(s) + (i - Len(s))
      BY <1>2, <2>2
    <3> QED
      BY <3>1
  <2> QED
    BY <2>1, <2>2
<1>7. /\ Len(s \o t) \in Nat /\ DOMAIN (s \o t) = 1 .. Len(s \o t)
      /\ \A n \in DOMAIN s : n \in DOMAIN (s \o t)
  BY <1>2, <1>4
<1>8. \A n \in DOMAIN t : \E i \in DOMAIN (s \o t) : (s \o t)[i] = t[n]
  BY <1>2, <1>4, <1>5
<1>9. \A i \in DOMAIN (s \o t) : \/ \E n \in DOMAIN s : (s \o t)[i] = s[n]
                                 \/ \E n \in DOMAIN t : (s \o t)[i] = t[n]
  <2> SUFFICES ASSUME NEW i \in DOMAIN (s \o t)
               PROVE  \/ \E n \in DOMAIN s : (s \o t)[i] = s[n]
                      \/ \E n \in DOMAIN t : (s \o t)[i] = t[n]
    OBVIOUS
  <2>1. i \in 1 .. Len(s) + Len(t)
    BY <1>4
  <2>2. CASE i \in 1 .. Len(s)
    BY <2>2, <1>2, <1>4
  <2>3. CASE \E n \in 1 .. Len(t) : i = Len(s) + n
    BY <2>3, <1>2, <1>4
  <2> QED
    BY <2>1, <2>2, <2>3, <1>6
<1> QED
  BY <1>2, <1>3, <1>4, <1>7, <1>8, <1>9 DEF s, t

LEMMA TaskIsOfAsset ==
  ASSUME NEW m, NEW a PROVE Task(m, a).file = a.file
BY DEF Task, Over

LEMMA TaskFilesAreFiles ==
  ASSUME NEW r \in Releases, NEW i \in DOMAIN Tasks(r) PROVE Tasks(r)[i].file \in Files
<1>1. ASSUME NEW n \in DOMAIN PatchTasks(r) PROVE PatchTasks(r)[n].file \in Files
  <2> DEFINE x == InOrder(PlannedPlaces(r))[n]
             S == PlannedPlaces(r)
  <2>1. n \in 1 .. Cardinality(S) /\ S \in SUBSET (Nat \X Nat) /\ IsFiniteSet(S)
    BY PatchTasksOf, PlacesAreFinite, FS_Subset DEF PlannedPlaces
  <2>2. x \in Places(r)
    <3>1. ASSUME NEW k \in 1 .. Cardinality(S) PROVE \E y \in S : Cardinality(Before(S, y)) = k - 1
      BY <2>1, <3>1, EveryPlaceIsTaken
    <3>2. x = CHOOSE y \in S : Cardinality(Before(S, y)) = n - 1
      BY <2>1 DEF InOrder, Before
    <3> QED
      BY <2>1, <3>1, <3>2 DEF PlannedPlaces
  <2>3. PatchTasks(r)[n].file = AssetAt(r, x).file
    BY <2>1, TaskIsOfAsset DEF PatchTasks, InOrder
  <2> QED
    BY <2>2, <2>3, ReleaseAssumption
<1>2. ASSUME NEW n \in DOMAIN MainTasks(r) PROVE MainTasks(r)[n].file \in Files
  BY <1>2, MainTasksOf, ReleaseAssumption DEF New
<1> QED
  BY <1>1, <1>2, TasksOf

LEMMA PlanCovers ==
  ASSUME PatchersHaveMain, NEW r \in Releases, NEW f \in MainFiles(r), f \notin r.negative
  PROVE  \E i \in DOMAIN Tasks(r) : Tasks(r)[i].file = f
<1>1. CASE f \in Seen(r, Len(r.patches))
  <2>1. PICK i \in 1 .. Len(r.patches) : \E b \in Range(r.patches[i].assets) :
          Noted(r, r.patches[i], b) /\ b.file = f
    BY <1>1 DEF Seen
  <2>2. PICK k \in DOMAIN r.patches[i].assets : r.patches[i].assets[k].file = f
    BY <2>1 DEF Range
  <2> DEFINE x == <<i, k>>
  <2>3. x \in Places(r) /\ x[1] = i /\ AssetAt(r, x).file = f
    BY <2>1, <2>2, ReleaseAssumption DEF Places, AssetAt
  <2>4. HasMain(r, r.patches[i].field)
    BY <2>3 DEF PatchersHaveMain
  <2>5. x \in PlannedPlaces(r)
    BY <2>1, <2>3, <2>4 DEF PlannedPlaces, Planned
  <2>6. PlannedPlaces(r) \in SUBSET (Nat \X Nat) /\ IsFiniteSet(PlannedPlaces(r))
    BY PlacesAreFinite, FS_Subset DEF PlannedPlaces
  <2>7. PICK n \in 1 .. Cardinality(PlannedPlaces(r)) : InOrder(PlannedPlaces(r))[n] = x
    BY <2>5, <2>6, InOrderCovers
  <2>8. n \in DOMAIN PatchTasks(r) /\ PatchTasks(r)[n].file = f
    <3>1. DOMAIN InOrder(PlannedPlaces(r)) = 1 .. Cardinality(PlannedPlaces(r))
      BY DEF InOrder
    <3> QED
      BY <2>3, <2>7, <3>1, TaskIsOfAsset DEF PatchTasks
  <2> QED
    BY <2>8, TasksOf
<1>2. CASE f \notin Seen(r, Len(r.patches))
  <2>1. New(r) = MainFiles(r) \ Seen(r, Len(r.patches))
    BY DEF New
  <2>2. f \in New(r)
    BY <1>2, <2>1
  <2>3. PICK n \in DOMAIN MainTasks(r) : MainTasks(r)[n].file = f
    BY <2>2, MainTasksOf
  <2> QED
    BY <2>3, TasksOf
<1> QED
  BY <1>1, <1>2
-----------------------------------------------------------------------------
(***************************************************************************)
(* An application has done all tasks before the one it is at, and the      *)
(* release is there once it has come to the deletions, and ever after.     *)
(***************************************************************************)
Good(f) == file[f] = "new" \/ f \in release.skip \/ f \in Deleted(release)

Done(n) == \A i \in DOMAIN Tasks(release) : i < n => Good(Tasks(release)[i].file)

AllDone == \A i \in DOMAIN Tasks(release) : Good(Tasks(release)[i].file)

Reached ==
  /\ release \in Releases
  /\ pc \in {"next", "try", "over"} => index \in Nat \ {0} /\ Done(index)
  /\ pc \in {"try", "over"} => index \in DOMAIN Tasks(release)
  /\ pc \in {"delete", "tag"} \/ tag = "new" => AllDone

TagInv == AInv /\ Reached

LEMMA TagInvInit == Init => TagInv
BY AInvInit DEF Init, PackageInit, TagInv, Reached

\* A file that is good stays so, unless another program takes over.
LEMMA GoodStays ==
  ASSUME AInv, NEW f \in Files, Good(f), release' = release,
         \/ file' = file
         \/ \E g \in Files : file' = [file EXCEPT ![g] = "new"]
         \/ \E g \in left : file' = [file EXCEPT ![g] = "missing"]
  PROVE  Good(f)'
BY DEF AInv, Good

LEMMA ReachedKept ==
  ASSUME TagInv, release' = release, tag' = tag \/ tag' = "other",
         \/ file' = file
         \/ tag' = "other",
         \/ pc' \notin {"next", "try", "over", "delete", "tag"}
         \/ pc' = pc /\ index' = index /\ tag' = tag
  PROVE  Reached'
<1>1. CASE tag' = "other" /\ pc' \notin {"next", "try", "over", "delete", "tag"}
  BY <1>1 DEF TagInv, Reached
<1>2. CASE file' = file /\ tag' \in {tag, "other"}
  BY <1>2 DEF TagInv, Reached, AllDone, Done, Good
<1>3. CASE tag' = "other" /\ tag' = tag /\ pc' = pc /\ pc \in Applying
  BY <1>3 DEF TagInv, AInv
<1> QED
  BY <1>1, <1>2, <1>3 DEF Applying

LEMMA ReachedPackage == ASSUME TagInv, PackageStep PROVE Reached'
<1>1. CASE Elsewhere /\ Overwritten /\ UNCHANGED applyVars
  <2>1. pc' = pc /\ pc \in Downloading \cup {"idle"} /\ release' = release /\ tag' = "other"
    BY <1>1 DEF Elsewhere
  <2> QED
    BY <2>1, ReachedKept DEF Downloading
<1>2. CASE Crash /\ ResetApply /\ UNCHANGED file
  <2>1. pc' = "idle" /\ release' = release /\ tag' = tag
    BY <1>2 DEF Crash, Return, diskVars
  <2> QED
    BY <2>1, <1>2, ReachedKept
<1>3. CASE /\ StartPreinstall \/ Cancel \/ (\E p \in Patches : Rot(p))
              \/ (\E w \in Workers : Scale(w))
           /\ UNCHANGED <<file, applyVars>>
  <2>1. release' = release /\ tag' = tag /\ pc' \in {"download", pc} /\ index' = index
    BY <1>3 DEF StartPreinstall, Cancel, Rot, Scale, diskVars, applyVars
  <2> QED
    BY <2>1, <1>3, ReachedKept
<1>4. CASE (Join \/ Conclude \/ Recheck \/ Write \/ Mark) /\ UNCHANGED <<file, applyVars>>
  <2>1. release' = release /\ tag' = tag /\ pc' \in Downloading \cup {"idle"}
    BY <1>4 DEF Join, Conclude, Recheck, Write, Mark, Return, Downloading, diskVars
  <2> QED
    BY <2>1, <1>4, ReachedKept DEF Downloading
<1>5. ASSUME NEW w \in Workers, WorkerStep(w), UNCHANGED <<file, applyVars>> PROVE Reached'
  <2>1. release' = release /\ pc' = pc /\ tag' = tag /\ index' = index
    BY <1>5 DEF WorkerStep, Take, Quit, Refused, Create, AttemptFails, Interrupted, Delivered,
                EndChunk, diskVars, applyVars
  <2> QED
    BY <2>1, <1>5, ReachedKept
<1> QED
  BY <1>1, <1>2, <1>3, <1>4, <1>5 DEF PackageStep, PreinstallStep

LEMMA ReachedApply == ASSUME TagInv, StartApply \/ ApplyStep PROVE Reached'
<1> DEFINE Ends == /\ UNCHANGED <<release, tag, file>>
                   /\ pc' \notin {"next", "try", "over", "delete", "tag"}
<1>1. ASSUME Ends PROVE Reached'
  BY <1>1, ReachedKept
<1>2. CASE StartApply \/ Refuse \/ MigrationFails \/ StopIfCancelled \/ OverFails
  <2>1. Ends
    BY <1>2 DEF StartApply, Refuse, MigrationFails, StopIfCancelled, OverFails, Stop, Return, diskVars
  <2> QED
    BY <2>1, <1>1
<1>3. CASE Load \/ Migrate
  <2>1. UNCHANGED <<release, tag, file>> /\ tag = "old"
        /\ (Ends \/ (pc' = "next" /\ index' = 1))
    BY <1>3 DEF Load, Migrate, Stop, Return, Goto, diskVars
  <2>2. CASE pc' = "next" /\ index' = 1
    <3>1. ASSUME NEW i \in DOMAIN Tasks(release) PROVE ~(i < 1)
      BY TasksOf DEF TagInv, Reached
    <3> QED
      BY <2>1, <2>2, <3>1 DEF TagInv, Reached, Done
  <2> QED
    BY <2>1, <2>2, <1>1
<1>4. ASSUME AtAsset PROVE index \in DOMAIN Tasks(release)
  BY <1>4, TasksOf DEF AtAsset, TagInv, Reached
<1>5. ASSUME index \in DOMAIN Tasks(release), pc \in {"next", "try", "over"}, tag' = tag,
             file'[asset.file] = "new" \/ asset.file \in release.skip, Advance, release' = release,
             file' = file \/ file' = [file EXCEPT ![asset.file] = "new"]
      PROVE  Reached'
  <2>1. pc' = "next" /\ index' = index + 1 /\ index \in Nat \ {0} /\ tag = "old"
    BY <1>5 DEF Advance, Goto, TagInv, Reached, AInv, Applying
  <2>2. ASSUME NEW i \in DOMAIN Tasks(release), i < index + 1
        PROVE  Good(Tasks(release)[i].file)'
    <3>1. CASE i < index
      <4>1. Good(Tasks(release)[i].file)
        BY <1>5, <3>1 DEF TagInv, Reached, Done
      <4>2. Tasks(release)[i].file \in Files /\ asset.file \in Files
        BY <1>5, TaskFilesAreFiles DEF TagInv, Reached, asset
      <4> QED
        BY <1>5, <4>1, <4>2, GoodStays DEF TagInv
    <3>2. CASE i = index
      BY <1>5, <3>2 DEF asset, Good
    <3>3. i \in Nat
      BY TasksOf DEF TagInv, Reached
    <3> QED
      BY <2>1, <2>2, <3>1, <3>2, <3>3
  <2> QED
    BY <1>5, <2>1, <2>2 DEF TagInv, Reached, Done
<1>6. CASE SkipAsset
  <2>1. /\ index \in DOMAIN Tasks(release) /\ pc = "next" /\ Advance
        /\ UNCHANGED <<release, tag, file>>
    BY <1>4, <1>6 DEF SkipAsset, AtAsset, Advance, Goto, diskVars
  <2>2. file'[asset.file] = "new" \/ asset.file \in release.skip
    BY <1>6, <2>1 DEF SkipAsset, NothingToDo
  <2> QED
    BY <1>5, <2>1, <2>2
<1>7. CASE BeginAsset
  <2>1. /\ index \in DOMAIN Tasks(release) /\ pc = "next" /\ pc' \in {"try", "over"}
        /\ UNCHANGED <<release, tag, file, index>>
    BY <1>4, <1>7 DEF BeginAsset, AtAsset, Goto, diskVars, applyVars
  <2> QED
    BY <2>1 DEF TagInv, Reached, AInv, Applying, Done, AllDone, Good
<1>8. CASE TrySucceeds \/ OverSucceeds
  <2>1. /\ index \in DOMAIN Tasks(release) /\ pc \in {"try", "over"}
        /\ UNCHANGED <<release, tag>> /\ file' = [file EXCEPT ![asset.file] = "new"]
        /\ Advance \/ (pc' = "over" /\ index' = index)
    BY <1>8 DEF TrySucceeds, OverSucceeds, Goto, Advance, diskVars, applyVars, TagInv, Reached
  <2>2. asset.file \in Files
    BY <2>1, TaskFilesAreFiles DEF TagInv, Reached, asset
  <2>3. CASE Advance
    <3>1. file'[asset.file] = "new"
      BY <2>1, <2>2 DEF TagInv, AInv
    <3> QED
      BY <1>5, <2>1, <2>3, <3>1
  <2>4. CASE pc' = "over" /\ index' = index
    <3>1. ASSUME NEW i \in DOMAIN Tasks(release), Good(Tasks(release)[i].file)
          PROVE  Good(Tasks(release)[i].file)'
      <4>1. Tasks(release)[i].file \in Files
        BY TaskFilesAreFiles DEF TagInv, Reached
      <4> QED
        BY <2>1, <2>2, <3>1, <4>1, GoodStays DEF TagInv
    <3> QED
      BY <2>1, <2>4, <3>1 DEF TagInv, Reached, AInv, Applying, Done
  <2> QED
    BY <2>1, <2>3, <2>4
<1>9. CASE TryFails
  <2>1. UNCHANGED <<release, tag, file>> /\ pc = "try"
        /\ (Ends \/ (pc' \in {"try", "over"} /\ index' = index))
    BY <1>9 DEF TryFails, Stop, Return, Goto, diskVars
  <2>2. CASE pc' \in {"try", "over"} /\ index' = index
    BY <2>1, <2>2 DEF TagInv, Reached, AInv, Applying, Done, AllDone, Good
  <2> QED
    BY <2>1, <2>2, <1>1
<1>10. CASE BeginDelete
  <2>1. /\ UNCHANGED <<release, tag, file>> /\ pc = "next" /\ pc' = "delete"
        /\ index > Len(Tasks(release))
    BY <1>10 DEF BeginDelete, Goto, diskVars
  <2>2. \A i \in DOMAIN Tasks(release) : i < index
    BY <2>1, TasksOf DEF TagInv, Reached
  <2> QED
    BY <2>1, <2>2 DEF TagInv, Reached, Done, AllDone, Good
<1>11. ASSUME NEW f \in Files, Delete(f) PROVE Reached'
  <2>1. /\ UNCHANGED <<release, tag>> /\ pc = "delete" /\ pc' = "delete"
        /\ file' = file \/ \E g \in left : file' = [file EXCEPT ![g] = "missing"]
    BY <1>11 DEF Delete, packageVars, diskVars
  <2>2. ASSUME NEW i \in DOMAIN Tasks(release) PROVE Good(Tasks(release)[i].file)'
    <3>1. Tasks(release)[i].file \in Files /\ Good(Tasks(release)[i].file)
      BY <2>1, TaskFilesAreFiles DEF TagInv, Reached, AllDone
    <3> QED
      BY <2>1, <3>1, GoodStays DEF TagInv
  <2> QED
    BY <2>1, <2>2 DEF TagInv, Reached, AllDone
<1>12. CASE EndDelete \/ WriteTag \/ RemoveState \/ RemoveMarker
  <2>1. UNCHANGED <<release, file>> /\ pc' \notin {"next", "try", "over", "delete"}
        /\ (pc \in {"delete", "tag"} \/ (tag' = tag /\ pc' \notin {"tag"}))
    BY <1>12 DEF EndDelete, WriteTag, RemoveState, RemoveMarker, Stop, Return, Goto, diskVars
  <2> QED
    BY <2>1 DEF TagInv, Reached, AllDone, Good
<1> QED
  BY <1>2, <1>3, <1>6, <1>7, <1>8, <1>9, <1>10, <1>11, <1>12 DEF ApplyStep

LEMMA TagInvNext == TagInv /\ [Next]_vars => TagInv'
<1>1. ASSUME TagInv, UNCHANGED vars PROVE Reached'
  BY <1>1 DEF TagInv, Reached, Done, AllDone, Good, vars, packageVars, diskVars, applyVars
<1>2. TagInv /\ [Next]_vars => Reached'
  BY <1>1, ReachedPackage, ReachedApply DEF Next
<1> QED
  BY <1>2, AInvNext DEF TagInv

(***************************************************************************)
(* The tag says that the release is installed only when it is, but for the *)
(* files the plan excepts: for any release of which every field that       *)
(* patches a file of the main manifests has one, any mishaps and however   *)
(* many applications were interrupted.                                     *)
(***************************************************************************)
THEOREM TagIsHonestHolds == ASSUME PatchersHaveMain PROVE Spec => []TagIsHonest
<1>1. ASSUME TagInv PROVE TagIsHonest
  <2> SUFFICES ASSUME tag = "new", NEW f \in MainFiles(release), f \notin Excepted(release)
               PROVE  file[f] = "new"
    BY DEF TagIsHonest
  <2>1. PICK i \in DOMAIN Tasks(release) : Tasks(release)[i].file = f
    BY <1>1, PlanCovers DEF TagInv, Reached, Excepted
  <2>2. Good(f)
    BY <1>1, <2>1 DEF TagInv, Reached, AllDone
  <2> QED
    BY <2>2 DEF Good, Excepted
<1> QED
  BY <1>1, TagInvInit, TagInvNext, PTL DEF Spec
-----------------------------------------------------------------------------
(***************************************************************************)
(* The types.  What the queue, the pool and the applications keep has most *)
(* of them; this is the rest.                                              *)
(***************************************************************************)
AllPlaces ==
  Downloading \cup {"idle", "load", "next", "try", "over", "delete", "tag", "unstate", "unmark"}

PoolTyped ==
  /\ job \in [Workers -> Patches] /\ tries \in [Workers -> 0 .. Retries]
  /\ error \in BOOLEAN /\ stopped \in BOOLEAN

DiskTyped ==
  /\ tag \in {"old", "new", "other"}
  /\ rotted \subseteq Patches
  /\ pkg \in {"none", "sealed", "legacy", "migrated"}
  /\ marker \in BOOLEAN

SessionTyped ==
  /\ pc \in AllPlaces
  /\ result \in {"none", "ok", "cancelled", "failed"}
  /\ cancelled \in BOOLEAN

ApplyTyped ==
  /\ file \in [Files -> {"missing", "old", "new", "alien"}]
  /\ index \in 0 .. Len(Tasks(release)) + 1
  /\ attempt \in 0 .. LastAttempt
  /\ fallback \in BOOLEAN

Rest == PoolTyped /\ DiskTyped /\ SessionTyped /\ ApplyTyped

\* What is queued and what is being fetched are different chunks.
LEMMA RemainingIsBounded ==
  ASSUME PInv PROVE remaining \in 0 .. Cardinality(Patches)
<1> DEFINE others == Patches \ todo
           taken == [w \in Fetching |-> job[w]]
<1>1. /\ IsFiniteSet(Patches) /\ todo \in SUBSET Patches /\ Wanted \subseteq Patches
      /\ IsFiniteSet(todo) /\ Cardinality(todo) \in Nat /\ Cardinality(Fetching) \in Nat
  BY WantedIsFinite, CountsAreNumbers, PackageAssumption DEF PInv, Shape
<1>2. /\ IsFiniteSet(others) /\ Cardinality(others) = Cardinality(Patches) - Cardinality(todo)
      /\ Cardinality(Patches) \in Nat
  <2>1. Patches \cap todo = todo
    BY <1>1
  <2> QED
    BY <1>1, <2>1, FS_Difference, FS_CardinalityType
<1>3. taken \in Injection(Fetching, others)
  <2>1. \A w \in Fetching : job[w] \in Held
    BY DEF Held
  <2>2. taken \in [Fetching -> others]
    BY <1>1, <2>1 DEF PInv, Queue, Parted
  <2>3. IsInjective(taken)
    BY DEF PInv, Queue, Parted, IsInjective
  <2> QED
    BY <2>2, <2>3 DEF Injection
<1>4. Cardinality(Fetching) <= Cardinality(others)
  BY <1>2, <1>3, FS_Injection
<1>5. remaining = Cardinality(todo) + Cardinality(Fetching)
  BY DEF PInv, Pool, Counted
<1> QED
  BY <1>1, <1>2, <1>4, <1>5

LEMMA TypeFollows == ASSUME PInv, AInv, Rest PROVE TypeOK
<1>1. Deleted(release) \subseteq Files
  BY ReleaseAssumption DEF Deleted, PInv, Shape
<1>2. PackageTypeOK
  BY RemainingIsBounded DEF PackageTypeOK, PInv, Shape, Rest, PoolTyped, DiskTyped, SessionTyped
<1> QED
  BY <1>1, <1>2 DEF TypeOK, AInv, Rest, SessionTyped, ApplyTyped, AllPlaces

LEMMA ClearTyped == ASSUME Clear PROVE PoolTyped'
<1>1. (CHOOSE p \in Patches : TRUE) \in Patches
  BY PackageAssumption
<1>2. 0 \in 0 .. Retries
  BY PackageAssumption
<1> QED
  BY <1>1, <1>2 DEF Clear, PoolTyped

LEMMA RestInit == ASSUME Init PROVE Rest
<1>1. PoolTyped
  <2>1. (CHOOSE p \in Patches : TRUE) \in Patches /\ 0 \in 0 .. Retries
    BY PackageAssumption
  <2> QED
    BY <2>1 DEF Init, PackageInit, PoolTyped
<1>2. DiskTyped /\ SessionTyped
  BY DEF Init, PackageInit, DiskTyped, SessionTyped, AllPlaces
<1>3. ApplyTyped
  <2>1. release \in Releases /\ Len(Tasks(release)) \in Nat /\ LastAttempt \in Nat
    BY TasksOf, ApplyAssumption DEF Init, PackageInit
  <2>2. file \in [Files -> {"missing", "old", "new", "alien"}]
    BY DEF Init
  <2>3. 0 \in 0 .. Len(Tasks(release)) + 1 /\ 0 \in 0 .. LastAttempt
    BY <2>1
  <2> QED
    BY <2>2, <2>3 DEF Init, Idle, ApplyTyped
<1> QED
  BY <1>1, <1>2, <1>3 DEF Rest

LEMMA WorkerTyped ==
  ASSUME PInv, Rest, NEW w \in Workers, WorkerStep(w), UNCHANGED <<file, applyVars>> PROVE Rest'
<1>1. UNCHANGED <<release, tag, rotted, pkg, marker, pc, result, cancelled>>
  BY DEF WorkerStep, Take, Quit, Refused, Create, AttemptFails, Interrupted, Delivered, EndChunk,
         diskVars
<1>2. /\ error' \in {error, TRUE} /\ stopped' \in {stopped, TRUE}
      /\ job' = job \/ \E p \in todo : job' = [job EXCEPT ![w] = p]
      /\ \/ tries' = tries
         \/ tries' = [tries EXCEPT ![w] = 0]
         \/ tries[w] + 1 < Retries /\ tries' = [tries EXCEPT ![w] = @ + 1]
  BY DEF WorkerStep, Take, Quit, Refused, Create, AttemptFails, Interrupted, Delivered, EndChunk
<1>3. todo \subseteq Patches
  BY WantedIsFinite DEF PInv, Shape
<1>4. PoolTyped'
  <2>1. job' \in [Workers -> Patches]
    BY <1>2, <1>3 DEF Rest, PoolTyped
  <2>2. tries' \in [Workers -> 0 .. Retries]
    <3>1. ASSUME tries[w] + 1 < Retries PROVE tries[w] + 1 \in 0 .. Retries
      BY <3>1, PackageAssumption DEF Rest, PoolTyped
    <3>2. 0 \in 0 .. Retries
      BY PackageAssumption
    <3> QED
      BY <1>2, <3>1, <3>2 DEF Rest, PoolTyped
  <2> QED
    BY <1>2, <2>1, <2>2 DEF Rest, PoolTyped
<1> QED
  BY <1>1, <1>4 DEF Rest, DiskTyped, SessionTyped, ApplyTyped, applyVars

LEMMA PackageTyped == ASSUME PInv, Rest, PackageStep PROVE Rest'
<1>1. CASE Elsewhere /\ Overwritten /\ UNCHANGED applyVars
  <2>1. file' \in [Files -> {"missing", "old", "new", "alien"}]
    BY <1>1 DEF Overwritten, Rest, ApplyTyped
  <2> QED
    BY <1>1, <2>1 DEF Elsewhere, Rest, PoolTyped, DiskTyped, SessionTyped, ApplyTyped, applyVars,
                      poolVars, workVars
<1>2. CASE Crash /\ ResetApply /\ UNCHANGED file
  <2>1. PoolTyped'
    BY <1>2, ClearTyped DEF Crash, Return
  <2>2. Len(Tasks(release)) \in Nat /\ LastAttempt \in Nat
    BY TasksOf, ApplyAssumption DEF PInv, Shape
  <2>3. 0 \in 0 .. Len(Tasks(release)) + 1 /\ 0 \in 0 .. LastAttempt
    BY <2>2
  <2>4. ApplyTyped'
    BY <1>2, <2>3 DEF Crash, ResetApply, Rest, ApplyTyped
  <2>5. DiskTyped' /\ SessionTyped'
    BY <1>2 DEF Crash, Return, Rest, DiskTyped, SessionTyped, AllPlaces, diskVars
  <2> QED
    BY <2>1, <2>4, <2>5 DEF Rest
<1>3. CASE /\ StartPreinstall \/ (\E w \in Workers : Scale(w)) \/ Cancel
           /\ UNCHANGED <<file, applyVars>>
  <2>1. UNCHANGED <<release, diskVars, job, tries, error, stopped>>
    BY <1>3 DEF StartPreinstall, Scale, Cancel, poolVars, workVars
  <2>2. PoolTyped' /\ DiskTyped'
    BY <2>1 DEF Rest, PoolTyped, DiskTyped, diskVars
  <2>3. pc' \in {"download", pc} /\ result' \in {"none", result} /\ cancelled' \in BOOLEAN
    BY <1>3 DEF StartPreinstall, Scale, Cancel, Rest, SessionTyped
  <2>4. SessionTyped'
    BY <2>3 DEF Rest, SessionTyped, AllPlaces, Downloading
  <2> QED
    BY <1>3, <2>1, <2>2, <2>4 DEF Rest, ApplyTyped, applyVars
<1>4. CASE (\E p \in Patches : Rot(p)) /\ UNCHANGED <<file, applyVars>>
  BY <1>4 DEF Rot, Rest, PoolTyped, DiskTyped, SessionTyped, ApplyTyped, applyVars, poolVars, workVars
<1>5. CASE (Join \/ Conclude \/ Recheck \/ Write \/ Mark) /\ UNCHANGED <<file, applyVars>>
  <2>1. PoolTyped'
    <3>1. UNCHANGED poolVars \/ Clear
      BY <1>5 DEF Join, Conclude, Recheck, Write, Mark, Return
    <3> QED
      BY <3>1, ClearTyped DEF Rest, PoolTyped, poolVars, workVars
  <2>2. DiskTyped' /\ SessionTyped'
    BY <1>5 DEF Join, Conclude, Recheck, Write, Mark, Return, Rest, DiskTyped, SessionTyped,
                AllPlaces, Downloading, diskVars
  <2>3. release' = release
    BY <1>5 DEF Join, Conclude, Recheck, Write, Mark
  <2> QED
    BY <1>5, <2>1, <2>2, <2>3 DEF Rest, ApplyTyped, applyVars
<1> QED
  BY <1>1, <1>2, <1>3, <1>4, <1>5, WorkerTyped DEF PackageStep, PreinstallStep

LEMMA ApplyTypes == ASSUME TagInv, Rest, StartApply \/ ApplyStep PROVE Rest'
<1> USE DEF StartApply, ApplyStep, Refuse, Load, Migrate, MigrationFails, StopIfCancelled, SkipAsset,
            BeginAsset, TrySucceeds, TryFails, OverSucceeds, OverFails, BeginDelete, Delete,
            EndDelete, WriteTag, RemoveState, RemoveMarker
<1>1. Len(Tasks(release)) \in Nat /\ LastAttempt \in Nat
  BY TasksOf, ApplyAssumption DEF TagInv, Reached
<1>2. PoolTyped'
  <2>1. UNCHANGED poolVars \/ Clear
    BY DEF Advance, Stop, Return, Goto, packageVars
  <2> QED
    BY <2>1, ClearTyped DEF Rest, PoolTyped, poolVars, workVars
<1>3. DiskTyped'
  BY DEF packageVars, diskVars, Rest, DiskTyped
<1>4. SessionTyped'
  BY DEF Advance, Stop, Return, Goto, packageVars, Rest, SessionTyped, AllPlaces
<1>5. release' = release
  BY DEF Advance, Stop, Goto, packageVars
<1>6. file' \in [Files -> {"missing", "old", "new", "alien"}]
  <2>1. file' = file \/ \E g, v : v \in {"missing", "new"} /\ file' = [file EXCEPT ![g] = v]
    OBVIOUS
  <2> QED
    BY <2>1 DEF Rest, ApplyTyped
<1>7. index' \in 0 .. Len(Tasks(release)) + 1
  <2>1. \/ index' \in {index, 0, 1}
        \/ index' = index + 1 /\ (AtAsset \/ pc \in {"try", "over"})
    BY DEF Advance, Stop, ResetApply, applyVars
  <2>2. AtAsset \/ pc \in {"try", "over"} => index <= Len(Tasks(release))
    BY TasksOf DEF AtAsset, TagInv, Reached
  <2> QED
    BY <1>1, <2>1, <2>2 DEF Rest, ApplyTyped
<1>8. attempt' \in 0 .. LastAttempt /\ fallback' \in BOOLEAN
  <2>1. /\ attempt' \in {attempt, 0} \/ (attempt # LastAttempt /\ attempt' = attempt + 1)
        /\ fallback' \in BOOLEAN
    BY DEF Advance, Stop, ResetApply, applyVars, Rest, ApplyTyped
  <2> QED
    BY <1>1, <2>1 DEF Rest, ApplyTyped
<1> QED
  BY <1>2, <1>3, <1>4, <1>5, <1>6, <1>7, <1>8 DEF Rest, ApplyTyped

(***************************************************************************)
(* Every variable keeps to its type: the counter of the queue stays within *)
(* the number of patch chunks, and an application never goes beyond its    *)
(* last task.                                                              *)
(***************************************************************************)
THEOREM TypeCorrect == Spec => []TypeOK
<1> DEFINE Typed == PInv /\ TagInv /\ Rest
<1>1. Init => Typed
  BY PInvInit, TagInvInit, RestInit
<1>2. Typed /\ [Next]_vars => Typed'
  <2>1. ASSUME Rest, UNCHANGED vars PROVE Rest'
    BY <2>1 DEF Rest, PoolTyped, DiskTyped, SessionTyped, ApplyTyped, vars, packageVars, diskVars,
                poolVars, workVars, applyVars
  <2>2. Typed /\ [Next]_vars => Rest'
    BY <2>1, PackageTyped, ApplyTypes DEF Next
  <2> QED
    BY <2>2, PInvNext, TagInvNext
<1>3. Typed => TypeOK
  BY TypeFollows DEF TagInv
<1> QED
  BY <1>1, <1>2, <1>3, PTL DEF Spec
=============================================================================
