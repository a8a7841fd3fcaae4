------------------------ MODULE FileAssembly_proofs ------------------------
(***************************************************************************)
(* Proofs about FileAssembly, for every number of chunks, whatever they    *)
(* are called and however often this file and others have them, and about  *)
(* PluginInstall, for any lists of plugins and SDKs.                       *)
(***************************************************************************)
EXTENDS FileAssembly, PluginInstall, FiniteSetTheorems, TLAPS

Threads == 0 .. 3

\* The types of what this call alone changes.
Shape ==
  /\ file \in FileKinds /\ data \in [Chunks -> Sources]
  /\ stage \in {"start", "write", "sync", "rename", "copy", "returned"}
  /\ result \in {"none", "ok", "err"}
  /\ target \in {"original", "missing", "torn", "whole", "other", "holes"}
  /\ tmp \in [Chunks -> Sources \cup {"none", "hole", "torn"}]
  /\ worker \in [Threads -> [at : 0 .. N, st : {"off", "next", "write"}]]
  /\ done \subseteq Chunks
  /\ error \in BOOLEAN
  /\ hasher \in [st : {"off", "open", "wait", "inline", "ended", "failed", "gone"},
                 at : 1 .. N + 1, digest : {"right", "wrong"}]

\* Where the call is.
Course ==
  /\ stage # "returned" => result = "none"
  /\ stage = "start" => done = {} /\ hasher.at = 1
  /\ stage \in {"sync", "rename", "copy"} => done = Chunks
  /\ result = "ok" => done = Chunks
  /\ downloaded = done \ file.old

\* A flag says that the chunk is in the file and will not be touched again.
Flags ==
  /\ stage \in {"write", "sync", "rename", "copy"} =>
       \A i \in done : tmp[i] = data[i] /\ Accepts(i)
  /\ stage = "write" => \A w \in Threads : \A i \in Share(w) \cap done :
       /\ worker[w].st = "next" => i <= worker[w].at
       /\ worker[w].st = "write" => i < worker[w].at

\* Each thread writes its share from the first chunk to the last.
Progress ==
  stage = "write" => \A w \in Threads :
    /\ worker[w].st = "write" => worker[w].at \in Share(w)
    /\ ~error => \A i \in Share(w) \ done :
         \/ worker[w].st = "next" /\ i > worker[w].at
         \/ worker[w].st = "write" /\ i >= worker[w].at

\* Who hashes, and what a right digest says.
Hashing ==
  stage \in {"write", "sync", "rename", "copy"} =>
    /\ HashesInline <=> hasher.st = "inline"
    /\ HashesBeside => hasher.st \in {"open", "wait", "ended", "failed", "gone"}
    /\ hasher.st = "gone" => error
    /\ hasher.st = "ended" => hasher.at = N + 1
    /\ (hasher.st = "inline" /\ hasher.digest = "right") => \A i \in done : data[i] = "right"
    /\ (HashesBeside /\ hasher.digest = "right") =>
         \A i \in 1 .. hasher.at - 1 : data[i] = "right"
    /\ stage # "write" => ~error /\ hasher.st \notin {"open", "wait"}
    /\ stage \in {"rename", "copy"} => ~Mismatch

\* The destination is touched by the rename or by the copy.
Destination ==
  /\ stage \in {"start", "write", "sync", "rename"} => target \in {"original", "missing"}
  /\ stage = "copy" => file.crosses
  /\ result = "err" => target \in {"original", "missing"} \/ file.crosses

\* chunk_refcounts is what this file and the others still have to release.
Claims ==
  /\ counts \in [Names -> Nat] /\ cached \subseteq Names /\ rest \in [Names -> Nat]
  /\ \A n \in Names :
       /\ counts[n] + (IF stage = "returned" THEN Used(n) ELSE 0) = rest[n] + Cardinality(Own(n))
       /\ counts[n] > 0 => n \in cached

IInv ==
  /\ Shape /\ Course /\ Flags /\ Progress /\ Hashing /\ Destination /\ Claims
  /\ ReplacedIsWhole

(***************************************************************************)
(* Facts about the constants of a call.                                    *)
(***************************************************************************)
\* The chunks are divided among the threads.
LEMMA SharesPartition ==
  ASSUME file \in FileKinds
  PROVE  /\ \A i \in Chunks : \E w \in Threads : i \in Share(w)
         /\ \A v, w \in Threads : v # w => Share(v) \cap Share(w) = {}
         /\ \A w \in Threads : Share(w) \subseteq Chunks /\ (w \notin Workers => Share(w) = {})
<1>1. file.threads \in 1 .. 4
  BY DEF FileKinds
<1>2. \A i \in Chunks : (i - 1) % file.threads \in 0 .. file.threads - 1
  <2>1. CASE file.threads = 1
    BY <2>1 DEF Chunks
  <2>2. CASE file.threads = 2
    BY <2>2 DEF Chunks
  <2>3. CASE file.threads = 3
    BY <2>3 DEF Chunks
  <2>4. CASE file.threads = 4
    BY <2>4 DEF Chunks
  <2> QED
    BY <1>1, <2>1, <2>2, <2>3, <2>4
<1>3. file.threads - 1 \in 0 .. 3
  BY <1>1
<1>4. CASE Parallelize
  BY <1>1, <1>2, <1>3, <1>4 DEF Share, Threads, Workers
<1>5. CASE ~Parallelize
  BY <1>1, <1>5 DEF Share, Threads, Workers
<1> QED
  BY <1>4, <1>5

\* The manifest does not change under the call.
LEMMA Constant ==
  ASSUME file' = file, data' = data
  PROVE  /\ \A w \in Threads : Share(w)' = Share(w)
         /\ HashesInline' = HashesInline /\ HashesBeside' = HashesBeside
         /\ Verified' = Verified
         /\ \A i \in Chunks : Accepts(i)' = Accepts(i)
         /\ \A n \in Names : Own(n)' = Own(n)
BY DEF Share, HashesInline, HashesBeside, Verified, AllHashed, Parallelize, Accepts, ChecksChunk, Own

\* A call cannot return more occurrences of a name than it has.
LEMMA UsedIsOwn ==
  ASSUME downloaded \subseteq Chunks \ file.old, NEW n \in Names
  PROVE  /\ Used(n) \in Nat /\ Cardinality(Own(n)) \in Nat
         /\ Used(n) <= Cardinality(Own(n))
         /\ Own(n) \ downloaded # {} => Used(n) < Cardinality(Own(n))
         /\ Own(n) \ downloaded = {} => Used(n) = Cardinality(Own(n))
<1> DEFINE S == {i \in downloaded : Name[i] = n}
<1>1. IsFiniteSet(Chunks)
  BY AssemblyAssumption, FS_Interval DEF Chunks
<1>2. Own(n) \in SUBSET Chunks
  BY DEF Own
<1>3. IsFiniteSet(Own(n))
  BY <1>1, <1>2, FS_Subset
<1>4. S \in SUBSET Own(n)
  BY DEF Own
<1>5. /\ IsFiniteSet(S) /\ Cardinality(S) <= Cardinality(Own(n))
      /\ Cardinality(Own(n)) = Cardinality(S) => Own(n) = S
  BY <1>3, <1>4, FS_Subset
<1>6. Cardinality(S) \in Nat /\ Cardinality(Own(n)) \in Nat
  BY <1>3, <1>5, FS_CardinalityType
<1>7. Own(n) \ downloaded = {} => Own(n) = S
  BY <1>4 DEF Own
<1>8. Own(n) \ downloaded # {} => Own(n) # S
  OBVIOUS
<1>9. Used(n) = Cardinality(S)
  BY DEF Used
<1> QED
  BY <1>5, <1>6, <1>7, <1>8, <1>9

LEMMA InitInv == Init => IInv
<1> SUFFICES ASSUME Init PROVE IInv
  OBVIOUS
<1> USE DEF Init
<1>1. Shape
  <2>1. N \in Nat /\ N > 0
    BY AssemblyAssumption
  <2>2. worker \in [Threads -> [at : 0 .. N, st : {"off", "next", "write"}]]
    BY <2>1 DEF Threads, Off
  <2>3. hasher \in [st : {"off", "open", "wait", "inline", "ended", "failed", "gone"},
                    at : 1 .. N + 1, digest : {"right", "wrong"}]
    BY <2>1
  <2>4. tmp \in [Chunks -> Sources \cup {"none", "hole", "torn"}]
    OBVIOUS
  <2> QED
    BY <2>2, <2>3, <2>4 DEF Shape
<1>2. Course /\ Flags /\ Progress /\ Hashing /\ Destination /\ ReplacedIsWhole
  BY DEF Course, Flags, Progress, Hashing, Destination, ReplacedIsWhole
<1>3. Claims
  BY AssemblyAssumption, UsedIsOwn DEF Claims
<1> QED
  BY <1>1, <1>2, <1>3 DEF IInv

(***************************************************************************)
(* The claims.                                                             *)
(***************************************************************************)
LEMMA ReturnClaims ==
  ASSUME IInv, stage # "returned", NEW how, Return(how)
  PROVE  Claims'
<1> USE DEF Return
<1>1. downloaded \subseteq Chunks \ file.old
  BY DEF IInv, Shape, Course
<1>2. \A n \in Names : Used(n)' = Used(n) /\ Own(n)' = Own(n)
  BY DEF Used, Own
<1>3. ASSUME NEW n \in Names
      PROVE  /\ counts'[n] = counts[n] - Used(n) /\ counts'[n] \in Nat
             /\ counts'[n] + Used(n) = rest[n] + Cardinality(Own(n))
             /\ counts'[n] > 0 => n \in cached'
  BY <1>1, <1>3, UsedIsOwn DEF IInv, Claims
<1>4. counts' \in [Names -> Nat]
  BY <1>3
<1> QED
  BY <1>2, <1>3, <1>4 DEF IInv, Claims

LEMMA SameClaims ==
  ASSUME IInv, UNCHANGED <<file, counts, cached, rest>>,
         (stage' # "returned" /\ stage # "returned") \/ (stage' = stage /\ downloaded' = downloaded)
  PROVE  Claims'
<1>1. \A n \in Names : Own(n)' = Own(n) /\ (downloaded' = downloaded => Used(n)' = Used(n))
  BY DEF Used, Own
<1> QED
  BY <1>1 DEF IInv, Claims

(***************************************************************************)
(* The call itself.                                                        *)
(***************************************************************************)
LEMMA FailInv ==
  ASSUME IInv, stage # "returned", Return("err"),
         tmp' \in [Chunks -> Sources \cup {"none", "hole", "torn"}],
         target' \in {"original", "missing", "torn", "whole", "other", "holes"},
         target' \in {"original", "missing"} \/ file.crosses
  PROVE  IInv'
<1> USE DEF Return
<1>1. Claims'
  BY ReturnClaims
<1>2. Shape'
  BY DEF IInv, Shape
<1>3. Course'
  BY DEF IInv, Course
<1>4. Flags' /\ Progress' /\ Hashing'
  BY DEF Flags, Progress, Hashing
<1>5. Destination' /\ ReplacedIsWhole'
  BY DEF Destination, ReplacedIsWhole
<1> QED
  BY <1>1, <1>2, <1>3, <1>4, <1>5 DEF IInv

\* When the file is about to replace its destination it is complete, and
\* right if anybody looked at its hash.
LEMMA ContentIsWhole ==
  ASSUME IInv, stage \in {"rename", "copy"}
  PROVE  Content \in {"whole", "other"} /\ (Verified => Content = "whole")
<1>1. \A i \in Chunks : tmp[i] = data[i] /\ Accepts(i) /\ data[i] \in Sources
  BY DEF IInv, Course, Flags, Shape
<1>2. Content \in {"whole", "other"}
  BY <1>1 DEF Content
<1>3. ASSUME Verified PROVE \A i \in Chunks : data[i] = "right"
  <2>1. CASE HashesInline
    BY <2>1 DEF IInv, Hashing, Course, Mismatch, Shape
  <2>2. CASE HashesBeside
    <3>1. hasher.st = "ended" /\ hasher.digest = "right"
      BY <2>2 DEF IInv, Hashing, Mismatch, Shape
    <3>2. hasher.at = N + 1
      BY <3>1 DEF IInv, Hashing
    <3> QED
      BY <2>2, <3>1, <3>2, AssemblyAssumption DEF IInv, Hashing, Chunks
  <2>3. CASE file.mode = "Full" /\ AllHashed
    BY <1>1, <2>3 DEF AllHashed, Accepts, ChecksChunk
  <2> QED
    BY <1>3, <2>1, <2>2, <2>3 DEF Verified
<1> QED
  BY <1>1, <1>2, <1>3 DEF Content

LEMMA SucceedInv ==
  ASSUME IInv, stage \in {"rename", "copy"}, Return("ok"), target' = Content,
         tmp' = [i \in Chunks |-> "none"]
  PROVE  IInv'
<1> USE DEF Return
<1>1. Claims'
  BY ReturnClaims
<1>2. Content \in {"whole", "other"} /\ (Verified => Content = "whole") /\ Verified' = Verified
  BY ContentIsWhole, Constant
<1>3. Shape'
  BY <1>2 DEF IInv, Shape
<1>4. Course'
  BY DEF IInv, Course
<1>5. Flags' /\ Progress' /\ Hashing' /\ Destination'
  BY DEF Flags, Progress, Hashing, Destination
<1>6. ReplacedIsWhole'
  BY <1>2 DEF ReplacedIsWhole
<1> QED
  BY <1>1, <1>3, <1>4, <1>5, <1>6 DEF IInv

LEMMA BeginInv == ASSUME IInv, Begin \/ BeginFails PROVE IInv'
<1>1. /\ stage = "start" /\ done = {} /\ result = "none" /\ target \in {"original", "missing"}
      /\ downloaded = {}
  BY DEF Begin, BeginFails, IInv, Course, Destination
<1>2. CASE Return("err") /\ UNCHANGED target
  <2>1. tmp' \in [Chunks -> Sources \cup {"none", "hole", "torn"}]
    BY DEF Begin, BeginFails, Fail, IInv, Shape
  <2> QED
    BY <1>1, <1>2, <2>1, FailInv
<1>3. CASE /\ Begin /\ stage' = "write"
           /\ worker' = [w \in 0 .. 3 |->
                           IF w \in Workers /\ Share(w) # {} THEN [at |-> 0, st |-> "next"] ELSE Off]
           /\ hasher' = [hasher EXCEPT !.st = IF HashesBeside THEN "open"
                                              ELSE IF HashesInline THEN "inline" ELSE "off"]
           /\ UNCHANGED <<file, data, result, target, done, downloaded, error, counts, cached, rest>>
  <2>1. tmp' = [i \in Chunks |-> "hole"]
    BY <1>3 DEF Begin
  <2>2. Shape'
    <3>1. worker' \in [Threads -> [at : 0 .. N, st : {"off", "next", "write"}]]
      BY <1>3, AssemblyAssumption DEF Threads, Off
    <3>2. hasher' \in [st : {"off", "open", "wait", "inline", "ended", "failed", "gone"},
                       at : 1 .. N + 1, digest : {"right", "wrong"}]
      BY <1>3 DEF IInv, Shape
    <3> QED
      BY <1>3, <2>1, <3>1, <3>2 DEF IInv, Shape
  <2>3. Claims'
    BY <1>1, <1>3, SameClaims
  <2>4. Course' /\ Flags' /\ Destination' /\ ReplacedIsWhole'
    BY <1>1, <1>3 DEF Course, Flags, Destination, ReplacedIsWhole, IInv
  <2>5. Progress'
    <3> SUFFICES ASSUME NEW w \in Threads
                 PROVE  /\ worker'[w].st # "write"
                        /\ \A i \in Share(w) : worker'[w].st = "next" /\ i > worker'[w].at
      BY <1>1, <1>3, Constant DEF Progress
    <3>1. worker'[w] = IF w \in Workers /\ Share(w) # {} THEN [at |-> 0, st |-> "next"] ELSE Off
      BY <1>3 DEF Threads
    <3>2. Share(w) \subseteq Chunks /\ (w \notin Workers => Share(w) = {})
      BY SharesPartition DEF IInv, Shape
    <3> QED
      BY <3>1, <3>2 DEF Off, Chunks
  <2>6. Hashing'
    <3>1. ~(HashesInline /\ HashesBeside)
      BY DEF HashesInline, HashesBeside
    <3>2. hasher'.st = (IF HashesBeside THEN "open" ELSE IF HashesInline THEN "inline" ELSE "off")
          /\ hasher'.at = hasher.at /\ hasher'.digest = hasher.digest
      BY <1>3 DEF IInv, Shape
    <3>3. hasher.at = 1
      BY <1>1 DEF IInv, Course
    <3> QED
      BY <1>1, <1>3, <3>1, <3>2, <3>3, Constant DEF Hashing, IInv
  <2> QED
    BY <2>2, <2>3, <2>4, <2>5, <2>6 DEF IInv
<1> QED
  BY <1>2, <1>3 DEF Begin, BeginFails, Fail

LEMMA JoinInv == ASSUME IInv, Join PROVE IInv'
<1>1. CASE error
  BY <1>1, FailInv DEF Join, Fail, IInv, Shape, Destination
<1>2. CASE ~error
  <2> USE <1>2 DEF Join
  <2>1. \A w \in Threads : worker[w].st = "off"
    BY DEF Quiet, Off, Threads
  <2>2. done = Chunks
    BY <2>1, SharesPartition, ZenonT(30) DEF IInv, Shape, Progress
  <2>3. Claims'
    BY SameClaims
  <2>4. Shape'
    BY DEF IInv, Shape
  <2>5. Course' /\ Flags' /\ Progress' /\ Destination' /\ ReplacedIsWhole'
    BY <2>2, Constant DEF IInv, Course, Flags, Progress, Destination, ReplacedIsWhole
  <2>6. Hashing'
    BY Constant DEF IInv, Hashing, Quiet
  <2> QED
    BY <2>3, <2>4, <2>5, <2>6 DEF IInv
<1> QED
  BY <1>1, <1>2

LEMMA SyncInv == ASSUME IInv, Sync \/ SyncFails PROVE IInv'
<1>1. CASE Fail(TRUE) /\ UNCHANGED target
  BY <1>1, FailInv DEF Sync, SyncFails, Fail, IInv, Shape, Destination
<1>2. CASE Sync /\ ~Mismatch
  <2> USE <1>2 DEF Sync
  <2>1. Claims'
    BY SameClaims
  <2>2. Shape'
    BY DEF IInv, Shape
  <2>3. Course' /\ Flags' /\ Progress' /\ Destination' /\ ReplacedIsWhole'
    BY Constant DEF IInv, Course, Flags, Progress, Destination, ReplacedIsWhole
  <2>4. Hashing'
    BY Constant DEF IInv, Hashing, Mismatch
  <2> QED
    BY <2>1, <2>2, <2>3, <2>4 DEF IInv
<1> QED
  BY <1>1, <1>2 DEF Sync, SyncFails

LEMMA RenameInv == ASSUME IInv, Rename \/ RenameFails PROVE IInv'
<1>1. CASE Rename
  BY <1>1, SucceedInv DEF Rename
<1>2. CASE RenameFails
  BY <1>2, FailInv DEF RenameFails, Fail, IInv, Shape, Destination
<1> QED
  BY <1>1, <1>2

LEMMA CopyInv == ASSUME IInv, StartCopy \/ EndCopy \/ CopyFails PROVE IInv'
<1>1. CASE StartCopy
  <2> USE <1>1 DEF StartCopy
  <2>1. Claims'
    BY SameClaims
  <2>2. Shape'
    BY DEF IInv, Shape
  <2>3. Course' /\ Flags' /\ Progress' /\ Destination' /\ ReplacedIsWhole'
    BY Constant DEF IInv, Course, Flags, Progress, Destination, ReplacedIsWhole
  <2>4. Hashing'
    BY Constant DEF IInv, Hashing, Mismatch
  <2> QED
    BY <2>1, <2>2, <2>3, <2>4 DEF IInv
<1>2. CASE EndCopy
  BY <1>2, SucceedInv DEF EndCopy
<1>3. CASE CopyFails
  BY <1>3, FailInv, ContentIsWhole DEF CopyFails, Fail, IInv, Shape, Destination
<1> QED
  BY <1>1, <1>2, <1>3

(***************************************************************************)
(* The threads that write.                                                 *)
(***************************************************************************)
LEMMA StopsHereInv == ASSUME IInv, NEW w \in Threads, StopsHere(w) PROVE IInv'
<1> USE DEF StopsHere, Waits
<1>1. Claims'
  BY SameClaims
<1>2. Shape'
  BY AssemblyAssumption DEF IInv, Shape, Off
<1>3. Course' /\ Destination' /\ ReplacedIsWhole' /\ Hashing'
  BY Constant DEF IInv, Course, Destination, ReplacedIsWhole, Hashing
<1>4. worker'[w].st = "off" /\ \A v \in Threads \ {w} : worker'[v] = worker[v]
  BY DEF IInv, Shape, Off
<1>5. Flags'
  BY <1>4, Constant DEF IInv, Shape, Flags
<1>6. Progress'
  <2>1. error \/ Share(w) \ done = {}
    BY DEF IInv, Shape, Progress, Todo
  <2> QED
    BY <1>4, <2>1, Constant DEF IInv, Progress
<1> QED
  BY <1>1, <1>2, <1>3, <1>5, <1>6 DEF IInv

LEMMA StartsChunkInv == ASSUME IInv, NEW w \in Threads, StartsChunk(w) PROVE IInv'
<1> USE DEF StartsChunk, Waits
<1>1. PICK i \in Todo(w) : /\ \A j \in Todo(w) : i <= j
                           /\ worker' = [worker EXCEPT ![w] = [at |-> i, st |-> "write"]]
                           /\ tmp' = [tmp EXCEPT ![i] = "torn"]
  OBVIOUS
<1>2. i \in Share(w) /\ i > worker[w].at /\ i \in Chunks
  BY <1>1, SharesPartition DEF Todo, IInv, Shape
<1>3. i \notin done
  BY <1>2 DEF IInv, Flags, Shape, Chunks
<1>4. Claims'
  BY SameClaims
<1>5. Shape'
  BY <1>1, <1>2 DEF IInv, Shape, Chunks
<1>6. Course' /\ Destination' /\ ReplacedIsWhole' /\ Hashing'
  BY Constant DEF IInv, Course, Destination, ReplacedIsWhole, Hashing
<1>7. /\ worker'[w].st = "write" /\ worker'[w].at = i
      /\ \A v \in Threads \ {w} : worker'[v] = worker[v]
  BY <1>1 DEF IInv, Shape
<1>8. \A j \in Share(w) : j > worker[w].at => j >= i
  BY <1>1, SharesPartition DEF Todo, IInv, Shape, Chunks
<1>9. Flags'
  <2>1. \A j \in done : tmp'[j] = data[j] /\ Accepts(j)
    BY <1>1, <1>3 DEF IInv, Shape, Flags
  <2>2. \A j \in Share(w) \cap done : j < i
    BY <1>2 DEF IInv, Flags, Shape, Chunks
  <2> QED
    BY <1>7, <2>1, <2>2, Constant DEF IInv, Shape, Flags
<1>10. Progress'
  BY <1>2, <1>7, <1>8, Constant DEF IInv, Progress
<1> QED
  BY <1>4, <1>5, <1>6, <1>9, <1>10 DEF IInv

LEMMA EndsChunkInv == ASSUME IInv, NEW w \in Threads, EndsChunk(w) PROVE IInv'
<1> DEFINE i == worker[w].at
<1>1. Claims'
  <2>1. stage = "write" /\ stage' = "write"
    BY DEF EndsChunk
  <2>2. file' = file /\ counts' = counts /\ cached' = cached /\ rest' = rest
    BY DEF EndsChunk
  <2>3. \A n \in Names : Own(n)' = Own(n)
    BY <2>2 DEF Own
  <2> QED
    BY <2>1, <2>2, <2>3 DEF IInv, Claims
<1> USE DEF EndsChunk
<1>2. i \in Share(w) /\ i \in Chunks
  BY SharesPartition DEF IInv, Shape, Progress
<1>3. i \notin done
  BY <1>2 DEF IInv, Flags, Shape, Chunks
<1>4. hasher'.st = hasher.st /\ hasher'.at = hasher.at
  BY DEF IInv, Shape
<1>5. Shape'
  <2>1. data[i] \in Sources
    BY <1>2 DEF IInv, Shape
  <2>2. hasher' \in [st : {"off", "open", "wait", "inline", "ended", "failed", "gone"},
                     at : 1 .. N + 1, digest : {"right", "wrong"}]
    BY DEF IInv, Shape
  <2> QED
    BY <1>2, <2>1, <2>2 DEF IInv, Shape
<1>6. Course'
  BY <1>2 DEF IInv, Course
<1>7. Destination' /\ ReplacedIsWhole'
  BY Constant DEF IInv, Destination, ReplacedIsWhole, Course
<1>8. /\ worker'[w].st = "next" /\ worker'[w].at = i
      /\ \A v \in Threads \ {w} : worker'[v] = worker[v]
  BY DEF IInv, Shape
<1>9. \A v \in Threads \ {w} : i \notin Share(v)
  BY <1>2, SharesPartition DEF IInv, Shape
<1>10. Flags'
  <2>1. \A j \in done' : tmp'[j] = data[j] /\ Accepts(j) /\ j \in Chunks
    BY <1>2, <1>3 DEF IInv, Shape, Flags
  <2>2. \A j \in Share(w) \cap done' : j <= i
    BY <1>2 DEF IInv, Flags, Shape, Chunks
  <2> QED
    BY <1>8, <1>9, <2>1, <2>2, Constant DEF IInv, Flags
<1>11. Progress'
  <2>1. \A j \in Share(w) : j \in Chunks
    BY SharesPartition DEF IInv, Shape
  <2>2. ASSUME ~error, NEW j \in Share(w) \ done' PROVE j > i
    BY <1>2, <2>1, <2>2 DEF IInv, Progress, Shape, Chunks
  <2> QED
    BY <1>8, <2>2, Constant DEF IInv, Progress
<1>12. Hashing'
  <2>1. (hasher.st = "inline" /\ hasher'.digest = "right") =>
          data[i] = "right" /\ hasher.digest = "right"
    BY DEF IInv, Shape
  <2>2. HashesBeside => hasher.st # "inline"
    BY DEF IInv, Hashing
  <2> QED
    BY <1>4, <2>1, <2>2, Constant DEF IInv, Hashing
<1> QED
  BY <1>1, <1>5, <1>6, <1>7, <1>10, <1>11, <1>12 DEF IInv

LEMMA ChunkFailsInv == ASSUME IInv, NEW w \in Threads, ChunkFails(w) PROVE IInv'
<1> USE DEF ChunkFails
<1>1. Claims'
  BY SameClaims
<1>2. Shape'
  BY DEF IInv, Shape
<1>3. Course' /\ Destination' /\ ReplacedIsWhole' /\ Hashing'
  BY Constant DEF IInv, Course, Destination, ReplacedIsWhole, Hashing
<1>4. /\ worker'[w].st = "next" /\ worker'[w].at = worker[w].at
      /\ \A v \in Threads \ {w} : worker'[v] = worker[v]
  BY DEF IInv, Shape
<1>5. Flags'
  BY <1>4, Constant, SharesPartition DEF IInv, Shape, Flags, Chunks
<1>6. Progress'
  BY <1>4, Constant DEF IInv, Progress
<1> QED
  BY <1>1, <1>2, <1>3, <1>5, <1>6 DEF IInv

(***************************************************************************)
(* The thread that hashes, and the other files.                            *)
(***************************************************************************)
LEMMA HasherInv == ASSUME IInv, Hasher PROVE IInv'
<1> USE DEF Hasher
<1>1. /\ stage = "write" /\ hasher.st \in {"open", "wait"}
      /\ UNCHANGED <<file, data, stage, result, target, tmp, worker, done, downloaded, error, counts,
                     cached, rest>>
  BY DEF HasherOpens, HasherStops, HasherHashes, HasherEnds
<1>2. Claims'
  BY <1>1, SameClaims
<1>3. Course' /\ Destination' /\ ReplacedIsWhole' /\ Flags' /\ Progress'
  <2>1. Course' /\ Destination' /\ ReplacedIsWhole'
    BY <1>1, Constant DEF IInv, Course, Destination, ReplacedIsWhole
  <2>2. Flags'
    BY <1>1, Constant DEF IInv, Flags, Shape
  <2>3. Progress'
    BY <1>1, Constant DEF IInv, Progress
  <2> QED
    BY <2>1, <2>2, <2>3
<1>4. CASE HasherOpens \/ HasherStops \/ HasherEnds
  <2>1. /\ \E st \in {"wait", "failed", "gone", "ended"} : hasher' = [hasher EXCEPT !.st = st]
        /\ hasher'.st = "gone" => error
        /\ hasher'.st = "ended" => hasher.at > N
    BY <1>4 DEF HasherOpens, HasherStops, HasherEnds, IInv, Shape
  <2>2. hasher'.at = hasher.at /\ hasher'.digest = hasher.digest /\ hasher'.st # "inline"
    BY <2>1 DEF IInv, Shape
  <2>3. Shape'
    BY <1>1, <2>1 DEF IInv, Shape
  <2>4. hasher'.st = "ended" => hasher.at = N + 1
    BY <2>1, AssemblyAssumption DEF IInv, Shape
  <2>5. Hashing'
    BY <1>1, <2>1, <2>2, <2>4, Constant DEF IInv, Hashing
  <2> QED
    BY <1>2, <1>3, <2>3, <2>5 DEF IInv
<1>5. CASE HasherHashes
  <2> USE <1>5 DEF HasherHashes
  <2>1. hasher.at \in Chunks /\ tmp[hasher.at] = data[hasher.at]
    BY <1>1 DEF IInv, Shape, Flags
  <2>2. /\ hasher'.st = "wait" /\ hasher'.at = hasher.at + 1
        /\ hasher'.digest = "right" => hasher.digest = "right" /\ data[hasher.at] = "right"
    BY <2>1 DEF IInv, Shape
  <2>3. hasher' \in [st : {"off", "open", "wait", "inline", "ended", "failed", "gone"},
                     at : 1 .. N + 1, digest : {"right", "wrong"}]
    <3>1. hasher.at + 1 \in 1 .. N + 1
      BY <2>1, AssemblyAssumption DEF Chunks
    <3>2. hasher.digest \in {"right", "wrong"}
      BY DEF IInv, Shape
    <3>3. hasher \in [st : {"off", "open", "wait", "inline", "ended", "failed", "gone"},
                      at : 1 .. N + 1, digest : {"right", "wrong"}]
      BY DEF IInv, Shape
    <3> QED
      BY <3>1, <3>2, <3>3
  <2>4. Shape'
    BY <1>1, <2>3 DEF IInv, Shape
  <2>5. ASSUME HashesBeside, hasher'.digest = "right", NEW k \in 1 .. hasher'.at - 1
        PROVE  data[k] = "right"
    BY <1>1, <2>1, <2>2, <2>5, AssemblyAssumption DEF IInv, Hashing, Chunks
  <2>6. Hashing'
    BY <1>1, <2>2, <2>5, Constant DEF IInv, Hashing
  <2> QED
    BY <1>2, <1>3, <2>4, <2>6 DEF IInv
<1> QED
  BY <1>4, <1>5

LEMMA OtherReleasesInv == ASSUME IInv, NEW n \in Names, OtherReleases(n) PROVE IInv'
<1> USE DEF OtherReleases
<1>1. Shape' /\ Course' /\ Flags' /\ Progress' /\ Hashing' /\ Destination' /\ ReplacedIsWhole'
  BY Constant
     DEF IInv, Shape, Course, Flags, Progress, Hashing, Destination, ReplacedIsWhole, Mismatch
<1>2. \A m \in Names : Own(m)' = Own(m) /\ Used(m)' = Used(m)
  BY DEF Used, Own
<1>3. \A m \in Names : Used(m) \in Nat /\ Used(m) <= Cardinality(Own(m)) /\ Cardinality(Own(m)) \in Nat
  BY UsedIsOwn DEF IInv, Shape, Course
<1>4. counts[n] \in Nat /\ counts[n] > 0
  BY <1>3 DEF IInv, Claims
<1>5. Claims'
  <2>1. /\ counts' \in [Names -> Nat] /\ rest' \in [Names -> Nat] /\ cached' \subseteq Names
        /\ counts'[n] = counts[n] - 1 /\ rest'[n] = rest[n] - 1
        /\ \A m \in Names \ {n} : counts'[m] = counts[m] /\ rest'[m] = rest[m]
    BY <1>4 DEF IInv, Claims
  <2>2. \A m \in Names : counts'[m] > 0 => m \in cached'
    BY <1>4, <2>1 DEF IInv, Claims
  <2>3. \A m \in Names : counts'[m] + (IF stage = "returned" THEN Used(m) ELSE 0)
                            = rest'[m] + Cardinality(Own(m))
    BY <1>3, <1>4, <2>1 DEF IInv, Claims
  <2> QED
    BY <1>2, <2>1, <2>2, <2>3 DEF Claims
<1> QED
  BY <1>1, <1>5 DEF IInv

LEMMA IInvNext == IInv /\ [Next]_vars => IInv'
<1> SUFFICES ASSUME IInv, [Next]_vars PROVE IInv'
  OBVIOUS
<1>1. CASE UNCHANGED vars
  BY <1>1, SameClaims, Constant
     DEF vars, IInv, Shape, Course, Flags, Progress, Hashing, Destination, ReplacedIsWhole, Mismatch
<1>2. CASE Task
  BY <1>2, BeginInv, JoinInv, SyncInv, RenameInv, CopyInv DEF Task
<1>3. ASSUME NEW w \in Threads, Thread(w) PROVE IInv'
  BY <1>3, StopsHereInv, StartsChunkInv, EndsChunkInv, ChunkFailsInv DEF Thread
<1> QED
  BY <1>1, <1>2, <1>3, HasherInv, OtherReleasesInv DEF Next, Threads

LEMMA IInvHolds == Spec => []IInv
BY InitInv, IInvNext, PTL DEF Spec

\* Each variable has its type; the counters never wrap.
THEOREM TypeCorrect == Spec => []TypeOK
<1>1. IInv => TypeOK
  BY DEF IInv, Shape, Course, Claims, TypeOK, Threads
<1> QED
  BY <1>1, IInvHolds, PTL

(***************************************************************************)
(* What replaces the destination has every chunk in its place, and is the  *)
(* file of the manifest whenever a hash covers it.                         *)
(***************************************************************************)
THEOREM ReplacedIsWholeHolds == Spec => []ReplacedIsWhole
<1>1. IInv => ReplacedIsWhole
  BY DEF IInv
<1> QED
  BY <1>1, IInvHolds, PTL

\* A call that fails leaves its destination alone, but for a copy cut short.
THEOREM OriginalKeptHolds == Spec => []OriginalKept
<1>1. IInv => OriginalKept
  BY DEF IInv, Shape, Destination, OriginalKept
<1> QED
  BY <1>1, IInvHolds, PTL

(***************************************************************************)
(* A chunk is there as long as somebody needs it, and an assembled file    *)
(* has no claim left, however often it and others have the chunk.          *)
(***************************************************************************)
THEOREM ChunksOutliveUsersHolds == Spec => []ChunksOutliveUsers
<1>1. ASSUME IInv PROVE ChunksOutliveUsers
  <2> SUFFICES ASSUME NEW n \in Names
               PROVE  /\ (rest[n] > 0 \/ (result # "ok" /\ Own(n) \ downloaded # {})) => n \in cached
                      /\ result = "ok" => counts[n] = rest[n]
    BY DEF ChunksOutliveUsers
  <2>1. /\ counts[n] \in Nat /\ rest[n] \in Nat
        /\ counts[n] + (IF stage = "returned" THEN Used(n) ELSE 0) = rest[n] + Cardinality(Own(n))
        /\ counts[n] > 0 => n \in cached
    BY <1>1 DEF IInv, Claims
  <2>2. downloaded \subseteq Chunks \ file.old
    BY <1>1 DEF IInv, Shape, Course
  <2>3. result = "ok" => stage = "returned" /\ Own(n) \ downloaded = {}
    BY <1>1 DEF IInv, Course, Own
  <2>4. Own(n) \ downloaded # {} => Cardinality(Own(n)) > 0
    BY <2>2, UsedIsOwn
  <2> QED
    BY <2>1, <2>2, <2>3, <2>4, UsedIsOwn
<1> QED
  BY <1>1, IInvHolds, PTL

-----------------------------------------------------------------------------
(***************************************************************************)
(* Plugins.  No plugin has the id of an SDK, and none has the id that      *)
(* makes its key that of the SDKs: the key of a plugin is                  *)
(* plugin_<id>_version, that of every SDK plugin_sdk_version.              *)
(***************************************************************************)
PluginIds == {Releases[i].id : i \in 1 .. Len(Releases)}
SdkIds    == {SdkReleases[i].id : i \in 1 .. Len(SdkReleases)}
IdsApart  == PluginIds \cap SdkIds = {} /\ "plugin_sdk_version" \notin PluginIds

Served   == Range(List("plugins"))
Recorded == Versions \cup {None}

PluginTypeOK ==
    /\ offer \in [Packages -> Versions]
    /\ disk \in [Files -> Versions \cup {Gone, Part, Rot}]
    /\ archive \in [Tasks -> Versions \cup {Gone, Bad}]
    /\ record \in [Keys -> Recorded] /\ written \in [Keys -> Recorded]
    /\ torn \in BOOLEAN /\ lock \in Tasks \cup {NoTask}
    /\ pc \in [Tasks -> {"idle", "check", "fetch", "extract", "lock", "truncate", "write"}]
    /\ at \in [Tasks -> Nat]
    /\ version \in [Tasks -> [Packages -> Recorded]]
    /\ todo \in [Tasks -> SUBSET Files] /\ open \in [Tasks -> Files \cup {Gone}]
    /\ copy \in [Tasks -> [Keys -> Recorded]]
    /\ damaged \subseteq Files /\ sessions \in Nat /\ damage \in Nat

\* A task that runs is at a package of its list and knows the versions of all.
Placed ==
    \A t \in Tasks :
        /\ pc[t] = "idle" => at[t] = 1
        /\ pc[t] # "idle" => /\ at[t] \in 1 .. Len(List(t))
                             /\ \A p \in Range(List(t)) : version[t][p] \in Versions

\* What is extracted is the archive of that package.
Extracting ==
    \A t \in Tasks :
        /\ pc[t] # "extract" => open[t] = Gone
        /\ pc[t] = "extract" =>
              /\ todo[t] \subseteq FilesOf(Here(t)) /\ open[t] \in todo[t] \cup {Gone}
              /\ archive[t] = Wants(t) \/ (Here(t) \in Unhashed /\ archive[t] = Bad)

Locking == \A t \in Tasks : pc[t] \in {"truncate", "write"} => lock = t

\* What is about to be written holds all that was set, and a file that stays
\* torn has lost it.
Copied ==
    /\ torn /\ (\A t \in Tasks : pc[t] # "write") => \A k \in Keys : written[k] = None
    /\ \A t \in Tasks : pc[t] \in {"truncate", "write"} =>
          \A k \in Keys :
              IF k = Key(t, Here(t)) THEN copy[t][k] = Wants(t)
              ELSE written[k] # None => copy[t][k] = written[k]

\* The packages of a task that share their key with no other one.
Vouched(t) == {p \in Range(List(t)) : \A q \in Range(List(t)) : Key(t, q) = Key(t, p) => q = p}

\* What may have become of a file of a package that was extracted: it is
\* removed, replaced by a newer version or cut short by that, or changed from
\* outside; or the archive was another one.
Fits(p, f, v) ==
    \/ disk[f] \in {v, Gone, Part}
    \/ disk[f] = Rot /\ (f \in damaged \/ p \in Unhashed)
    \/ disk[f] \in Versions /\ disk[f] > v

Told(t, p) == {record[Key(t, p)]} \cup {copy[u][Key(t, p)] : u \in Tasks}

RecordsFit ==
    \A t \in Tasks : \A p \in Vouched(t) :
        \A f \in FilesOf(p), v \in Told(t, p) : v # None => Fits(p, f, v)

\* The file is extracted, and the task has not gone on to the next package.
Done(t, f) == \/ pc[t] \in {"lock", "truncate", "write"}
              \/ pc[t] = "extract" /\ f \notin todo[t]

AllExtracted ==
    \A t \in Tasks : Here(t) \in Vouched(t) =>
        \A f \in FilesOf(Here(t)) : Done(t, f) => Fits(Here(t), f, Wants(t))

\* Nothing of a package is newer than what its task installs, or may find on offer.
Cap(t, p) == IF pc[t] = "idle" THEN offer[p] ELSE version[t][p]

NoneNewer ==
    /\ \A t \in Tasks, p \in Packages : version[t][p] <= offer[p]
    /\ \A t \in Tasks : \A p \in Vouched(t) :
           \A v \in Told(t, p) \cup ({disk[f] : f \in FilesOf(p)} \cap Versions) : v <= Cap(t, p)

(***************************************************************************)
(* Lists: every place of the list of a task holds a package of its service.*)
(***************************************************************************)
LEMMA PlaceOfEach ==
  ASSUME NEW n \in Nat, NEW kept \in SUBSET (1 .. n), NEW k \in 1 .. Cardinality(kept)
  PROVE  \E i \in kept : Cardinality(UpTo(kept, i)) = k
<1> DEFINE number == [i \in kept |-> Cardinality(UpTo(kept, i))]
           all == 1 .. Cardinality(kept)
<1>1. IsFiniteSet(kept)
  <2>1. 1 \in Int /\ n \in Int
    OBVIOUS
  <2>2. IsFiniteSet(1 .. n)
    BY <2>1, FS_Interval
  <2> QED
    BY <2>2, FS_Subset
<1>2. Cardinality(kept) \in Nat
  BY <1>1, FS_CardinalityType
<1>3. IsFiniteSet(all) /\ Cardinality(all) = Cardinality(kept)
  <2>1. 1 \in Int /\ Cardinality(kept) \in Int /\ Cardinality(kept) >= 0
    BY <1>2
  <2> QED
    BY <2>1, FS_Interval
<1>4. ASSUME NEW i \in kept
      PROVE  IsFiniteSet(UpTo(kept, i)) /\ Cardinality(UpTo(kept, i)) \in all
  <2>1. UpTo(kept, i) \in SUBSET kept /\ i \in UpTo(kept, i)
    BY DEF UpTo
  <2>2. IsFiniteSet(UpTo(kept, i)) /\ Cardinality(UpTo(kept, i)) <= Cardinality(kept)
    BY <1>1, <2>1, FS_Subset
  <2>3. Cardinality(UpTo(kept, i)) \in Nat /\ Cardinality(UpTo(kept, i)) # 0
    BY <2>1, <2>2, FS_CardinalityType, FS_EmptySet
  <2> QED
    BY <1>2, <2>2, <2>3
<1>5. ASSUME NEW i \in kept, NEW j \in kept, i < j
      PROVE  Cardinality(UpTo(kept, i)) < Cardinality(UpTo(kept, j))
  <2>1. UpTo(kept, i) \subseteq UpTo(kept, j) /\ j \in UpTo(kept, j) /\ j \notin UpTo(kept, i)
    <3>1. i \in Nat /\ j \in Nat /\ \A m \in kept : m \in Nat
      OBVIOUS
    <3>2. \A m \in kept : m <= i => m <= j
      BY <3>1, <1>5
    <3>3. UpTo(kept, i) \subseteq UpTo(kept, j)
      BY <3>2 DEF UpTo
    <3>4. j <= j /\ ~(j <= i)
      BY <3>1, <1>5
    <3> QED
      BY <3>3, <3>4 DEF UpTo
  <2>2. UpTo(kept, i) \in SUBSET UpTo(kept, j) /\ UpTo(kept, i) # UpTo(kept, j)
    BY <2>1
  <2> QED
    BY <1>4, <2>2, FS_Subset
<1>6. number \in Injection(kept, all)
  <2>1. number \in [kept -> all]
    BY <1>4
  <2>2. ASSUME NEW i \in kept, NEW j \in kept, number[i] = number[j] PROVE i = j
    <3>1. Cardinality(UpTo(kept, i)) = Cardinality(UpTo(kept, j))
      BY <2>2
    <3>2. ~(i < j) /\ ~(j < i)
      BY <1>2, <1>4, <1>5, <3>1
    <3> QED
      BY <3>2
  <2> QED
    BY <2>1, <2>2 DEF Injection, IsInjective
<1>7. number \in Surjection(kept, all)
  BY <1>1, <1>3, <1>6, FS_Injection
<1> QED
  BY <1>7 DEF Surjection

LEMMA ListOf ==
  ASSUME NEW list, list \in Seq(Range(list)), NEW kept \in SUBSET (1 .. Len(list))
  PROVE  Ids(list, kept) \in Seq({list[i].id : i \in 1 .. Len(list)})
<1>1. Len(list) \in Nat
  OBVIOUS
<1>2. IsFiniteSet(kept)
  <2>1. IsFiniteSet(1 .. Len(list))
    BY <1>1, FS_Interval
  <2> QED
    BY <2>1, FS_Subset
<1>3. Cardinality(kept) \in Nat
  BY <1>2, FS_CardinalityType
<1>4. ASSUME NEW k \in 1 .. Cardinality(kept)
      PROVE  Ids(list, kept)[k] \in {list[i].id : i \in 1 .. Len(list)}
  <2> DEFINE i == CHOOSE i \in kept : Cardinality(UpTo(kept, i)) = k
  <2>1. i \in kept
    BY <1>1, PlaceOfEach
  <2>2. Ids(list, kept)[k] = list[i].id
    BY DEF Ids
  <2> QED
    BY <2>1, <2>2
<1>5. Ids(list, kept) \in [1 .. Cardinality(kept) -> {list[i].id : i \in 1 .. Len(list)}]
  BY <1>4 DEF Ids
<1> QED
  BY <1>3, <1>5

LEMMA Lists ==
  /\ \A t \in Tasks : /\ Len(List(t)) \in Nat /\ DOMAIN List(t) = 1 .. Len(List(t))
                      /\ List(t) # <<>> => Len(List(t)) > 0
  /\ Served \subseteq PluginIds /\ Range(List("sdks")) \subseteq SdkIds
  /\ Packages = PluginIds \cup SdkIds
<1>1. List("plugins") \in Seq(PluginIds)
  <2>1. {i \in 1 .. Len(Releases) : First(Releases, i) /\ ~Releases[i].dx}
            \in SUBSET (1 .. Len(Releases))
    OBVIOUS
  <2> QED
    BY <2>1, ListOf, PluginInstallAssumption
       DEF List, Fetched, PluginIds, PluginInstallAssumption
<1>2. List("sdks") \in Seq(SdkIds)
  <2>1. {i \in 1 .. Len(SdkReleases) : ~SdkReleases[i].dx} \in SUBSET (1 .. Len(SdkReleases))
    OBVIOUS
  <2> QED
    BY <2>1, ListOf, PluginInstallAssumption
       DEF List, FetchedSdks, SdkIds, PluginInstallAssumption
<1>3. Packages = PluginIds \cup SdkIds
  BY DEF Packages, PluginIds, SdkIds
<1>4. ASSUME NEW S, NEW s \in Seq(S)
      PROVE  /\ Len(s) \in Nat /\ DOMAIN s = 1 .. Len(s) /\ (s # <<>> => Len(s) > 0)
             /\ Range(s) \subseteq S
  BY DEF Range
<1> QED
  BY <1>1, <1>2, <1>3, <1>4 DEF Served, Tasks

LEMMA HereIsServed ==
  ASSUME PluginTypeOK, Placed, NEW t \in Tasks, pc[t] # "idle"
  PROVE  Here(t) \in Range(List(t)) /\ Here(t) \in Packages /\ Wants(t) \in Versions
<1>1. at[t] \in DOMAIN List(t)
  BY Lists DEF Placed
<1>2. Here(t) \in Range(List(t))
  BY <1>1 DEF Here, Range
<1>3. Range(List(t)) \subseteq Packages
  BY Lists DEF Tasks, Served
<1> QED
  BY <1>2, <1>3 DEF Placed, Wants

LEMMA FollowingKeepsPlaces ==
  ASSUME PluginTypeOK, Placed, Extracting, NEW t \in Tasks, pc[t] # "idle", Following(t)
  PROVE  /\ pc' \in [Tasks -> {"idle", "check", "fetch", "extract", "lock", "truncate", "write"}]
         /\ at' \in [Tasks -> Nat] /\ version' \in [Tasks -> [Packages -> Recorded]]
         /\ archive' \in [Tasks -> Versions \cup {Gone, Bad}]
         /\ todo' \in [Tasks -> SUBSET Files] /\ open' \in [Tasks -> Files \cup {Gone}]
         /\ Placed' /\ Extracting'
         /\ pc'[t] \in {"idle", "check"}
         /\ \A u \in Tasks \ {t} : /\ pc'[u] = pc[u] /\ Here(u)' = Here(u)
                                  /\ version'[u] = version[u] /\ todo'[u] = todo[u]
         /\ \A u \in Tasks : \/ version'[u] = version[u]
                             \/ version'[u] = Unlisted /\ pc'[u] = "idle"
<1>1. at[t] \in 1 .. Len(List(t)) /\ Len(List(t)) \in Nat
  BY Lists DEF Placed
<1>2. Unlisted \in [Packages -> Recorded]
  BY DEF Unlisted, Recorded, None
<1> USE DEF Following, Go, PluginTypeOK
<1>3. /\ pc' \in [Tasks -> {"idle", "check", "fetch", "extract", "lock", "truncate", "write"}]
      /\ pc'[t] \in {"idle", "check"}
      /\ \A u \in Tasks \ {t} : pc'[u] = pc[u]
  OBVIOUS
<1>4. /\ at' \in [Tasks -> Nat]
      /\ pc'[t] = "idle" => at'[t] = 1
      /\ pc'[t] # "idle" => at'[t] \in 1 .. Len(List(t))
      /\ \A u \in Tasks \ {t} : at'[u] = at[u]
  BY <1>1
<1>5. /\ version' \in [Tasks -> [Packages -> Recorded]]
      /\ pc'[t] # "idle" => version'[t] = version[t]
      /\ \A u \in Tasks \ {t} : version'[u] = version[u]
      /\ pc'[t] = "idle" => version'[t] = Unlisted
  BY <1>2
<1>6. /\ archive' \in [Tasks -> Versions \cup {Gone, Bad}]
      /\ todo' \in [Tasks -> SUBSET Files] /\ open' \in [Tasks -> Files \cup {Gone}]
      /\ open'[t] = Gone
      /\ \A u \in Tasks \ {t} : archive'[u] = archive[u] /\ todo'[u] = todo[u] /\ open'[u] = open[u]
  OBVIOUS
<1> USE DEF Placed
<1>7. Placed'
  BY <1>3, <1>4, <1>5
<1>8. \A u \in Tasks \ {t} : Here(u)' = Here(u) /\ Wants(u)' = Wants(u)
  BY <1>4, <1>5 DEF Here, Wants
<1>9. Extracting'
  BY <1>3, <1>6, <1>8 DEF Extracting
<1> QED
  BY <1>3, <1>4, <1>5, <1>6, <1>7, <1>8, <1>9

Places == PluginTypeOK /\ Placed /\ Extracting

LEMMA PluginInitPlaces == PluginInit => Places
<1> SUFFICES ASSUME PluginInit PROVE Places
  OBVIOUS
<1> USE DEF PluginInit, None, NoTask, Recorded, Unlisted
<1>1. 1 \in Versions
  BY PluginInstallAssumption DEF PluginInstallAssumption, Versions
<1>2. PluginTypeOK
  BY <1>1 DEF PluginTypeOK
<1> QED
  BY <1>2 DEF Places, Placed, Extracting

LEMMA NextPlaces == Places /\ [PluginNext]_pluginVars => Places'
<1> SUFFICES ASSUME PluginTypeOK, Placed, Extracting, [PluginNext]_pluginVars PROVE Places'
  BY DEF Places
<1> USE DEF Places
<1>1. ASSUME NEW t \in Tasks, Start(t) PROVE Places'
  <2>1. PluginTypeOK'
    <3>1. [p \in Packages |-> IF p \in Range(List(t)) THEN offer[p] ELSE None]
             \in [Packages -> Recorded]
      BY DEF PluginTypeOK, Recorded
    <3>2. /\ version' \in [Tasks -> [Packages -> Recorded]]
          /\ pc' \in [Tasks -> {"idle", "check", "fetch", "extract", "lock", "truncate", "write"}]
      BY <1>1, <3>1, ZenonT(30) DEF Start, Go, PluginTypeOK
    <3> QED
      BY <1>1, <3>2 DEF Start, PluginTypeOK
  <2>2. Range(List(t)) \subseteq Packages
    BY Lists DEF Tasks, Served
  <2>3. List(t) # <<>> => 1 \in 1 .. Len(List(t))
    BY Lists
  <2>4. /\ pc'[t] # "idle" => /\ List(t) # <<>>
                              /\ \A p \in Range(List(t)) : version'[t][p] \in Versions
        /\ at' = at /\ pc[t] = "idle"
        /\ \A u \in Tasks \ {t} : pc'[u] = pc[u] /\ version'[u] = version[u]
    BY <1>1, <2>2 DEF Start, Go, PluginTypeOK
  <2>5. Placed'
    BY <2>3, <2>4 DEF Placed
  <2>6. pc'[t] # "extract" /\ archive' = archive /\ todo' = todo /\ open' = open
    BY <1>1 DEF Start, Go, PluginTypeOK
  <2>7. Extracting'
    BY <2>4, <2>6 DEF Extracting, Here, Wants
  <2> QED
    BY <2>1, <2>5, <2>7
<1>2. ASSUME NEW p \in Packages, Publish(p) PROVE Places'
  BY <1>2, PluginInstallAssumption
     DEF Publish, PluginTypeOK, Placed, Extracting, Here, Wants, Versions, PluginInstallAssumption
<1>3. ASSUME NEW f \in Files, NEW c \in {Gone, Part, Rot}, Damage(f, c) PROVE Places'
  BY <1>3 DEF Damage, PluginTypeOK, Placed, Extracting, Here, Wants
<1>4. CASE Crash
  BY <1>4 DEF Crash, PluginTypeOK, Placed, Extracting, Unlisted, Recorded, None, NoTask
<1>5. CASE UNCHANGED pluginVars
  BY <1>5 DEF pluginVars, PluginTypeOK, Placed, Extracting, Here, Wants
<1>6. ASSUME NEW t \in Tasks, Step(t) PROVE Places'
  <2>0. pc[t] # "idle"
    BY <1>6 DEF Step, Skip, Request, Fetch, FetchFails, Open, Fill, ExtractFails, Verify,
                VerifyFails, Lock, Truncate, Write, WriteFails
  <2>a. Here(t) \in Packages /\ Wants(t) \in Versions
    BY <2>0, HereIsServed
  <2>b. [k \in Keys |-> None] \in [Keys -> Recorded]
    BY DEF Recorded
  <2>1. CASE Skip(t) \/ FetchFails(t) \/ ExtractFails(t)
    <3>1. Following(t) /\ UNCHANGED <<offer, disk, record, torn, lock, copy, written, damaged, sessions, damage>>
      BY <2>1 DEF Skip, FetchFails, ExtractFails
    <3> QED
      BY <2>0, <3>1, FollowingKeepsPlaces DEF PluginTypeOK
  <2>2. CASE VerifyFails(t)
    <3>1. Following(t) /\ UNCHANGED <<offer, record, torn, lock, copy, written, damaged, sessions, damage>>
      BY <2>2 DEF VerifyFails
    <3>2. disk' \in [Files -> Versions \cup {Gone, Part, Rot}]
      BY <2>2 DEF VerifyFails, PluginTypeOK
    <3> QED
      BY <2>0, <3>1, <3>2, FollowingKeepsPlaces DEF PluginTypeOK
  <2>3. CASE Write(t)
    <3>1. Following(t) /\ UNCHANGED <<offer, disk, damaged, sessions, damage>>
      BY <2>3 DEF Write
    <3>2. /\ torn' \in BOOLEAN /\ record' \in [Keys -> Recorded] /\ lock' \in Tasks \cup {NoTask}
          /\ copy' \in [Tasks -> [Keys -> Recorded]] /\ written' \in [Keys -> Recorded]
      BY <2>3, <2>a, <2>b DEF Write, PluginTypeOK, Recorded
    <3> QED
      BY <2>0, <3>1, <3>2, FollowingKeepsPlaces DEF PluginTypeOK
  <2>4. CASE WriteFails(t)
    <3>1. Following(t) /\ UNCHANGED <<offer, disk, record, torn, damaged, sessions, damage>>
      BY <2>4 DEF WriteFails
    <3>2. /\ lock' \in Tasks \cup {NoTask}
          /\ copy' \in [Tasks -> [Keys -> Recorded]] /\ written' \in [Keys -> Recorded]
      BY <2>4, <2>b DEF WriteFails, PluginTypeOK
    <3> QED
      BY <2>0, <3>1, <3>2, FollowingKeepsPlaces DEF PluginTypeOK
  <2>5. CASE Request(t)
    BY <2>5 DEF Request, Go, PluginTypeOK, Placed, Extracting, Here, Wants
  <2>6. CASE Fetch(t)
    <3>1. PluginTypeOK'
      BY <2>6, <2>a DEF Fetch, Go, PluginTypeOK, FilesOf
    <3>2. Placed'
      BY <2>6 DEF Fetch, Go, PluginTypeOK, Placed
    <3>3. Extracting'
      BY <2>6 DEF Fetch, Go, PluginTypeOK, Extracting, Here, Wants
    <3> QED
      BY <3>1, <3>2, <3>3
  <2>7. ASSUME NEW f \in Files, Open(t, f) PROVE Places'
    BY <2>7 DEF Open, PluginTypeOK, Placed, Extracting, Here, Wants
  <2>8. CASE Fill(t)
    <3>1. PluginTypeOK'
      BY <2>8, <2>a DEF Fill, PluginTypeOK
    <3>2. Placed'
      BY <2>8 DEF Fill, Placed
    <3>3. Extracting'
      BY <2>8 DEF Fill, PluginTypeOK, Extracting, Here, Wants
    <3> QED
      BY <3>1, <3>2, <3>3
  <2>9. CASE Verify(t)
    <3>1. PluginTypeOK'
      BY <2>9 DEF Verify, Go, PluginTypeOK
    <3>2. Placed'
      BY <2>9 DEF Verify, Go, PluginTypeOK, Placed
    <3>3. Extracting'
      BY <2>9 DEF Verify, Go, PluginTypeOK, Extracting, Here, Wants
    <3> QED
      BY <3>1, <3>2, <3>3
  <2>10. CASE Lock(t)
    <3>1. Read \in [Keys -> Recorded]
      BY <2>b DEF Read, PluginTypeOK
    <3>2. [Read EXCEPT ![Key(t, Here(t))] = Wants(t)] \in [Keys -> Recorded]
      BY <3>1, <2>a DEF Recorded
    <3>3. PluginTypeOK'
      BY <2>10, <3>2 DEF Lock, Go, PluginTypeOK
    <3>4. Placed' /\ Extracting'
      BY <2>10 DEF Lock, Go, PluginTypeOK, Placed, Extracting, Here, Wants
    <3> QED
      BY <3>3, <3>4
  <2>11. CASE Truncate(t)
    BY <2>11 DEF Truncate, Go, PluginTypeOK, Placed, Extracting, Here, Wants
  <2> QED
    BY <1>6, <2>1, <2>2, <2>3, <2>4, <2>5, <2>6, <2>7, <2>8, <2>9, <2>10, <2>11 DEF Step
<1> QED
  BY <1>1, <1>2, <1>3, <1>4, <1>5, <1>6 DEF PluginNext

Records == RecordsSurvive /\ Copied /\ Locking

LEMMA NextRecords == Places /\ Records /\ [PluginNext]_pluginVars => Records'
<1> SUFFICES ASSUME Places, Records, [PluginNext]_pluginVars PROVE Records'
  OBVIOUS
<1> USE DEF Records
<1>0. PluginTypeOK /\ Placed /\ Extracting
  BY DEF Places
\* A step that leaves the file, the lock and whoever holds it alone.
<1>1. ASSUME UNCHANGED <<record, torn, lock, copy, written>>,
             \A t \in Tasks : /\ pc'[t] \in {"truncate", "write"} =>
                                   /\ pc'[t] = pc[t] /\ Here(t)' = Here(t)
                                   /\ Wants(t)' = Wants(t)
                              /\ pc[t] = "write" => pc'[t] = "write"
      PROVE  Records'
  <2>1. RecordsSurvive' /\ Locking'
    BY <1>1 DEF RecordsSurvive, Locking
  <2>2. Copied'
    BY <1>1 DEF Copied, Key
  <2> QED
    BY <2>1, <2>2
<1>2. ASSUME NEW t \in Tasks, Start(t) PROVE Records'
  <2>1. /\ UNCHANGED <<record, torn, lock, copy, written, at>>
        /\ pc[t] = "idle" /\ pc'[t] \in {"idle", "check"}
        /\ \A u \in Tasks \ {t} : pc'[u] = pc[u] /\ version'[u] = version[u]
    BY <1>0, <1>2 DEF Start, Go, PluginTypeOK
  <2> QED
    BY <2>1, <1>1 DEF Here, Wants
<1>3. ASSUME NEW p \in Packages, Publish(p) PROVE Records'
  BY <1>1, <1>3 DEF Publish, Here, Wants
<1>4. ASSUME NEW f \in Files, NEW c \in {Gone, Part, Rot}, Damage(f, c) PROVE Records'
  BY <1>1, <1>4 DEF Damage, Here, Wants
<1>5. CASE Crash
  <2>1. /\ UNCHANGED <<record, torn>> /\ \A t \in Tasks : pc'[t] = "idle"
        /\ written' = IF torn THEN [k \in Keys |-> None] ELSE written
    BY <1>5 DEF Crash
  <2> QED
    BY <2>1 DEF RecordsSurvive, Copied, Locking
<1>6. CASE UNCHANGED pluginVars
  BY <1>1, <1>6 DEF pluginVars, Here, Wants
<1>7. ASSUME NEW t \in Tasks, Step(t) PROVE Records'
  <2>0. pc[t] # "idle"
    BY <1>7 DEF Step, Skip, Request, Fetch, FetchFails, Open, Fill, ExtractFails, Verify,
                VerifyFails, Lock, Truncate, Write, WriteFails
  <2>1. CASE Skip(t) \/ FetchFails(t) \/ ExtractFails(t) \/ VerifyFails(t)
    <3>1. /\ Following(t) /\ UNCHANGED <<record, torn, lock, copy, written>>
          /\ pc[t] \in {"check", "fetch", "extract"}
      BY <2>1 DEF Skip, FetchFails, ExtractFails, VerifyFails
    <3>2. /\ pc'[t] \in {"idle", "check"}
          /\ \A u \in Tasks \ {t} : pc'[u] = pc[u] /\ Here(u)' = Here(u) /\ Wants(u)' = Wants(u)
      BY <1>0, <2>0, <3>1, FollowingKeepsPlaces DEF Wants
    <3> QED
      BY <1>1, <3>1, <3>2
  <2>2. CASE Request(t) \/ Fetch(t) \/ (\E f \in Files : Open(t, f)) \/ Fill(t) \/ Verify(t)
    <3>1. /\ UNCHANGED <<record, torn, lock, copy, written, at, version>>
          /\ pc[t] \in {"check", "fetch", "extract"} /\ pc'[t] \in {"fetch", "extract", "lock"}
          /\ \A u \in Tasks \ {t} : pc'[u] = pc[u]
      <4> USE <1>0 DEF Go, PluginTypeOK
      <4>1. CASE Request(t)
        BY <4>1 DEF Request
      <4>2. CASE Fetch(t)
        BY <4>2 DEF Fetch
      <4>3. CASE \E f \in Files : Open(t, f)
        BY <4>3 DEF Open
      <4>4. CASE Fill(t)
        BY <4>4 DEF Fill
      <4>5. CASE Verify(t)
        BY <4>5 DEF Verify
      <4> QED
        BY <2>2, <4>1, <4>2, <4>3, <4>4, <4>5
    <3> QED
      BY <1>1, <3>1 DEF Here, Wants
  <2>3. CASE Lock(t)
    <3>1. /\ lock = NoTask /\ lock' = t /\ UNCHANGED <<record, torn, written, at, version>>
          /\ pc'[t] = "truncate" /\ \A u \in Tasks \ {t} : pc'[u] = pc[u]
          /\ copy'[t] = [Read EXCEPT ![Key(t, Here(t))] = Wants(t)]
          /\ \A u \in Tasks \ {t} : copy'[u] = copy[u]
      BY <1>0, <2>3 DEF Lock, Go, PluginTypeOK
    <3>2. \A u \in Tasks : pc[u] \notin {"truncate", "write"}
      BY <3>1 DEF Locking, NoTask, Tasks
    <3>3. \A k \in Keys : written[k] # None => Read[k] = written[k]
      BY <3>2 DEF RecordsSurvive, Copied, Read
    <3>4. DOMAIN Read = Keys
      BY <1>0 DEF Read, PluginTypeOK
    <3>5. \A k \in Keys : IF k = Key(t, Here(t)) THEN copy'[t][k] = Wants(t)
                          ELSE written[k] # None => copy'[t][k] = written[k]
      BY <3>1, <3>3, <3>4
    <3>6. Here(t)' = Here(t) /\ Wants(t)' = Wants(t) /\ Key(t, Here(t))' = Key(t, Here(t))
      BY <3>1 DEF Here, Wants, Key
    <3>7. Copied'
      <4>1. torn => \A k \in Keys : written[k] = None
        BY <3>2 DEF Copied
      <4>2. ASSUME NEW u \in Tasks, pc'[u] \in {"truncate", "write"} PROVE u = t
        BY <3>1, <3>2, <4>2
      <4> QED
        BY <3>1, <3>5, <3>6, <4>1, <4>2, ZenonT(30) DEF Copied
    <3> QED
      BY <3>1, <3>2, <3>7 DEF RecordsSurvive, Locking
  <2>4. CASE Truncate(t)
    <3>1. /\ pc[t] = "truncate" /\ pc'[t] = "write" /\ \A u \in Tasks \ {t} : pc'[u] = pc[u]
          /\ torn' /\ UNCHANGED <<record, lock, copy, written, at, version>>
      BY <1>0, <2>4 DEF Truncate, Go, PluginTypeOK
    <3>2. \A u \in Tasks : Here(u)' = Here(u) /\ Wants(u)' = Wants(u)
      BY <3>1 DEF Here, Wants
    <3> QED
      BY <3>1, <3>2 DEF RecordsSurvive, Copied, Locking, Key
  <2>5. CASE Write(t)
    <3>1. /\ pc[t] = "write" /\ ~torn' /\ record' = copy[t] /\ Following(t)
          /\ written' = [written EXCEPT ![Key(t, Here(t))] = Wants(t)]
      BY <2>5 DEF Write
    <3>2. /\ pc'[t] \in {"idle", "check"}
          /\ \A u \in Tasks \ {t} : pc'[u] = pc[u]
      BY <1>0, <2>0, <3>1, FollowingKeepsPlaces
    <3>3. \A u \in Tasks \ {t} : pc[u] \notin {"truncate", "write"}
      BY <3>1 DEF Locking
    <3>4. DOMAIN written = Keys
      BY <1>0 DEF PluginTypeOK
    <3>5. RecordsSurvive'
      BY <3>1, <3>4 DEF RecordsSurvive, Copied
    <3> QED
      BY <3>1, <3>2, <3>3, <3>5 DEF Copied, Locking
  <2>6. CASE WriteFails(t)
    <3>1. /\ pc[t] = "write" /\ Following(t) /\ written' = [k \in Keys |-> None]
      BY <2>6 DEF WriteFails
    <3>2. /\ pc'[t] \in {"idle", "check"}
          /\ \A u \in Tasks \ {t} : pc'[u] = pc[u]
      BY <1>0, <2>0, <3>1, FollowingKeepsPlaces
    <3>3. \A u \in Tasks \ {t} : pc[u] \notin {"truncate", "write"}
      BY <3>1 DEF Locking
    <3> QED
      BY <3>1, <3>2, <3>3 DEF RecordsSurvive, Copied, Locking
  <2> QED
    BY <1>7, <2>1, <2>2, <2>3, <2>4, <2>5, <2>6 DEF Step
<1> QED
  BY <1>2, <1>3, <1>4, <1>5, <1>6, <1>7 DEF PluginNext

LEMMA RecordsHold == PluginSpec => [](Places /\ Records)
<1>1. PluginInit => Records
  BY DEF PluginInit, Records, RecordsSurvive, Copied, Locking
<1> QED
  BY <1>1, PluginInitPlaces, NextPlaces, NextRecords, PTL DEF PluginSpec

\* Every variable of the plugin installation keeps its type.
THEOREM PluginTypeCorrect == PluginSpec => []PluginTypeOK
<1>1. Places => PluginTypeOK
  BY DEF Places
<1> QED
  BY <1>1, RecordsHold, PTL

(***************************************************************************)
(* Whatever either task writes, a version once recorded stays recorded     *)
(* unless a write was cut short.                                           *)
(***************************************************************************)
THEOREM RecordsSurviveHolds == PluginSpec => []RecordsSurvive
<1>1. Records => RecordsSurvive
  BY DEF Records
<1> QED
  BY <1>1, RecordsHold, PTL

LEMMA VouchedIs ==
  ASSUME NEW t \in Tasks, NEW p \in Vouched(t)
  PROVE  p \in Range(List(t)) /\ p \in Packages /\ Key(t, p) \in Keys
BY Lists DEF Vouched, Tasks, Served, Key, Keys

LEMMA CapIsVersion ==
  ASSUME Places, NEW t \in Tasks, NEW p \in Vouched(t)
  PROVE  Cap(t, p) \in Versions /\ Versions \subseteq Nat /\ None \in Nat
<1>1. pc[t] # "idle" => version[t][p] \in Versions
  BY VouchedIs DEF Places, Placed
<1> QED
  BY <1>1, VouchedIs DEF Cap, Places, PluginTypeOK, Versions, None

\* No package is on both lists, and no key of one list is one of the other.
LEMMA Apart ==
  ASSUME IdsApart, NEW t \in Tasks, NEW u \in Tasks, NEW p \in Range(List(t)),
         NEW q \in Range(List(u))
  PROVE  /\ p = q => u = t
         /\ Key(u, q) = Key(t, p) => u = t
         /\ p \in Vouched(t) /\ Key(u, q) = Key(t, p) => q = p
<1>1. /\ t = "plugins" => p \in PluginIds
      /\ t = "sdks" => p \in SdkIds
      /\ u = "plugins" => q \in PluginIds
      /\ u = "sdks" => q \in SdkIds
  BY Lists DEF Served
<1>2. p = q => u = t
  BY <1>1 DEF IdsApart, Tasks
<1>3. Key(u, q) = Key(t, p) => u = t
  BY <1>1 DEF IdsApart, Tasks, Key
<1> QED
  BY <1>2, <1>3 DEF Vouched

LEMMA FollowingIsOfTasks ==
  ASSUME Places, NEW t \in Tasks, pc[t] # "idle", Following(t)
  PROVE  /\ pc'[t] \in {"idle", "check"}
         /\ \A u \in Tasks \ {t} : /\ pc'[u] = pc[u] /\ version'[u] = version[u]
                                  /\ Here(u)' = Here(u) /\ todo'[u] = todo[u]
         /\ \A u \in Tasks : version'[u] = version[u] \/ (version'[u] = Unlisted /\ pc'[u] = "idle")
BY FollowingKeepsPlaces DEF Places

\* Where a step of a task leads it, and with which versions.
LEMMA StepOfTask ==
  ASSUME Places, NEW t \in Tasks, Step(t)
  PROVE  /\ offer' = offer /\ pc[t] # "idle"
         /\ \A u \in Tasks \ {t} : /\ pc'[u] = pc[u] /\ version'[u] = version[u]
                                  /\ Here(u)' = Here(u) /\ todo'[u] = todo[u]
         /\ \A u \in Tasks : version'[u] = version[u] \/ (version'[u] = Unlisted /\ pc'[u] = "idle")
         /\ pc'[t] \in {"extract", "lock", "truncate", "write"} =>
               Here(t)' = Here(t) /\ version'[t] = version[t]
<1>0. pc[t] # "idle" /\ offer' = offer
  BY DEF Step, Skip, Request, Fetch, FetchFails, Open, Fill, ExtractFails, Verify,
         VerifyFails, Lock, Truncate, Write, WriteFails
<1>1. CASE Skip(t) \/ FetchFails(t) \/ ExtractFails(t) \/ VerifyFails(t) \/ Write(t) \/ WriteFails(t)
  <2>1. Following(t)
    BY <1>1 DEF Skip, FetchFails, ExtractFails, VerifyFails, Write, WriteFails
  <2> QED
    BY <1>0, <2>1, FollowingIsOfTasks
<1>2. CASE Request(t) \/ Fetch(t) \/ (\E f \in Files : Open(t, f)) \/ Fill(t) \/ Verify(t)
           \/ Lock(t) \/ Truncate(t)
  <2>1. /\ UNCHANGED <<at, version>>
        /\ \A u \in Tasks \ {t} : pc'[u] = pc[u] /\ todo'[u] = todo[u]
    <3> USE DEF Go, Places, PluginTypeOK
    <3>1. CASE Request(t)
      BY <3>1 DEF Request
    <3>2. CASE Fetch(t)
      BY <3>2 DEF Fetch
    <3>3. CASE \E f \in Files : Open(t, f)
      BY <3>3 DEF Open
    <3>4. CASE Fill(t)
      BY <3>4 DEF Fill
    <3>5. CASE Verify(t)
      BY <3>5 DEF Verify
    <3>6. CASE Lock(t)
      BY <3>6 DEF Lock
    <3>7. CASE Truncate(t)
      BY <3>7 DEF Truncate
    <3> QED
      BY <1>2, <3>1, <3>2, <3>3, <3>4, <3>5, <3>6, <3>7
  <2> QED
    BY <1>0, <2>1 DEF Here
<1> QED
  BY <1>1, <1>2 DEF Step

LEMMA CapGrows ==
  ASSUME Places, \A t \in Tasks, p \in Packages : version[t][p] <= offer[p], [PluginNext]_pluginVars
  PROVE  /\ \A t \in Tasks, p \in Packages : (version[t][p] <= offer[p])'
         /\ \A t \in Tasks : \A p \in Vouched(t) : Cap(t, p) <= Cap(t, p)'
<1> DEFINE Goal == /\ \A u \in Tasks, p \in Packages : (version[u][p] <= offer[p])'
                   /\ \A u \in Tasks : \A p \in Vouched(u) : Cap(u, p) <= Cap(u, p)'
<1> SUFFICES Goal
  OBVIOUS
<1>0. Places' /\ \A t \in Tasks, p \in Packages : version[t][p] \in Nat /\ offer[p] \in Nat
  BY NextPlaces DEF Places, PluginTypeOK, Recorded, Versions, None
<1>a. ASSUME NEW u \in Tasks, NEW p \in Vouched(u)
      PROVE  p \in Packages /\ Cap(u, p) \in Nat /\ Cap(u, p)' \in Nat
  <2>1. pc'[u] # "idle" => version'[u][p] \in Versions
    BY <1>0, VouchedIs DEF Places, Placed
  <2>2. offer'[p] \in Versions
    BY <1>0, VouchedIs DEF Places, PluginTypeOK
  <2>3. Cap(u, p)' \in Versions
    BY <2>1, <2>2 DEF Cap
  <2> QED
    BY <2>3, CapIsVersion, VouchedIs
<1>b. \A p \in Packages : Unlisted[p] = 0
  BY DEF Unlisted, None
<1>1. ASSUME NEW t \in Tasks, Start(t) PROVE Goal
  <2>1. /\ offer' = offer /\ pc[t] = "idle"
        /\ \A u \in Tasks \ {t} : pc'[u] = pc[u] /\ version'[u] = version[u]
        /\ \/ pc' = pc /\ version' = version
           \/ pc'[t] = "check" /\ \A p \in Packages :
                 version'[t][p] = IF p \in Range(List(t)) THEN offer[p] ELSE None
    BY <1>1 DEF Start, Go, Places, PluginTypeOK
  <2>2. \A u \in Tasks, p \in Packages : (version[u][p] <= offer[p])'
    BY <1>0, <2>1 DEF None
  <2>3. ASSUME NEW u \in Tasks, NEW p \in Vouched(u) PROVE Cap(u, p)' = Cap(u, p)
    <3>1. p \in Packages /\ p \in Range(List(u))
      BY VouchedIs
    <3>2. CASE pc' = pc /\ version' = version
      BY <2>1, <3>2 DEF Cap
    <3>3. CASE u = t /\ pc'[t] = "check" /\ version'[t][p] = offer[p]
      BY <2>1, <3>3 DEF Cap
    <3>4. CASE u # t
      BY <2>1, <3>4 DEF Cap
    <3> QED
      BY <2>1, <3>1, <3>2, <3>3, <3>4
  <2>4. ASSUME NEW u \in Tasks, NEW p \in Vouched(u) PROVE Cap(u, p) <= Cap(u, p)'
    BY <1>a, <2>3
  <2> QED
    BY <2>2, <2>4
<1>2. ASSUME NEW q \in Packages, Publish(q) PROVE Goal
  <2>1. /\ pc' = pc /\ version' = version /\ offer' = [offer EXCEPT ![q] = @ + 1]
    BY <1>2 DEF Publish
  <2>2. \A p \in Packages : offer[p] <= offer'[p]
    <3>1. \A p \in Packages : offer'[p] = IF p = q THEN offer[p] + 1 ELSE offer[p]
      BY <2>1 DEF Places, PluginTypeOK
    <3>2. \A p \in Packages : offer[p] \in Nat
      BY <1>0 DEF Tasks
    <3> QED
      BY <3>1, <3>2
  <2>3. \A p \in Packages : offer'[p] \in Nat
    BY <1>0 DEF Places, PluginTypeOK, Versions
  <2>4. ASSUME NEW u \in Tasks, NEW p \in Vouched(u) PROVE Cap(u, p) <= Cap(u, p)'
    BY <1>0, <1>a, <2>1, <2>2, <2>3 DEF Cap
  <2>5. \A u \in Tasks, p \in Packages : (version[u][p] <= offer[p])'
    BY <1>0, <2>1, <2>2, <2>3
  <2> QED
    BY <2>4, <2>5
<1>3. ASSUME UNCHANGED <<pc, version, offer>> PROVE Goal
  <2>1. ASSUME NEW u \in Tasks, NEW p \in Vouched(u) PROVE Cap(u, p) <= Cap(u, p)'
    BY <1>3, <1>a DEF Cap
  <2> QED
    BY <1>3, <2>1
<1>4. CASE Crash
  <2>1. offer' = offer /\ (\A u \in Tasks : pc'[u] = "idle" /\ version'[u] = Unlisted)
    BY <1>4 DEF Crash
  <2>2. ASSUME NEW u \in Tasks, NEW p \in Vouched(u) PROVE Cap(u, p) <= Cap(u, p)'
    BY <1>0, <1>a, <2>1 DEF Cap
  <2> QED
    BY <1>0, <1>b, <2>1, <2>2
<1>5. ASSUME NEW t \in Tasks, Step(t) PROVE Goal
  <2>1. /\ offer' = offer /\ pc[t] # "idle"
        /\ \A u \in Tasks \ {t} : pc'[u] = pc[u]
        /\ \A u \in Tasks : version'[u] = version[u] \/ (version'[u] = Unlisted /\ pc'[u] = "idle")
    BY <1>5, StepOfTask
  <2>2. \A u \in Tasks, p \in Packages : (version[u][p] <= offer[p])'
    BY <1>0, <1>b, <2>1
  <2>3. ASSUME NEW u \in Tasks, NEW p \in Vouched(u) PROVE Cap(u, p) <= Cap(u, p)'
    BY <1>0, <1>a, <2>1 DEF Cap
  <2> QED
    BY <2>2, <2>3
<1>6. \/ Crash \/ UNCHANGED <<pc, version, offer>>
      \/ \E t \in Tasks : Start(t) \/ Step(t) \/ \E q \in Packages : Publish(q)
  BY DEF PluginNext, Damage, pluginVars, Tasks
<1> QED
  BY <1>1, <1>2, <1>3, <1>4, <1>5, <1>6

\* What a step does to a file of a package.
LEMMA FileChanges ==
  ASSUME IdsApart, Places, NEW t \in Tasks, NEW p \in Vouched(t), NEW f \in FilesOf(p),
         [PluginNext]_pluginVars
  PROVE  /\ \/ disk'[f] \in {disk[f], Gone, Part}
            \/ disk'[f] = Rot /\ (f \in damaged' \/ p \in Unhashed)
            \/ disk'[f] = Cap(t, p) /\ pc[t] = "extract" /\ Here(t) = p
         /\ (f \in damaged /\ disk'[f] = disk[f]) => f \in damaged' \/ disk'[f] = Part
<1> DEFINE Goal == /\ \/ disk'[f] \in {disk[f], Gone, Part}
                      \/ disk'[f] = Rot /\ (f \in damaged' \/ p \in Unhashed)
                      \/ disk'[f] = Cap(t, p) /\ pc[t] = "extract" /\ Here(t) = p
                   /\ (f \in damaged /\ disk'[f] = disk[f]) => f \in damaged' \/ disk'[f] = Part
<1> SUFFICES Goal
  OBVIOUS
<1>0. f \in Files /\ Owner[f] = p /\ p \in Range(List(t))
  BY VouchedIs DEF FilesOf
<1>1. CASE disk' = disk /\ damaged' = damaged
  BY <1>1
<1>2. ASSUME NEW g \in Files, NEW c \in {Gone, Part, Rot}, Damage(g, c) PROVE Goal
  <2>1. /\ disk'[f] = IF f = g THEN c ELSE disk[f]
        /\ damaged' = damaged \cup {g}
    BY <1>0, <1>2 DEF Damage, Places, PluginTypeOK
  <2> QED
    BY <2>1
<1>3. ASSUME NEW u \in Tasks, NEW g \in Files, Open(u, g) PROVE Goal
  <2>1. /\ disk'[f] = IF f = g THEN Part ELSE disk[f]
        /\ damaged' = damaged \ {g}
    BY <1>0, <1>3 DEF Open, Places, PluginTypeOK
  <2> QED
    BY <2>1
<1>4. ASSUME NEW u \in Tasks, Fill(u) PROVE Goal
  <2>1. /\ damaged' = damaged /\ pc[u] = "extract" /\ open[u] # Gone
        /\ f # open[u] => disk'[f] = disk[f]
        /\ f = open[u] => disk'[f] = IF disk[f] = Gone THEN Gone
                                     ELSE IF archive[u] = Bad THEN Rot ELSE Wants(u)
    BY <1>0, <1>4 DEF Fill, Places, PluginTypeOK
  <2>2. open[u] \in FilesOf(Here(u)) /\ (archive[u] = Wants(u) \/ (Here(u) \in Unhashed /\ archive[u] = Bad))
    BY <2>1 DEF Places, Extracting
  <2>3. CASE f = open[u]
    <3>1. Here(u) = p
      BY <1>0, <2>2, <2>3 DEF FilesOf
    <3>2. Here(u) \in Range(List(u))
      BY <2>1, HereIsServed DEF Places
    <3>3. u = t
      BY <1>0, <3>1, <3>2, Apart
    <3>4. pc[t] = "extract" /\ Here(t) = p /\ Wants(u) = Cap(t, p)
      BY <2>1, <3>1, <3>3 DEF Cap, Wants
    <3>5. CASE archive[u] = Bad /\ archive[u] # Wants(u)
      BY <2>1, <2>2, <2>3, <3>1, <3>4, <3>5
    <3>6. CASE archive[u] = Wants(u)
      <4>1. Wants(u) # Bad
        BY <2>1, HereIsServed, PluginInstallAssumption
           DEF Places, PluginInstallAssumption, Versions
      <4> QED
        BY <2>1, <2>3, <3>4, <3>6, <4>1
    <3> QED
      BY <2>2, <3>5, <3>6
  <2> QED
    BY <2>1, <2>3
<1>5. ASSUME NEW u \in Tasks, Verify(u) \/ VerifyFails(u) PROVE Goal
  <2>1. damaged' = damaged /\ disk'[f] \in {disk[f], Gone}
    BY <1>0, <1>5 DEF Verify, VerifyFails
  <2> QED
    BY <2>1
<1>6. ASSUME NEW u \in Tasks, Start(u) \/ (Step(u) /\ ~Fill(u) /\ ~Verify(u) /\ ~VerifyFails(u)
                                          /\ ~\E g \in Files : Open(u, g))
      PROVE  disk' = disk /\ damaged' = damaged
  BY <1>6 DEF Start, Step, Skip, Request, Fetch, FetchFails, ExtractFails, Lock, Truncate, Write,
              WriteFails
<1>7. CASE Crash \/ (\E q \in Packages : Publish(q)) \/ UNCHANGED pluginVars
  BY <1>1, <1>7 DEF Crash, Publish, pluginVars
<1> QED
  <2>1. CASE \E u \in Tasks : Start(u) \/ Step(u)
    BY <1>1, <1>3, <1>4, <1>5, <1>6, <2>1
  <2> QED
    BY <1>2, <1>7, <2>1 DEF PluginNext

\* What a step does to the versions recorded of a package, or about to be.
LEMMA RecordChanges ==
  ASSUME IdsApart, Places, NEW t \in Tasks, NEW p \in Vouched(t), [PluginNext]_pluginVars,
         NEW v \in Told(t, p)'
  PROVE  \/ v \in Told(t, p) \cup {None}
         \/ v = Cap(t, p) /\ Here(t) = p /\ pc[t] = "lock"
<1> DEFINE k == Key(t, p)
<1>0. k \in Keys /\ p \in Range(List(t)) /\ Told(t, p)' = {record'[k]} \cup {copy'[u][k] : u \in Tasks}
  BY VouchedIs DEF Told, Key
<1>1. CASE record' = record /\ copy' = copy
  BY <1>0, <1>1 DEF Told
<1>2. CASE record' = record /\ \A u \in Tasks : copy'[u] \in {copy[u], [j \in Keys |-> None]}
  BY <1>0, <1>2 DEF Told
<1>3. ASSUME NEW u \in Tasks, Lock(u)
      PROVE  \/ v \in Told(t, p) \cup {None}
             \/ v = Cap(t, p) /\ Here(t) = p /\ pc[t] = "lock"
  <2>1. /\ record' = record /\ pc[u] = "lock"
        /\ copy'[u] = [Read EXCEPT ![Key(u, Here(u))] = Wants(u)]
        /\ \A w \in Tasks \ {u} : copy'[w] = copy[w]
    BY <1>3 DEF Lock, Places, PluginTypeOK
  <2>2. Read[k] \in {record[k], None} /\ k \in DOMAIN Read
    BY <1>0 DEF Read, Places, PluginTypeOK
  <2>3. copy'[u][k] = IF k = Key(u, Here(u)) THEN Wants(u) ELSE Read[k]
    BY <2>1, <2>2
  <2>4. k = Key(u, Here(u)) => u = t /\ Here(t) = p
    <3>1. Here(u) \in Range(List(u))
      BY <2>1, HereIsServed DEF Places
    <3> QED
      BY <1>0, <3>1, Apart
  <2>5. u = t /\ Here(t) = p => Wants(u) = Cap(t, p)
    BY <2>1 DEF Wants, Cap
  <2> QED
    BY <1>0, <2>1, <2>2, <2>3, <2>4, <2>5 DEF Told
<1>4. ASSUME NEW u \in Tasks, Write(u) PROVE v \in Told(t, p) \cup {None}
  <2>1. /\ record' = copy[u] /\ copy'[u] = [j \in Keys |-> None]
        /\ \A w \in Tasks \ {u} : copy'[w] = copy[w]
    BY <1>4 DEF Write, Places, PluginTypeOK
  <2> QED
    BY <1>0, <2>1 DEF Told
<1>5. ASSUME NEW u \in Tasks, WriteFails(u)
      PROVE  record' = record /\ \A w \in Tasks : copy'[w] \in {copy[w], [j \in Keys |-> None]}
  BY <1>5 DEF WriteFails, Places, PluginTypeOK
<1>6. CASE Crash
  BY <1>2, <1>6 DEF Crash
<1>7. ASSUME NEW u \in Tasks, Start(u) \/ (Step(u) /\ ~Lock(u) /\ ~Write(u) /\ ~WriteFails(u))
      PROVE  record' = record /\ copy' = copy
  BY <1>7 DEF Start, Step, Skip, Request, Fetch, FetchFails, Open, Fill, ExtractFails, Verify,
              VerifyFails, Truncate
<1>8. CASE \/ \E q \in Packages : Publish(q)
           \/ \E g \in Files, c \in {Gone, Part, Rot} : Damage(g, c)
           \/ UNCHANGED pluginVars
  BY <1>1, <1>8 DEF Publish, Damage, pluginVars
<1> QED
  <2>1. CASE \E u \in Tasks : Start(u) \/ Step(u)
    BY <1>1, <1>2, <1>3, <1>4, <1>5, <1>7, <2>1
  <2> QED
    BY <1>6, <1>8, <2>1 DEF PluginNext

LEMMA FitsStays ==
  ASSUME IdsApart, Places, NEW t \in Tasks, NEW p \in Vouched(t), NEW f \in FilesOf(p),
         [PluginNext]_pluginVars, NEW v \in Recorded, v <= Cap(t, p), Fits(p, f, v)
  PROVE  Fits(p, f, v)'
<1>0. Cap(t, p) \in Versions /\ Versions \subseteq Nat
  BY CapIsVersion
<1>r. Recorded \subseteq Nat
  BY <1>0 DEF Recorded, None
<1>v. v \in Nat
  BY <1>r
<1>1. Cap(t, p) \in Versions /\ Cap(t, p) \in Nat /\ v \in Nat
  BY <1>0, <1>v
<1>2. CASE disk'[f] = disk[f]
  BY <1>2, FileChanges DEF Fits
<1>3. CASE disk'[f] \in {Gone, Part}
  BY <1>3 DEF Fits
<1>4. CASE disk'[f] = Rot /\ (f \in damaged' \/ p \in Unhashed)
  BY <1>4 DEF Fits
<1>5. CASE disk'[f] = Cap(t, p)
  <2>1. CASE v = Cap(t, p)
    BY <1>5, <2>1 DEF Fits
  <2>2. CASE v # Cap(t, p)
    <3>1. v < Cap(t, p)
      BY <1>1, <2>2
    <3>2. disk'[f] \in Versions /\ disk'[f] > v
      BY <1>1, <1>5, <3>1
    <3> QED
      BY <3>2 DEF Fits
  <2> QED
    BY <2>1, <2>2
<1> QED
  BY <1>2, <1>3, <1>4, <1>5, FileChanges

LEMMA NextNewer ==
  ASSUME IdsApart, Places, NoneNewer, [PluginNext]_pluginVars PROVE NoneNewer'
<1>1. /\ \A t \in Tasks, p \in Packages : (version[t][p] <= offer[p])'
      /\ \A t \in Tasks : \A p \in Vouched(t) : Cap(t, p) <= Cap(t, p)'
  BY CapGrows DEF NoneNewer
<1>2. ASSUME NEW t \in Tasks, NEW p \in Vouched(t),
             NEW v \in (Told(t, p) \cup ({disk[f] : f \in FilesOf(p)} \cap Versions))'
      PROVE  v <= Cap(t, p)'
  <2>1. /\ Cap(t, p) \in Nat /\ 0 <= Cap(t, p) /\ Cap(t, p)' \in Nat
        /\ Cap(t, p) <= Cap(t, p)'
    <3>1. Places'
      BY NextPlaces
    <3>2. offer'[p] \in Versions
      BY <3>1, VouchedIs DEF Places, PluginTypeOK
    <3>3. pc'[t] # "idle" => version'[t][p] \in Versions
      BY <3>1, VouchedIs DEF Places, Placed
    <3>4. Cap(t, p)' \in Versions
      BY <3>2, <3>3 DEF Cap
    <3> QED
      BY <1>1, <3>4, CapIsVersion DEF Versions
  <2>2. ASSUME NEW w, w \in Recorded, w <= Cap(t, p) PROVE w <= Cap(t, p)'
    <3>1. w \in Nat
      BY <2>2 DEF Recorded, Versions, None
    <3> QED
      BY <2>1, <2>2, <3>1
  <2>3. CASE v \in Told(t, p)'
    <3>1. ASSUME v \in Told(t, p) PROVE v \in Recorded /\ v <= Cap(t, p)
      BY <3>1, VouchedIs DEF NoneNewer, Told, Places, PluginTypeOK
    <3>2. v \in Told(t, p) \cup {None} \/ v = Cap(t, p)
      BY <2>3, RecordChanges
    <3> QED
      BY <2>1, <2>2, <3>1, <3>2 DEF None
  <2>4. ASSUME NEW f \in FilesOf(p), v = disk'[f], v \in Versions PROVE v <= Cap(t, p)'
    <3>1. v = disk[f] \/ v = Cap(t, p)
      BY <2>4, FileChanges, PluginInstallAssumption DEF PluginInstallAssumption, Versions
    <3>2. v = disk[f] => v <= Cap(t, p)
      BY <2>4 DEF NoneNewer
    <3> QED
      BY <2>1, <2>2, <2>4, <3>1, <3>2 DEF Recorded
  <2> QED
    BY <2>3, <2>4 DEF FilesOf, Versions
<1> QED
  BY <1>1, <1>2 DEF NoneNewer, Vouched, List, Key

\* A file extracted fits, as long as the task is at its package.
LEMMA ExtractedStays ==
  ASSUME IdsApart, Places, NoneNewer, AllExtracted, [PluginNext]_pluginVars,
         NEW t \in Tasks, pc[t] # "idle", Here(t) \in Vouched(t), NEW f \in FilesOf(Here(t)),
         Done(t, f)
  PROVE  \A p, v : p = Here(t) /\ v = Wants(t) => Fits(p, f, v)'
<1> SUFFICES ASSUME NEW p, NEW v, p = Here(t), v = Wants(t) PROVE Fits(p, f, v)'
  OBVIOUS
<1>1. p \in Vouched(t) /\ f \in FilesOf(p) /\ v \in Versions
  BY HereIsServed DEF Places
<1>2. Fits(p, f, v)
  BY DEF AllExtracted
<1>3. v = Cap(t, p)
  BY DEF Cap, Wants
<1>4. v \in Recorded /\ v <= Cap(t, p)
  BY <1>1, <1>3 DEF Recorded, Versions
<1> QED
  BY <1>1, <1>2, <1>4, FitsStays

LEMMA NextExtracted ==
  ASSUME IdsApart, Places, NoneNewer, AllExtracted, [PluginNext]_pluginVars PROVE AllExtracted'
<1> SUFFICES ASSUME NEW t \in Tasks, NEW p \in Vouched(t), NEW f \in FilesOf(p), NEW v,
                    p = Here(t)', v = Wants(t)', Done(t, f)'
             PROVE  Fits(p, f, v)'
  BY DEF AllExtracted, Fits, Vouched, List, Key, FilesOf
<1>0. f \in Files /\ pc'[t] \in {"extract", "lock", "truncate", "write"}
  BY DEF Done, FilesOf
<1>1. ASSUME pc[t] # "idle", Done(t, f), Here(t)' = Here(t), version'[t] = version[t]
      PROVE  Fits(p, f, v)'
  <2>1. Here(t) \in Vouched(t) /\ f \in FilesOf(Here(t)) /\ Wants(t)' = Wants(t)
    BY <1>1 DEF Wants
  <2>2. \A q, w : q = Here(t) /\ w = Wants(t) => Fits(q, f, w)'
    BY <1>1, <2>1, ExtractedStays
  <2> QED
    BY <1>1, <2>1, <2>2
<1>2. ASSUME UNCHANGED <<pc, at, version, todo>> PROVE Fits(p, f, v)'
  <2>1. pc[t] # "idle" /\ Done(t, f) /\ Here(t)' = Here(t) /\ version'[t] = version[t]
    BY <1>0, <1>2 DEF Done, Here
  <2> QED
    BY <1>1, <2>1
<1>3. ASSUME NEW u \in Tasks, Start(u) PROVE Fits(p, f, v)'
  <2>1. /\ at' = at /\ todo' = todo
        /\ \/ pc' = pc /\ version' = version
           \/ pc'[u] = "check" /\ \A w \in Tasks \ {u} : pc'[w] = pc[w] /\ version'[w] = version[w]
    BY <1>3 DEF Start, Go, Places, PluginTypeOK
  <2>2. pc[t] = pc'[t] /\ version'[t] = version[t]
    BY <1>0, <2>1
  <2>3. pc[t] # "idle" /\ Done(t, f) /\ Here(t)' = Here(t)
    BY <1>0, <2>1, <2>2 DEF Done, Here
  <2> QED
    BY <1>1, <2>2, <2>3
<1>4. ASSUME NEW u \in Tasks \ {t}, Step(u) PROVE Fits(p, f, v)'
  <2>1. pc'[t] = pc[t] /\ version'[t] = version[t] /\ Here(t)' = Here(t) /\ todo'[t] = todo[t]
    BY <1>4, StepOfTask
  <2>2. pc[t] # "idle" /\ Done(t, f)
    BY <1>0, <2>1 DEF Done
  <2> QED
    BY <1>1, <2>1, <2>2
<1>5. ASSUME Step(t) PROVE Fits(p, f, v)'
  <2>1. /\ pc[t] # "idle" /\ Here(t)' = Here(t) /\ version'[t] = version[t]
        /\ Wants(t)' = Wants(t) /\ f \in FilesOf(Here(t))
    BY <1>0, <1>5, StepOfTask DEF Wants
  <2>2. Done(t, f) \/ (Fill(t) /\ f = open[t])
    <3>1. CASE Request(t) \/ Fetch(t)
      <4>1. pc'[t] = "fetch" \/ (pc'[t] = "extract" /\ todo'[t] = FilesOf(Here(t)))
        BY <3>1 DEF Request, Fetch, Go, Places, PluginTypeOK
      <4> QED
        BY <2>1, <4>1 DEF Done
    <3>2. CASE Skip(t) \/ FetchFails(t) \/ ExtractFails(t) \/ VerifyFails(t) \/ Write(t) \/ WriteFails(t)
      <4>1. Following(t)
        BY <3>2 DEF Skip, FetchFails, ExtractFails, VerifyFails, Write, WriteFails
      <4> QED
        BY <1>0, <2>1, <4>1, FollowingIsOfTasks
    <3>3. CASE \E g \in Files : Open(t, g)
      BY <3>3 DEF Open, Done
    <3>4. CASE Fill(t)
      BY <3>4 DEF Fill, Done, Places, PluginTypeOK
    <3>5. CASE Verify(t)
      BY <3>5 DEF Verify, Done
    <3>6. CASE Lock(t) \/ Truncate(t)
      BY <3>6 DEF Lock, Truncate, Done
    <3> QED
      BY <1>5, <3>1, <3>2, <3>3, <3>4, <3>5, <3>6 DEF Step
  <2>3. CASE Done(t, f)
    BY <1>1, <2>1, <2>3
  <2>4. CASE Fill(t) /\ f = open[t]
    <3>1. /\ pc[t] = "extract" /\ open[t] # Gone
          /\ disk'[f] = IF disk[f] = Gone THEN Gone ELSE IF archive[t] = Bad THEN Rot ELSE Wants(t)
      BY <1>0, <2>4 DEF Fill, Places, PluginTypeOK
    <3>2. archive[t] = Wants(t) \/ (Here(t) \in Unhashed /\ archive[t] = Bad)
      BY <3>1 DEF Places, Extracting
    <3>3. Wants(t) # Bad
      BY <2>1, HereIsServed, PluginInstallAssumption
         DEF Places, PluginInstallAssumption, Versions
    <3>4. disk'[f] \in {Wants(t), Gone} \/ (disk'[f] = Rot /\ Here(t) \in Unhashed)
      BY <3>1, <3>2, <3>3
    <3> QED
      BY <2>1, <3>4 DEF Fits
  <2> QED
    BY <2>2, <2>3, <2>4
<1>6. CASE Crash
  BY <1>0, <1>6 DEF Crash
<1>7. \/ Crash \/ UNCHANGED <<pc, at, version, todo>> \/ \E u \in Tasks : Start(u) \/ Step(u)
  BY DEF PluginNext, Publish, Damage, pluginVars
<1> QED
  BY <1>2, <1>3, <1>4, <1>5, <1>6, <1>7

LEMMA NextRecordsFit ==
  ASSUME IdsApart, Places, NoneNewer, AllExtracted, RecordsFit, [PluginNext]_pluginVars
  PROVE  RecordsFit'
<1> SUFFICES ASSUME NEW t \in Tasks, NEW p \in Vouched(t), NEW f \in FilesOf(p),
                    NEW v \in Told(t, p)', v # None
             PROVE  Fits(p, f, v)'
  BY DEF RecordsFit, Vouched, FilesOf, List, Key, None
<1>0. Cap(t, p) \in Versions /\ Versions \subseteq Nat
  BY CapIsVersion
<1>1. v \in Recorded /\ v <= Cap(t, p) /\ Fits(p, f, v)
  <2>1. CASE v \in Told(t, p)
    <3>1. v \in Recorded
      BY <2>1, VouchedIs DEF Told, Places, PluginTypeOK
    <3> QED
      BY <2>1, <3>1 DEF RecordsFit, NoneNewer
  <2>2. CASE v = Cap(t, p) /\ Here(t) = p /\ pc[t] = "lock"
    <3>1. Wants(t) = Cap(t, p) /\ Done(t, f)
      BY <2>2 DEF Cap, Wants, Done
    <3>2. Fits(p, f, v)
      BY <2>2, <3>1 DEF AllExtracted
    <3>3. v \in Recorded /\ v \in Nat
      BY <1>0, <2>2 DEF Recorded
    <3>4. v <= Cap(t, p)
      BY <2>2, <3>3
    <3> QED
      BY <3>2, <3>3, <3>4
  <2> QED
    BY <2>1, <2>2, RecordChanges
<1> QED
  BY <1>0, <1>1, FitsStays

Trusted == NoneNewer /\ AllExtracted /\ RecordsFit

LEMMA TrustedHolds == ASSUME IdsApart PROVE PluginSpec => [](Places /\ Trusted)
<1>1. PluginInit => Trusted
  <2> SUFFICES ASSUME PluginInit PROVE Trusted
    OBVIOUS
  <2>1. Places
    BY PluginInitPlaces
  <2>2. \A t \in Tasks, p \in Packages : version[t][p] = 0 /\ offer[p] = 1
    BY DEF PluginInit, Unlisted, None
  <2>3. ASSUME NEW t \in Tasks, NEW p \in Vouched(t)
        PROVE  /\ Told(t, p) = {None} /\ Cap(t, p) = 1
               /\ {disk[f] : f \in FilesOf(p)} \cap Versions = {}
    <3>1. Key(t, p) \in Keys /\ p \in Packages
      BY VouchedIs
    <3>2. \A f \in FilesOf(p) : disk[f] = Gone /\ Gone \notin Versions
      BY PluginInstallAssumption DEF PluginInit, FilesOf, PluginInstallAssumption, Versions
    <3> QED
      BY <3>1, <3>2 DEF PluginInit, Told, Cap
  <2>4. NoneNewer
    BY <2>2, <2>3 DEF NoneNewer, None
  <2>5. AllExtracted /\ RecordsFit
    BY <2>3 DEF PluginInit, AllExtracted, RecordsFit, Done
  <2> QED
    BY <2>4, <2>5 DEF Trusted
<1>2. Places /\ Trusted /\ [PluginNext]_pluginVars => Trusted'
  BY NextNewer, NextExtracted, NextRecordsFit DEF Trusted
<1> QED
  BY <1>1, <1>2, PluginInitPlaces, NextPlaces, PTL DEF PluginSpec

(***************************************************************************)
(* A package that is skipped is whole, but for what lengths cannot tell.   *)
(* The hypothesis says that no plugin has the id of an SDK, nor one that   *)
(* makes its key that of the SDKs.                                         *)
(***************************************************************************)
THEOREM SkippedIsWholeHolds == ASSUME IdsApart PROVE PluginSpec => SkippedIsWhole
<1> DEFINE Whole(t, f) ==
        \/ disk[f] = Wants(t)
        \/ /\ t = "plugins" \/ f \notin Digested
           /\ \/ disk[f] = Part /\ f \notin Sized
              \/ disk[f] = Rot /\ (f \in damaged \/ Here(t) \in Unhashed)
              \/ t = "sdks" /\ Range(List(t)) # {Here(t)}
<1>1. ASSUME Places, Trusted, NEW t \in Tasks, Skip(t), NEW f \in EntriesOf(Here(t))
      PROVE  Whole(t, f)
  <2> DEFINE p == Here(t)
  <2>1. pc[t] = "check" /\ Read[Key(t, p)] = Wants(t)
    BY <1>1 DEF Skip, Current
  <2>2. p \in Range(List(t)) /\ Wants(t) \in Versions
    BY <1>1, <2>1, HereIsServed DEF Places
  <2>3. IF t = "sdks" THEN Validates(f, Wants(t)) ELSE RightLength(f)
    BY <1>1 DEF Skip, Current
  <2>4. RightLength(f) /\ (t = "sdks" /\ f \in Digested => disk[f] = Wants(t))
    BY <2>3 DEF Validates
  <2>5. CASE p \in Vouched(t)
    <3>1. Key(t, p) \in Keys /\ Versions \subseteq Nat /\ Wants(t) # None
      BY <1>1, <2>2, <2>5, VouchedIs, CapIsVersion DEF Versions, None
    <3>2. record[Key(t, p)] = Wants(t)
      BY <2>1, <3>1 DEF Read
    <3>3. f \in FilesOf(p)
      BY <1>1 DEF EntriesOf
    <3>4. Fits(p, f, Wants(t))
      BY <1>1, <2>5, <3>1, <3>2, <3>3 DEF Trusted, RecordsFit, Told
    <3>5. disk[f] # Gone /\ (f \in Sized => disk[f] # Part)
      BY <2>4 DEF RightLength
    <3>6. Wants(t) = Cap(t, p)
      BY <2>1 DEF Cap, Wants
    <3>7. disk[f] \in Versions => disk[f] <= Cap(t, p)
      BY <1>1, <2>5, <3>3 DEF Trusted, NoneNewer
    <3>8. ASSUME disk[f] \in Versions, disk[f] > Wants(t) PROVE FALSE
      <4>1. disk[f] \in Nat /\ Wants(t) \in Nat /\ disk[f] <= Wants(t)
        BY <2>2, <3>1, <3>6, <3>7, <3>8
      <4> QED
        BY <3>8, <4>1
    <3>9. \/ disk[f] = Wants(t) \/ (disk[f] = Part /\ f \notin Sized)
          \/ disk[f] = Rot /\ (f \in damaged \/ p \in Unhashed)
      BY <3>4, <3>5, <3>8 DEF Fits
    <3> QED
      BY <2>4, <3>9 DEF Tasks
  <2>6. CASE p \notin Vouched(t)
    <3>1. t = "sdks" /\ Range(List(t)) # {p}
      BY <2>2, <2>6 DEF Vouched, Key, Tasks
    <3> QED
      BY <2>4, <3>1
  <2> QED
    BY <2>5, <2>6
<1>2. Places /\ Trusted => (\A t \in Tasks : Skip(t) =>
          \A f \in EntriesOf(Here(t)) :
              \/ disk[f] = Wants(t)
              \/ /\ t = "plugins" \/ f \notin Digested
                 /\ \/ disk[f] = Part /\ f \notin Sized
                    \/ disk[f] = Rot /\ (f \in damaged \/ Here(t) \in Unhashed)
                    \/ t = "sdks" /\ Range(List(t)) # {Here(t)})
  BY <1>1
<1> QED
  BY <1>2, TrustedHolds, PTL DEF SkippedIsWhole
=============================================================================
