------------------------ MODULE InstallPipeline_proofs ------------------------
(***************************************************************************)
(* Theorems about InstallPipeline, for any manifest of finitely many files *)
(* and slots, any number of workers and any failures: first that an Ok can *)
(* be trusted, then what a cancellation leaves and the contract, then the  *)
(* reference counts of the chunks.                                         *)
(***************************************************************************)
EXTENDS InstallPipeline, FiniteSetTheorems, TLAPS

(***************************************************************************)
(* What is counted is finite.                                              *)
(***************************************************************************)
LEMMA CountType ==
  /\ \A S \in SUBSET Files : IsFiniteSet(S) /\ Cardinality(S) \in Nat
  /\ \A S \in SUBSET Slots : IsFiniteSet(S) /\ Cardinality(S) \in Nat
  BY ManifestAssumption, FS_Subset, FS_CardinalityType

LEMMA ManifestType ==
  /\ \A s \in Slots : FileOf[s] \in Files /\ NameOf[s] \in Chunks
  /\ \A f : SlotsOf(f) \subseteq Slots
  /\ Downloads \subseteq Slots
  /\ \A c : Uses(c) \subseteq Slots
  /\ Items = {NameOf[s] : s \in Downloads} /\ Items \subseteq Chunks
  /\ ReadyFiles \subseteq Files /\ EagerFiles \subseteq Files
  /\ EagerItems \subseteq Items
<1>1. \A s \in Slots : FileOf[s] \in Files /\ NameOf[s] \in Chunks
  BY ManifestAssumption
<1>2. Downloads \subseteq Slots
  BY DEF Downloads
<1> QED
  BY <1>1, <1>2 DEF SlotsOf, Uses, Items, ReadyFiles, EagerFiles, EagerItems
-----------------------------------------------------------------------------
(***************************************************************************)
(* A worker has an item exactly from Take to the end of the item, and asks *)
(* the gate only for it: without this a chunk "none" might be stored, so   *)
(* the types are not an invariant of their own.                            *)
(***************************************************************************)
Busy == {"asking", "fetch", "notify"}

WorkerItems ==
  /\ phase = "register" => \A w \in Workers : pc[w] = "unborn"
  /\ \A w \in Workers : gate[w] = "in" => pc[w] = "asking"
  /\ \A w \in Workers : pc[w] \in Busy => item[w] \in Items

TypeInv == TypeOK /\ WorkerItems

(***************************************************************************)
(* Every variable keeps its type.                                          *)
(***************************************************************************)
LEMMA InitType == Init => TypeInv
<1> SUFFICES ASSUME Init PROVE TypeInv
  OBVIOUS
<1>1. assembled \in Nat
  BY CountType, ManifestAssumption DEF Init
<1>2. stored \subseteq Chunks /\ flags \in [Files -> BOOLEAN]
  BY SessionAssumption DEF Init
<1>3. /\ target \in [Files -> {"stale", "new"}]
      /\ task \in [Files -> TaskSteps] /\ slot \in [Slots -> SlotStates]
      /\ pending \in [Files -> Int] /\ refs \in [Chunks -> Int]
  BY DEF Init, SlotStates, TaskSteps
<1>4. /\ pc \in [Workers -> {"unborn", "idle", "asking", "fetch", "notify", "done"}]
      /\ item \in [Workers -> Chunks \cup {None}]
  BY DEF Init
<1>5. PG!TypeOK
  BY DEF Init, PG!Init, PG!TypeOK
<1>6. WorkerItems
  BY DEF Init, PG!Init, WorkerItems, Busy
<1>7. /\ phase = "register" /\ result = "none" /\ ready \in BOOLEAN
      /\ cancelled \in BOOLEAN /\ first_error \in BOOLEAN
      /\ queue = {} /\ chan = {} /\ coord = "spin"
      /\ coord_err \in BOOLEAN /\ token \in BOOLEAN
  BY DEF Init
<1> QED
  BY <1>1, <1>2, <1>3, <1>4, <1>5, <1>6, <1>7 DEF TypeOK, TypeInv

LEMMA NextType == TypeInv /\ [Next]_vars => TypeInv'
<1> SUFFICES ASSUME TypeInv, [Next]_vars PROVE TypeInv'
  OBVIOUS
<1> USE DEF TypeInv, TypeOK, PG!TypeOK, WorkerItems, Busy, vars, handleVars, mainVars,
            workerVars, dataVars, doneVars, coordVars
<1>1. CASE UNCHANGED vars
  BY <1>1
<1>2. CASE Handle
  BY <1>2 DEF Handle, PG!Pause, PG!Resume, PG!Cancel
<1>3. CASE Main
  <2>1. CASE Register
    <3>1. pending' \in [Files -> Int] /\ refs' \in [Chunks -> Int]
      BY <2>1, CountType, ManifestType DEF Register
    <3>2. queue' \subseteq {NameOf[s] : s \in Downloads} /\ chan' \subseteq Files
      BY <2>1, ManifestType DEF Register
    <3>3. /\ pc' \in [Workers -> {"unborn", "idle", "asking", "fetch", "notify", "done"}]
          /\ \A w \in Workers : pc'[w] \notin Busy
      BY <2>1 DEF Register
    <3>4. slot' \in [Slots -> SlotStates] /\ ready' \in BOOLEAN
      BY <2>1 DEF Register, SetLocks, SlotStates
    <3> QED
      BY <2>1, <3>1, <3>2, <3>3, <3>4 DEF Register
  <2>2. CASE RegisterFails
    BY <2>2 DEF RegisterFails
  <2>3. CASE DownloadsEnd
    BY <2>3 DEF DownloadsEnd
  <2>4. CASE StopAssembly
    BY <2>4 DEF StopAssembly
  <2>5. CASE ReturnCancelled
    BY <2>5 DEF ReturnCancelled
  <2>6. CASE ReturnFirstError
    BY <2>6 DEF ReturnFirstError
  <2>7. CASE ReturnAssembled
    BY <2>7 DEF ReturnAssembled
  <2> QED
    BY <1>3, <2>1, <2>2, <2>3, <2>4, <2>5, <2>6, <2>7 DEF Main
<1>4. ASSUME NEW w \in Workers, SpawnWorker(w) PROVE TypeInv'
  BY <1>4 DEF SpawnWorker
<1>5. ASSUME NEW w \in Workers, Worker(w) PROVE TypeInv'
  <2>1. CASE Quit(w)
    BY <2>1 DEF Quit
  <2>2. CASE Take(w)
    BY <2>2, ManifestType DEF Take, PG!Ask
  <2>3. CASE Pass(w)
    BY <2>3 DEF Pass, PG!Pass
  <2>4. CASE Refuse(w)
    BY <2>4 DEF Refuse, PG!Refuse, NextItem
  <2>5. CASE FetchCancelled(w)
    BY <2>5 DEF FetchCancelled, NextItem
  <2>6. CASE FetchFails(w)
    BY <2>6 DEF FetchFails, NextItem
  <2>7. CASE Fetch(w)
    BY <2>7, ManifestType DEF Fetch
  <2>8. ASSUME NEW s \in Slots, Notify(w, s) PROVE TypeInv'
    <3>1. slot' \in [Slots -> SlotStates]
      BY <2>8 DEF Notify, SlotStates
    <3>2. pending' \in [Files -> Int]
      BY <2>8, ManifestType DEF Notify
    <3>3. flags' = flags \/ flags' = [flags EXCEPT ![FileOf[s]] = TRUE]
      BY <2>8 DEF Notify
    <3>4. flags' \in [Files -> BOOLEAN]
      BY <3>3
    <3>5. assembled' \in Nat
      <4>1. assembled' = assembled \/ assembled' = assembled + 1
        BY <2>8 DEF Notify
      <4> QED
        BY <4>1
    <3>6. chan' \subseteq Files
      <4>1. chan' = chan \/ chan' = chan \cup {FileOf[s]}
        BY <2>8 DEF Notify
      <4> QED
        BY <4>1, ManifestType
    <3> QED
      BY <2>8, <3>1, <3>2, <3>4, <3>5, <3>6 DEF Notify
  <2>9. CASE EndItem(w)
    BY <2>9 DEF EndItem, NextItem
  <2> QED
    BY <1>5, <2>1, <2>2, <2>3, <2>4, <2>5, <2>6, <2>7, <2>8, <2>9 DEF Worker
<1>6. ASSUME NEW f \in Files, Task(f) PROVE TypeInv'
  <2>1. CASE ClaimSkip(f)
    BY <2>1 DEF ClaimSkip, StepTask, SlotStates, TaskSteps
  <2>2. CASE Claim(f)
    BY <2>2 DEF Claim, StepTask, TaskSteps
  <2>3. ASSUME NEW s \in SlotsOf(f), ReadChunk(s) PROVE TypeInv'
    <3>1. slot' \in [Slots -> SlotStates]
      BY <2>3 DEF ReadChunk, SlotStates
    <3> QED
      BY <2>3, <3>1 DEF ReadChunk
  <2>4. ASSUME NEW s \in SlotsOf(f), Release(s) PROVE TypeInv'
    <3>1. slot' \in [Slots -> SlotStates]
      BY <2>4 DEF Release, SlotStates
    <3>2. refs' \in [Chunks -> Int]
      <4> DEFINE c == NameOf[s]
      <4>1. c \in Chunks
        BY ManifestType
      <4>2. refs' = [refs EXCEPT ![c] = refs[c] - 1] \/ refs' = [refs EXCEPT ![c] = refs[c]]
        BY <2>4 DEF Release
      <4> QED
        BY <4>1, <4>2
    <3> QED
      BY <2>4, <3>1, <3>2 DEF Release
  <2>5. CASE AssemblyFails(f)
    BY <2>5 DEF AssemblyFails, StepTask, TaskSteps
  <2>6. CASE Rename(f)
    BY <2>6 DEF Rename, StepTask, TaskSteps
  <2>7. CASE EndTask(f)
    <3>1. task' \in [Files -> TaskSteps]
      BY <2>7 DEF EndTask, StepTask, TaskSteps
    <3>2. flags' = flags \/ flags' = [flags EXCEPT ![f] = FALSE]
      BY <2>7 DEF EndTask
    <3>3. flags' \in [Files -> BOOLEAN]
      BY <3>2
    <3>4. assembled' = assembled \/ assembled' = assembled + 1
      BY <2>7 DEF EndTask
    <3>5. assembled' \in Nat
      BY <3>4
    <3> QED
      BY <2>7, <3>1, <3>3, <3>5 DEF EndTask
  <2> QED
    BY <1>6, <2>1, <2>2, <2>3, <2>4, <2>5, <2>6, <2>7 DEF Task
<1>7. CASE Coordinator
  <2> USE DEF CoordFrame, Spawn, StepTask, TaskSteps
  <2>1. CASE EndSpin \/ EndFill \/ NothingToJoin
    BY <2>1 DEF EndSpin, EndFill, NothingToJoin
  <2>2. CASE SelectCancelled \/ SelectClosed \/ EndDrain
    BY <2>2 DEF SelectCancelled, SelectClosed, EndDrain
  <2>3. ASSUME NEW f \in Files, Fill(f) \/ SelectMessage(f) PROVE TypeInv'
    BY <2>3 DEF Fill, SelectMessage
  <2>4. ASSUME NEW f \in Files, TryJoin(f) \/ SelectJoin(f) PROVE TypeInv'
    BY <2>4 DEF TryJoin, SelectJoin
  <2>5. ASSUME NEW f \in Files, Drain(f) PROVE TypeInv'
    <3>1. coord_err' \in BOOLEAN
      BY <2>5 DEF Drain
    <3> QED
      BY <2>5, <3>1 DEF Drain
  <2> QED
    BY <1>7, <2>1, <2>2, <2>3, <2>4, <2>5 DEF Coordinator
<1> QED
  BY <1>1, <1>2, <1>3, <1>4, <1>5, <1>6, <1>7 DEF Next

\* Every variable of the pipeline keeps its type.
THEOREM TypeCorrect == Spec => []TypeOK
<1>1. Spec => []TypeInv
  BY InitType, NextType, PTL DEF Spec
<1>2. TypeInv => TypeOK
  BY DEF TypeInv
<1> QED
  BY <1>1, <1>2, PTL
-----------------------------------------------------------------------------
(***************************************************************************)
(* Why an Ok can be trusted: install() compares two numbers only.  A file  *)
(* is settled when its claim stands and no task works on it; the settled   *)
(* files are exactly those counted, and a settled file is installed.  That *)
(* a file is counted once rests on its way: it waits (pending > 0), then   *)
(* it is in the channel, then its task is queued, all with its flag down.  *)
(***************************************************************************)
Settled(f) == flags[f] /\ f \notin Running

SettledAreCounted == assembled = Cardinality({f \in Files : Settled(f)})

SettledAreInstalled == \A f \in Files : Settled(f) => Installed(f)

PendingExact ==
  \A f \in Files : pending[f] = Cardinality({s \in SlotsOf(f) : slot[s] = "pending"})

OneWay ==
  \A f \in Files :
    /\ pending[f] > 0 => f \notin chan
    /\ (pending[f] > 0 \/ f \in chan) => task[f] = "none"
    /\ (pending[f] > 0 \/ f \in chan \/ task[f] = "queued") => ~flags[f]
    /\ task[f] \in {"reading", "drop_ok", "drop_err"} => flags[f]
    /\ task[f] = "drop_ok" => target[f] = "new"
    /\ (f \in chan \/ task[f] # "none") => f \notin EagerFiles

\* What is stored of the eager files.
EagerStored ==
  /\ \A s \in Slots : slot[s] = "pending" => s \in Downloads
  /\ \/ /\ \A s \in Slots : slot[s] = "none"
        /\ chan = {} /\ \A f \in Files : task[f] = "none"
     \/ \A s \in Downloads : slot[s] # "none"
  /\ \A s \in Downloads :
       (FileOf[s] \in EagerFiles /\ slot[s] \notin {"none", "pending"}) => NameOf[s] \in stored
  /\ \A w \in Workers :
       (pc[w] = "notify" /\ item[w] \in EagerItems) => item[w] \in stored

BeforeRegister ==
  phase = "register" =>
    /\ coord = "spin" /\ ~ready /\ chan = {}
    /\ \A f \in Files : task[f] = "none" /\ (flags[f] <=> f \in Completed)

IInv ==
  /\ TypeInv
  /\ SettledAreCounted /\ SettledAreInstalled
  /\ PendingExact /\ OneWay /\ EagerStored /\ BeforeRegister
  /\ OkMeansInstalled
-----------------------------------------------------------------------------
(***************************************************************************)
(* The slots of an eager file are downloads, each the only use of an eager *)
(* item; and an item is eager for every slot it has.                       *)
(***************************************************************************)
LEMMA EagerFacts ==
  /\ \A f \in EagerFiles : \A s \in SlotsOf(f) : s \in Downloads /\ NameOf[s] \in EagerItems
  /\ \A s \in Downloads : NameOf[s] \in EagerItems => FileOf[s] \in EagerFiles
  /\ ReadyFiles \cap EagerFiles = {}
<1>1. ASSUME NEW f \in EagerFiles, NEW s \in SlotsOf(f)
      PROVE  s \in Downloads /\ NameOf[s] \in EagerItems
  <2>1. s \in Downloads
    BY DEF EagerFiles, SlotsOf, Downloads
  <2> QED
    BY <2>1 DEF EagerItems, SlotsOf
<1>2. ASSUME NEW s \in Downloads, NameOf[s] \in EagerItems PROVE FileOf[s] \in EagerFiles
  <2>1. PICK d \in Downloads : FileOf[d] \in EagerFiles /\ NameOf[d] = NameOf[s]
    BY <1>2 DEF EagerItems
  <2>2. d \in SlotsOf(FileOf[d])
    BY DEF SlotsOf, Downloads
  <2>3. Uses(NameOf[d]) = {d}
    BY <2>1, <2>2 DEF EagerFiles
  <2>4. s \in Uses(NameOf[d])
    BY <2>1 DEF Uses
  <2> QED
    BY <2>1, <2>3, <2>4
<1>3. ReadyFiles \cap EagerFiles = {}
  BY <1>1, ManifestType DEF ReadyFiles, EagerFiles
<1> QED
  BY <1>1, <1>2, <1>3

(***************************************************************************)
(* An installed file stays installed if targets stay new and no chunk of   *)
(* an eager file is taken away.                                            *)
(***************************************************************************)
KeepsData ==
  /\ \A f \in Files : target[f] = "new" => target'[f] = "new"
  /\ \A c \in EagerItems : c \in stored => c \in stored'

LEMMA InstalledStays ==
  ASSUME KeepsData, NEW f \in Files, Installed(f)
  PROVE  Installed(f)'
<1>1. CASE target[f] = "new"
  BY <1>1 DEF KeepsData, Installed
<1>2. CASE f \in EagerFiles /\ \A s \in SlotsOf(f) : NameOf[s] \in stored
  BY <1>2, EagerFacts DEF KeepsData, Installed
<1> QED
  BY <1>1, <1>2 DEF Installed

(***************************************************************************)
(* Most steps leave the progress of the files alone.                       *)
(***************************************************************************)
Quiet ==
  /\ UNCHANGED <<slot, pending, target, flags, assembled, chan, task>>
  /\ \A c \in EagerItems : c \in stored => c \in stored'
  /\ \A w \in Workers : pc'[w] = "notify" =>
       (pc[w] = "notify" /\ item'[w] = item[w]) \/ item'[w] \in stored'
  /\ phase' = "register" => phase = "register" /\ coord' = coord /\ ready' = ready
  /\ result' = "ok" => result = "ok"

LEMMA QuietKeeps ==
  ASSUME IInv, TypeInv', Quiet
  PROVE  IInv'
<1> USE DEF Quiet
<1>1. KeepsData
  BY DEF KeepsData
<1>2. \A f \in Files : Settled(f)' = Settled(f)
  BY DEF Settled, Running, InJoinSet, Finished
<1>3. SettledAreCounted'
  <2>1. {f \in Files : Settled(f)}' = {f \in Files : Settled(f)}
    BY <1>2
  <2> QED
    BY <2>1 DEF IInv, SettledAreCounted
<1>4. SettledAreInstalled'
  BY <1>1, <1>2, InstalledStays DEF IInv, SettledAreInstalled
<1>5. PendingExact'
  BY DEF IInv, PendingExact
<1>6. OneWay'
  BY DEF IInv, OneWay
<1>7. EagerStored'
  <2>1. \A s \in Downloads : FileOf[s] \in EagerFiles => NameOf[s] \in EagerItems
    BY EagerFacts, ManifestType DEF SlotsOf
  <2> QED
    BY <2>1 DEF IInv, EagerStored
<1>8. BeforeRegister'
  BY DEF IInv, BeforeRegister
<1>9. OkMeansInstalled'
  BY <1>1, InstalledStays DEF IInv, OkMeansInstalled
<1> QED
  BY <1>3, <1>4, <1>5, <1>6, <1>7, <1>8, <1>9 DEF IInv

LEMMA QuietMain ==
  ASSUME IInv,
         \/ UNCHANGED vars \/ Handle
         \/ RegisterFails \/ DownloadsEnd \/ StopAssembly
         \/ ReturnCancelled \/ ReturnFirstError
  PROVE  Quiet
<1> USE DEF Quiet, vars, handleVars, mainVars, workerVars, dataVars, doneVars, coordVars
<1>1. CASE UNCHANGED vars
  BY <1>1
<1>2. CASE Handle
  BY <1>2 DEF Handle
<1>3. CASE RegisterFails
  BY <1>3 DEF RegisterFails
<1>4. CASE DownloadsEnd
  BY <1>4 DEF DownloadsEnd
<1>5. CASE StopAssembly
  BY <1>5 DEF StopAssembly
<1>6. CASE ReturnCancelled
  BY <1>6 DEF ReturnCancelled
<1>7. CASE ReturnFirstError
  BY <1>7 DEF ReturnFirstError
<1> QED
  BY <1>1, <1>2, <1>3, <1>4, <1>5, <1>6, <1>7

LEMMA QuietWorker ==
  ASSUME IInv, NEW w \in Workers,
         \/ SpawnWorker(w) \/ Quit(w) \/ Take(w) \/ Pass(w) \/ Refuse(w)
         \/ FetchCancelled(w) \/ FetchFails(w) \/ Fetch(w) \/ EndItem(w)
  PROVE  Quiet
<1> USE DEF IInv, TypeInv, TypeOK, Quiet, handleVars, mainVars, workerVars, dataVars,
            doneVars, coordVars
<1>1. CASE SpawnWorker(w)
  BY <1>1 DEF SpawnWorker
<1>2. CASE Quit(w)
  BY <1>2 DEF Quit
<1>3. CASE Take(w)
  BY <1>3 DEF Take
<1>4. CASE Pass(w)
  BY <1>4 DEF Pass
<1>5. CASE Refuse(w)
  BY <1>5 DEF Refuse, NextItem
<1>6. CASE FetchCancelled(w)
  BY <1>6 DEF FetchCancelled, NextItem
<1>7. CASE FetchFails(w)
  BY <1>7 DEF FetchFails, NextItem
<1>8. CASE Fetch(w)
  BY <1>8 DEF Fetch
<1>9. CASE EndItem(w)
  BY <1>9 DEF EndItem, NextItem
<1> QED
  BY <1>1, <1>2, <1>3, <1>4, <1>5, <1>6, <1>7, <1>8, <1>9

LEMMA QuietCoordinator ==
  ASSUME IInv,
         \/ EndSpin \/ EndFill \/ NothingToJoin
         \/ SelectCancelled \/ SelectClosed \/ EndDrain
  PROVE  Quiet
<1> USE DEF Quiet, CoordFrame, handleVars, mainVars, workerVars, dataVars, doneVars
<1>1. phase = "register" => coord = "spin" /\ ~ready
  BY DEF IInv, BeforeRegister
<1>2. CASE EndSpin
  BY <1>1, <1>2 DEF EndSpin
<1>3. CASE EndFill
  BY <1>1, <1>3 DEF EndFill
<1>4. CASE NothingToJoin
  BY <1>1, <1>4 DEF NothingToJoin
<1>5. CASE SelectCancelled
  BY <1>1, <1>5 DEF SelectCancelled
<1>6. CASE SelectClosed
  BY <1>1, <1>6 DEF SelectClosed
<1>7. CASE EndDrain
  BY <1>1, <1>7 DEF EndDrain
<1> QED
  BY <1>2, <1>3, <1>4, <1>5, <1>6, <1>7
-----------------------------------------------------------------------------
(***************************************************************************)
(* The initial state.                                                      *)
(***************************************************************************)
LEMMA InitIInv == Init => IInv
<1> SUFFICES ASSUME Init PROVE IInv
  OBVIOUS
<1>1. TypeInv
  BY InitType
<1>2. {f \in Files : Settled(f)} = Completed
  BY ManifestAssumption DEF Init, Settled, Running, InJoinSet, Finished
<1>3. SettledAreCounted
  BY <1>2 DEF Init, SettledAreCounted
<1>4. SettledAreInstalled
  BY <1>2 DEF Init, SettledAreInstalled, Installed
<1>5. PendingExact
  <2>1. \A f \in Files : {s \in SlotsOf(f) : slot[s] = "pending"} = {}
    BY ManifestType DEF Init
  <2> QED
    BY <2>1, FS_EmptySet DEF Init, PendingExact
<1>6. OneWay
  BY DEF Init, OneWay
<1>7. EagerStored
  BY ManifestType DEF Init, EagerStored
<1>8. BeforeRegister
  BY DEF Init, BeforeRegister
<1>9. OkMeansInstalled
  BY DEF Init, OkMeansInstalled
<1> QED
  BY <1>1, <1>3, <1>4, <1>5, <1>6, <1>7, <1>8, <1>9 DEF IInv
-----------------------------------------------------------------------------
(***************************************************************************)
(* The two ways a step treats the settled files: it leaves them as they    *)
(* are, or it settles one more and counts it.                              *)
(***************************************************************************)
LEMMA SettledSame ==
  ASSUME IInv, KeepsData, UNCHANGED <<assembled, result>>,
         \A f \in Files : Settled(f)' <=> Settled(f)
  PROVE  SettledAreCounted' /\ SettledAreInstalled' /\ OkMeansInstalled'
<1>1. {f \in Files : Settled(f)}' = {f \in Files : Settled(f)}
  OBVIOUS
<1>2. SettledAreCounted'
  BY <1>1 DEF IInv, SettledAreCounted
<1>3. SettledAreInstalled'
  BY InstalledStays DEF IInv, SettledAreInstalled
<1>4. OkMeansInstalled'
  BY InstalledStays DEF IInv, OkMeansInstalled
<1> QED
  BY <1>2, <1>3, <1>4

LEMMA SettledMore ==
  ASSUME IInv, KeepsData, UNCHANGED result, assembled' = assembled + 1,
         NEW f \in Files, ~Settled(f), Settled(f)', Installed(f)',
         \A g \in Files \ {f} : Settled(g)' <=> Settled(g)
  PROVE  SettledAreCounted' /\ SettledAreInstalled' /\ OkMeansInstalled'
<1>1. {g \in Files : Settled(g)}' = {g \in Files : Settled(g)} \cup {f}
  OBVIOUS
<1>2. /\ IsFiniteSet({g \in Files : Settled(g)})
      /\ f \notin {g \in Files : Settled(g)}
  <2>1. {g \in Files : Settled(g)} \subseteq Files
    OBVIOUS
  <2> QED
    BY <2>1, CountType
<1>3. Cardinality({g \in Files : Settled(g)} \cup {f}) = Cardinality({g \in Files : Settled(g)}) + 1
  BY <1>2, FS_AddElement
<1>4. SettledAreCounted'
  BY <1>1, <1>3 DEF IInv, SettledAreCounted
<1>5. SettledAreInstalled'
  BY InstalledStays DEF IInv, SettledAreInstalled
<1>6. OkMeansInstalled'
  BY InstalledStays DEF IInv, OkMeansInstalled
<1> QED
  BY <1>4, <1>5, <1>6

(***************************************************************************)
(* The pending counts stay exact if no slot starts or stops waiting, and a *)
(* file with nothing pending has no slot that waits.                       *)
(***************************************************************************)
LEMMA PendingSame ==
  ASSUME IInv, UNCHANGED pending,
         \A s \in Slots : slot'[s] = "pending" <=> slot[s] = "pending"
  PROVE  PendingExact'
<1>1. ASSUME NEW f \in Files
      PROVE  {s \in SlotsOf(f) : slot'[s] = "pending"} = {s \in SlotsOf(f) : slot[s] = "pending"}
  BY ManifestType
<1> QED
  BY <1>1 DEF IInv, PendingExact

LEMMA PendingZero ==
  ASSUME IInv, NEW f \in Files
  PROVE  /\ pending[f] \in Nat
         /\ pending[f] = 0 => \A s \in SlotsOf(f) : slot[s] # "pending"
<1> DEFINE P == {s \in SlotsOf(f) : slot[s] = "pending"}
<1>1. P \subseteq Slots
  BY ManifestType
<1>2. IsFiniteSet(P) /\ Cardinality(P) \in Nat /\ pending[f] = Cardinality(P)
  BY <1>1, CountType DEF IInv, PendingExact
<1>3. Cardinality(P) = 0 => P = {}
  BY <1>2, FS_EmptySet
<1> QED
  BY <1>2, <1>3
-----------------------------------------------------------------------------
(***************************************************************************)
(* The steps of the coordinator that start or join a task.                 *)
(***************************************************************************)
LEMMA SpawnKeeps ==
  ASSUME IInv, TypeInv', NEW f \in Files, Fill(f) \/ SelectMessage(f)
  PROVE  IInv'
<1> USE DEF CoordFrame, handleVars, mainVars, workerVars, dataVars, doneVars
<1>1. /\ f \in chan /\ chan' = chan \ {f} /\ task' = [task EXCEPT ![f] = "queued"]
      /\ coord # "spin" /\ CoordFrame
  BY DEF Fill, SelectMessage, Spawn, StepTask
<1>2. KeepsData
  BY <1>1 DEF KeepsData
<1>3. task[f] = "none" /\ ~flags[f] /\ f \notin EagerFiles /\ task \in [Files -> TaskSteps]
  BY <1>1 DEF IInv, OneWay, TypeInv, TypeOK
<1>4. \A g \in Files : Settled(g)' <=> Settled(g)
  BY <1>1, <1>3 DEF Settled, Running, InJoinSet, Finished, IInv, TypeInv, TypeOK
<1>5. SettledAreCounted' /\ SettledAreInstalled' /\ OkMeansInstalled'
  BY <1>1, <1>2, <1>4, SettledSame
<1>6. PendingExact'
  BY <1>1, PendingSame
<1>7. OneWay'
  BY <1>1, <1>3 DEF IInv, OneWay
<1>8. EagerStored'
  BY <1>1, <1>3 DEF IInv, EagerStored
<1>9. BeforeRegister'
  BY <1>1 DEF IInv, BeforeRegister
<1> QED
  BY <1>5, <1>6, <1>7, <1>8, <1>9 DEF IInv

LEMMA JoinKeeps ==
  ASSUME IInv, TypeInv', NEW f \in Files, TryJoin(f) \/ SelectJoin(f) \/ Drain(f)
  PROVE  IInv'
<1> USE DEF CoordFrame, handleVars, mainVars, workerVars, dataVars, doneVars
<1>1. /\ f \in Finished /\ chan' = chan /\ task' = [task EXCEPT ![f] = "joined"]
      /\ coord # "spin" /\ CoordFrame
  BY DEF TryJoin, SelectJoin, Drain, StepTask
<1>2. KeepsData
  BY <1>1 DEF KeepsData
<1>3. task[f] \in {"ok", "err"} /\ task \in [Files -> TaskSteps]
  BY <1>1 DEF Finished, IInv, TypeInv, TypeOK
<1>4. \A g \in Files : Settled(g)' <=> Settled(g)
  BY <1>1, <1>3 DEF Settled, Running, InJoinSet, Finished, IInv, TypeInv, TypeOK
<1>5. SettledAreCounted' /\ SettledAreInstalled' /\ OkMeansInstalled'
  BY <1>1, <1>2, <1>4, SettledSame
<1>6. PendingExact'
  BY <1>1, PendingSame
<1>7. OneWay'
  BY <1>1, <1>3 DEF IInv, OneWay
<1>8. EagerStored'
  BY <1>1, <1>3 DEF IInv, EagerStored
<1>9. BeforeRegister'
  BY <1>1 DEF IInv, BeforeRegister
<1> QED
  BY <1>5, <1>6, <1>7, <1>8, <1>9 DEF IInv
-----------------------------------------------------------------------------
(***************************************************************************)
(* The steps of a task.                                                    *)
(***************************************************************************)
LEMMA ClaimSkipKeeps ==
  ASSUME IInv, TypeInv', NEW f \in Files, ClaimSkip(f)
  PROVE  IInv'
<1> USE DEF handleVars, mainVars, workerVars
<1>1. /\ task[f] = "queued" /\ task' = [task EXCEPT ![f] = "drop_ok"]
      /\ flags' = [flags EXCEPT ![f] = TRUE]
      /\ slot' = [s \in Slots |-> IF FileOf[s] = f THEN "held" ELSE slot[s]]
      /\ UNCHANGED <<mainVars, workerVars, pending, stored, target, assembled, chan, coord>>
  BY DEF ClaimSkip, StepTask
<1>2. /\ ~flags[f] /\ f \notin EagerFiles /\ f \notin chan /\ ~(pending[f] > 0)
      /\ task \in [Files -> TaskSteps] /\ flags \in [Files -> BOOLEAN]
      /\ slot \in [Slots -> SlotStates]
  BY <1>1 DEF IInv, OneWay, TypeInv, TypeOK
<1>3. target[f] = "new"
  BY <1>2 DEF ClaimSkip
<1>4. KeepsData
  BY <1>1 DEF KeepsData
<1>5. \A g \in Files : Settled(g)' <=> Settled(g)
  BY <1>1, <1>2 DEF Settled, Running, InJoinSet, Finished
<1>6. SettledAreCounted' /\ SettledAreInstalled' /\ OkMeansInstalled'
  BY <1>1, <1>4, <1>5, SettledSame
<1>7. PendingExact'
  <2>1. \A s \in SlotsOf(f) : slot[s] # "pending"
    BY <1>2, PendingZero
  <2>2. \A s \in Slots : slot'[s] = "pending" <=> slot[s] = "pending"
    BY <1>1, <2>1 DEF SlotsOf
  <2> QED
    BY <1>1, <2>2, PendingSame
<1>8. OneWay'
  BY <1>1, <1>2, <1>3 DEF IInv, OneWay
<1>9. EagerStored'
  <2>1. \A s \in Downloads : slot[s] # "none"
    BY <1>1 DEF IInv, EagerStored
  <2> QED
    BY <1>1, <1>2, <2>1, ManifestType DEF IInv, EagerStored
<1>10. BeforeRegister'
  BY <1>1 DEF IInv, BeforeRegister
<1> QED
  BY <1>6, <1>7, <1>8, <1>9, <1>10 DEF IInv

LEMMA ClaimKeeps ==
  ASSUME IInv, TypeInv', NEW f \in Files, Claim(f)
  PROVE  IInv'
<1> USE DEF handleVars, mainVars, workerVars, dataVars
<1>1. /\ task[f] = "queued" /\ task' = [task EXCEPT ![f] = "reading"]
      /\ flags' = [flags EXCEPT ![f] = TRUE]
      /\ UNCHANGED <<mainVars, workerVars, dataVars, assembled, chan, coord>>
  BY DEF Claim, StepTask
<1>2. /\ ~flags[f] /\ f \notin EagerFiles /\ f \notin chan /\ ~(pending[f] > 0)
      /\ task \in [Files -> TaskSteps] /\ flags \in [Files -> BOOLEAN]
  BY <1>1 DEF IInv, OneWay, TypeInv, TypeOK
<1>3. KeepsData
  BY <1>1 DEF KeepsData
<1>4. \A g \in Files : Settled(g)' <=> Settled(g)
  BY <1>1, <1>2 DEF Settled, Running, InJoinSet, Finished
<1>5. SettledAreCounted' /\ SettledAreInstalled' /\ OkMeansInstalled'
  BY <1>1, <1>3, <1>4, SettledSame
<1>6. PendingExact'
  BY <1>1, PendingSame
<1>7. OneWay'
  BY <1>1, <1>2 DEF IInv, OneWay
<1>8. EagerStored'
  BY <1>1 DEF IInv, EagerStored
<1>9. BeforeRegister'
  BY <1>1 DEF IInv, BeforeRegister
<1> QED
  BY <1>5, <1>6, <1>7, <1>8, <1>9 DEF IInv

\* Reading a chunk, failing and writing the target settle nothing.
LEMMA AssembleKeeps ==
  ASSUME IInv, TypeInv', NEW f \in Files,
         AssemblyFails(f) \/ Rename(f)
  PROVE  IInv'
<1> USE DEF handleVars, mainVars, workerVars, dataVars, doneVars
<1>1. /\ task[f] = "reading"
      /\ \/ task' = [task EXCEPT ![f] = "drop_err"] /\ target' = target
         \/ task' = [task EXCEPT ![f] = "drop_ok"] /\ target' = [target EXCEPT ![f] = "new"]
      /\ UNCHANGED <<mainVars, workerVars, slot, pending, stored, doneVars, chan, coord>>
  BY DEF AssemblyFails, Rename, StepTask
<1>2. /\ task \in [Files -> TaskSteps] /\ target \in [Files -> {"stale", "new"}]
      /\ flags[f] /\ f \notin chan /\ ~(pending[f] > 0) /\ f \notin EagerFiles
  BY <1>1 DEF IInv, OneWay, TypeInv, TypeOK
<1>3. KeepsData
  BY <1>1, <1>2 DEF KeepsData
<1>4. \A g \in Files : Settled(g)' <=> Settled(g)
  BY <1>1, <1>2 DEF Settled, Running, InJoinSet, Finished
<1>5. SettledAreCounted' /\ SettledAreInstalled' /\ OkMeansInstalled'
  BY <1>1, <1>3, <1>4, SettledSame
<1>6. PendingExact'
  BY <1>1, PendingSame
<1>7. OneWay'
  <2>1. CASE task' = [task EXCEPT ![f] = "drop_err"] /\ target' = target
    BY <1>1, <1>2, <2>1 DEF IInv, OneWay
  <2>2. CASE task' = [task EXCEPT ![f] = "drop_ok"] /\ target' = [target EXCEPT ![f] = "new"]
    BY <1>1, <1>2, <2>2 DEF IInv, OneWay
  <2> QED
    BY <1>1, <2>1, <2>2
<1>8. EagerStored'
  BY <1>1, <1>2 DEF IInv, EagerStored
<1>9. BeforeRegister'
  BY <1>1 DEF IInv, BeforeRegister
<1> QED
  BY <1>5, <1>6, <1>7, <1>8, <1>9 DEF IInv

LEMMA SlotStepKeeps ==
  ASSUME IInv, TypeInv', NEW f \in Files, NEW s \in SlotsOf(f), ReadChunk(s) \/ Release(s)
  PROVE  IInv'
<1> USE DEF handleVars, mainVars, workerVars, doneVars, coordVars
<1>1. /\ s \in Slots /\ FileOf[s] = f
      /\ slot[s] \notin {"none", "pending"} /\ task[f] # "none"
      /\ \E new \in {"held", "released"} : slot' = [slot EXCEPT ![s] = new]
      /\ stored' = stored \/ stored' = stored \ ({NameOf[s]} \ EagerItems)
      /\ UNCHANGED <<mainVars, workerVars, pending, target, doneVars, coordVars>>
  BY DEF ReadChunk, Release, SlotsOf
<1>2. slot \in [Slots -> SlotStates] /\ f \notin EagerFiles
  BY <1>1 DEF IInv, OneWay, TypeInv, TypeOK
<1>3. KeepsData
  BY <1>1 DEF KeepsData
<1>4. \A g \in Files : Settled(g)' <=> Settled(g)
  BY <1>1 DEF Settled, Running, InJoinSet, Finished
<1>5. SettledAreCounted' /\ SettledAreInstalled' /\ OkMeansInstalled'
  BY <1>1, <1>3, <1>4, SettledSame
<1>6. \A r \in Slots : /\ slot'[r] = "pending" <=> slot[r] = "pending"
                       /\ slot'[r] = "none" <=> slot[r] = "none"
  BY <1>1, <1>2
<1>7. PendingExact'
  BY <1>1, <1>6, PendingSame
<1>8. OneWay'
  BY <1>1 DEF IInv, OneWay
<1>9. EagerStored'
  <2>1. \A d \in Downloads : d \in Slots /\ (FileOf[d] \in EagerFiles => NameOf[d] \in EagerItems)
    BY EagerFacts, ManifestType DEF SlotsOf
  <2>2. \A d \in Downloads :
          FileOf[d] \in EagerFiles /\ slot'[d] \notin {"none", "pending"} => NameOf[d] \in stored'
    BY <1>3, <1>6, <2>1 DEF IInv, EagerStored, KeepsData
  <2>3. \A w \in Workers :
          pc'[w] = "notify" /\ item'[w] \in EagerItems => item'[w] \in stored'
    BY <1>1, <1>3 DEF IInv, EagerStored, KeepsData
  <2>4. \A d \in Downloads : slot'[d] # "none"
    BY <1>1, <1>6, <2>1 DEF IInv, EagerStored
  <2>5. \A r \in Slots : slot'[r] = "pending" => r \in Downloads
    BY <1>6 DEF IInv, EagerStored
  <2> QED
    BY <2>2, <2>3, <2>4, <2>5 DEF EagerStored
<1>10. BeforeRegister'
  BY <1>1 DEF IInv, BeforeRegister
<1> QED
  BY <1>5, <1>7, <1>8, <1>9, <1>10 DEF IInv

LEMMA EndTaskKeeps ==
  ASSUME IInv, TypeInv', NEW f \in Files, EndTask(f)
  PROVE  IInv'
<1> USE DEF handleVars, mainVars, workerVars, dataVars
<1>1. UNCHANGED <<mainVars, workerVars, dataVars, chan, coord>>
  BY DEF EndTask
<1>2. /\ task \in [Files -> TaskSteps] /\ flags \in [Files -> BOOLEAN]
      /\ task[f] \in {"drop_ok", "drop_err"} /\ flags[f]
      /\ f \notin chan /\ ~(pending[f] > 0) /\ f \notin EagerFiles
  BY DEF EndTask, IInv, OneWay, TypeInv, TypeOK
<1>3. KeepsData
  BY <1>1 DEF KeepsData
<1>4. f \in Running /\ ~Settled(f)
  BY <1>2 DEF Settled, Running, InJoinSet, Finished
<1>5. SettledAreCounted' /\ SettledAreInstalled' /\ OkMeansInstalled' /\ OneWay'
  <2>1. CASE task[f] = "drop_ok"
    <3>1. assembled' = assembled + 1 /\ task' = [task EXCEPT ![f] = "ok"] /\ flags' = flags
      BY <2>1 DEF EndTask, StepTask
    <3>2. Installed(f)'
      BY <1>1, <2>1 DEF IInv, OneWay, Installed
    <3>3. Settled(f)' /\ \A g \in Files \ {f} : Settled(g)' <=> Settled(g)
      BY <1>2, <3>1 DEF Settled, Running, InJoinSet, Finished
    <3>4. OneWay'
      BY <1>1, <1>2, <3>1 DEF IInv, OneWay
    <3> QED
      BY <1>1, <1>3, <1>4, <3>1, <3>2, <3>3, <3>4, SettledMore
  <2>2. CASE task[f] = "drop_err"
    <3>1. /\ assembled' = assembled /\ task' = [task EXCEPT ![f] = "err"]
          /\ flags' = [flags EXCEPT ![f] = FALSE]
      BY <2>2 DEF EndTask, StepTask
    <3>2. \A g \in Files : Settled(g)' <=> Settled(g)
      BY <1>2, <1>4, <3>1 DEF Settled, Running, InJoinSet, Finished
    <3>3. OneWay'
      BY <1>1, <1>2, <3>1 DEF IInv, OneWay
    <3> QED
      BY <1>1, <1>3, <3>1, <3>2, <3>3, SettledSame
  <2> QED
    BY <1>2, <2>1, <2>2
<1>6. PendingExact'
  BY <1>1, PendingSame
<1>7. EagerStored'
  BY <1>1, <1>2 DEF IInv, EagerStored, EndTask, StepTask
<1>8. BeforeRegister'
  BY <1>1, <1>2 DEF IInv, BeforeRegister
<1> QED
  BY <1>5, <1>6, <1>7, <1>8 DEF IInv
-----------------------------------------------------------------------------
(***************************************************************************)
(* Registration: a file waits, or is sent at once, or was completed.       *)
(***************************************************************************)
LEMMA RegisterKeeps ==
  ASSUME IInv, TypeInv', Register
  PROVE  IInv'
<1> USE DEF handleVars, doneVars
<1>1. /\ phase = "register" /\ phase' = "download"
      /\ slot' = [s \in Slots |-> IF s \in Downloads THEN "pending" ELSE "none"]
      /\ pending' = [f \in Files |-> Cardinality(SlotsOf(f) \cap Downloads)]
      /\ chan' = ReadyFiles
      /\ UNCHANGED <<result, stored, target, doneVars, task>>
      /\ \A w \in Workers : pc'[w] # "notify"
  BY DEF Register
<1>2. \A f \in Files : task[f] = "none" /\ (flags[f] <=> f \in Completed)
  BY <1>1 DEF IInv, BeforeRegister
<1>3. KeepsData
  BY <1>1 DEF KeepsData
<1>4. \A f \in Files : Settled(f)' <=> Settled(f)
  BY <1>1 DEF Settled, Running, InJoinSet, Finished
<1>5. SettledAreCounted' /\ SettledAreInstalled' /\ OkMeansInstalled'
  BY <1>1, <1>3, <1>4, SettledSame
<1>6. PendingExact'
  <2>1. ASSUME NEW f \in Files
        PROVE  {s \in SlotsOf(f) : slot'[s] = "pending"} = SlotsOf(f) \cap Downloads
    BY <1>1, ManifestType
  <2> QED
    BY <1>1, <2>1 DEF PendingExact
<1>7. OneWay'
  <2>1. ASSUME NEW f \in Files, pending'[f] > 0
        PROVE  f \notin ReadyFiles /\ f \notin Completed
    <3>1. SlotsOf(f) \cap Downloads # {}
      <4>1. SlotsOf(f) \cap Downloads = {} => pending'[f] = 0
        BY <1>1, FS_EmptySet
      <4> QED
        BY <4>1, <2>1
    <3> QED
      BY <3>1 DEF ReadyFiles, Downloads, SlotsOf
  <2>2. \A f \in ReadyFiles : f \notin Completed /\ f \notin EagerFiles
    BY EagerFacts DEF ReadyFiles
  <2> QED
    BY <1>1, <1>2, <2>1, <2>2 DEF OneWay
<1>8. EagerStored'
  BY <1>1, ManifestType DEF EagerStored
<1>9. BeforeRegister'
  BY <1>1 DEF BeforeRegister
<1> QED
  BY <1>5, <1>6, <1>7, <1>8, <1>9 DEF IInv

(***************************************************************************)
(* A worker tells a file that one of its chunks is there.  The last one of *)
(* an eager file settles it, and then all of its chunks are stored.        *)
(***************************************************************************)
LEMMA NotifyKeeps ==
  ASSUME IInv, TypeInv', NEW w \in Workers, NEW s \in Slots, Notify(w, s)
  PROVE  IInv'
<1> DEFINE f == FileOf[s]
           P == {r \in SlotsOf(f) : slot[r] = "pending"}
<1> USE DEF handleVars, mainVars, workerVars
<1>1. /\ pc[w] = "notify" /\ NameOf[s] = item[w] /\ slot[s] = "pending"
      /\ slot' = [slot EXCEPT ![s] = "ready"]
      /\ pending' = [pending EXCEPT ![f] = pending[f] - 1]
      /\ UNCHANGED <<mainVars, workerVars, stored, target, task, coord>>
  BY DEF Notify
<1>2. /\ f \in Files /\ s \in SlotsOf(f) /\ s \in Downloads
      /\ slot \in [Slots -> SlotStates] /\ pending \in [Files -> Int]
      /\ flags \in [Files -> BOOLEAN]
  BY <1>1, ManifestType DEF SlotsOf, IInv, EagerStored, TypeInv, TypeOK
<1>3. \A d \in Downloads : slot[d] # "none"
  BY <1>1 DEF IInv, EagerStored
<1>4. IsFiniteSet(P) /\ s \in P /\ pending[f] = Cardinality(P) /\ Cardinality(P) \in Nat
  <2>1. P \subseteq Slots
    BY ManifestType
  <2> QED
    BY <1>1, <1>2, <2>1, CountType DEF IInv, PendingExact
<1>5. Cardinality(P \ {s}) = pending[f] - 1 /\ Cardinality(P \ {s}) \in Nat
  <2>1. IsFiniteSet(P \ {s}) /\ Cardinality(P \ {s}) = Cardinality(P) - 1
    BY <1>4, FS_RemoveElement
  <2> QED
    BY <1>4, <2>1, FS_CardinalityType
<1>6. pending[f] > 0 /\ task[f] = "none" /\ f \notin chan /\ ~flags[f]
  <2>1. pending[f] > 0
    BY <1>4, <1>5
  <2> QED
    BY <1>2, <2>1 DEF IInv, OneWay
<1>7. KeepsData
  BY <1>1 DEF KeepsData
<1>8. item[w] \in EagerItems <=> f \in EagerFiles
  BY <1>1, <1>2, EagerFacts
<1>9. PendingExact'
  <2>1. ASSUME NEW g \in Files
        PROVE  pending'[g] = Cardinality({r \in SlotsOf(g) : slot'[r] = "pending"})
    <3>1. CASE g = f
      <4>1. {r \in SlotsOf(g) : slot'[r] = "pending"} = P \ {s}
        BY <1>1, <1>2, <3>1, ManifestType
      <4> QED
        BY <1>1, <1>2, <1>5, <3>1, <4>1
    <3>2. CASE g # f
      <4>1. s \notin SlotsOf(g)
        BY <3>2 DEF SlotsOf
      <4>2. {r \in SlotsOf(g) : slot'[r] = "pending"} = {r \in SlotsOf(g) : slot[r] = "pending"}
        BY <1>1, <1>2, <4>1, ManifestType
      <4> QED
        BY <1>1, <1>2, <3>2, <4>2 DEF IInv, PendingExact
    <3> QED
      BY <3>1, <3>2
  <2> QED
    BY <2>1 DEF PendingExact
<1>10. EagerStored'
  <2>1. FileOf[s] \in EagerFiles => NameOf[s] \in stored
    BY <1>1, <1>8 DEF IInv, EagerStored
  <2> QED
    BY <1>1, <1>2, <1>3, <2>1, ManifestType DEF IInv, EagerStored
<1>11. BeforeRegister'
  BY <1>1 DEF IInv, BeforeRegister, TypeInv, WorkerItems
<1>12. SettledAreCounted' /\ SettledAreInstalled' /\ OkMeansInstalled' /\ OneWay'
  <2>1. CASE pending[f] # 1 /\ UNCHANGED <<doneVars, chan>>
    <3>1. \A g \in Files : Settled(g)' <=> Settled(g)
      BY <1>1, <2>1 DEF Settled, Running, InJoinSet, Finished, doneVars
    <3>2. OneWay'
      BY <1>1, <1>2, <1>6, <2>1 DEF IInv, OneWay, doneVars
    <3> QED
      BY <1>1, <1>7, <2>1, <3>1, <3>2, SettledSame DEF doneVars
  <2>2. CASE /\ pending[f] = 1 /\ item[w] \notin EagerItems
             /\ chan' = chan \cup {f} /\ UNCHANGED doneVars
    <3>1. \A g \in Files : Settled(g)' <=> Settled(g)
      BY <1>1, <2>2 DEF Settled, Running, InJoinSet, Finished, doneVars
    <3>2. OneWay'
      BY <1>1, <1>2, <1>6, <1>8, <2>2 DEF IInv, OneWay, doneVars
    <3> QED
      BY <1>1, <1>7, <2>2, <3>1, <3>2, SettledSame DEF doneVars
  <2>3. CASE /\ pending[f] = 1 /\ item[w] \in EagerItems
             /\ flags' = [flags EXCEPT ![f] = TRUE] /\ assembled' = assembled + 1
             /\ chan' = chan
    <3>1. Settled(f)' /\ ~Settled(f) /\ \A g \in Files \ {f} : Settled(g)' <=> Settled(g)
      BY <1>1, <1>2, <1>6, <2>3 DEF Settled, Running, InJoinSet, Finished
    <3>2. Installed(f)'
      <4>1. P \ {s} = {}
        <5>1. Cardinality(P \ {s}) = 0 /\ IsFiniteSet(P \ {s})
          BY <1>4, <1>5, <2>3, FS_RemoveElement
        <5> QED
          BY <5>1, FS_EmptySet
      <4>2. ASSUME NEW r \in SlotsOf(f) PROVE NameOf[r] \in stored
        <5>1. CASE r = s
          BY <1>1, <2>3, <5>1 DEF IInv, EagerStored
        <5>2. CASE r # s
          <6>1. r \in Downloads /\ FileOf[r] \in EagerFiles
            BY <1>8, <2>3, EagerFacts DEF SlotsOf
          <6>2. slot[r] \notin {"none", "pending"}
            BY <1>3, <4>1, <5>2, <6>1
          <6> QED
            BY <6>1, <6>2 DEF IInv, EagerStored
        <5> QED
          BY <5>1, <5>2
      <4> QED
        BY <1>1, <1>8, <2>3, <4>2 DEF Installed
    <3>3. OneWay'
      BY <1>1, <1>2, <1>6, <2>3 DEF IInv, OneWay
    <3> QED
      BY <1>1, <1>2, <1>7, <2>3, <3>1, <3>2, <3>3, SettledMore
  <2> QED
    BY <2>1, <2>2, <2>3 DEF Notify
<1> QED
  BY <1>9, <1>10, <1>11, <1>12 DEF IInv

(***************************************************************************)
(* The end: if as many files are counted as there are, all are settled.    *)
(***************************************************************************)
LEMMA ReturnKeeps ==
  ASSUME IInv, TypeInv', ReturnAssembled
  PROVE  IInv'
<1> USE DEF handleVars, workerVars, dataVars, doneVars, coordVars
<1>1. /\ phase' = "returned"
      /\ result' = "ok" => assembled = Cardinality(Files)
      /\ UNCHANGED <<workerVars, dataVars, doneVars, coordVars>>
  BY DEF ReturnAssembled
<1>2. /\ \A f \in Files : Settled(f)' <=> Settled(f)
      /\ \A f \in Files : Installed(f)' <=> Installed(f)
  BY <1>1 DEF Settled, Running, InJoinSet, Finished, Installed
<1>3. SettledAreCounted'
  <2>1. {f \in Files : Settled(f)}' = {f \in Files : Settled(f)}
    BY <1>2
  <2> QED
    BY <1>1, <2>1 DEF IInv, SettledAreCounted
<1>4. SettledAreInstalled'
  BY <1>2 DEF IInv, SettledAreInstalled
<1>5. OkMeansInstalled'
  <2>1. ASSUME result' = "ok" PROVE \A f \in Files : Installed(f)
    <3>1. Cardinality({f \in Files : Settled(f)}) = Cardinality(Files)
      BY <1>1, <2>1 DEF IInv, SettledAreCounted
    <3>2. {f \in Files : Settled(f)} \in SUBSET Files
      OBVIOUS
    <3>3. {f \in Files : Settled(f)} = Files
      BY <3>1, <3>2, FS_Subset, ManifestAssumption
    <3> QED
      BY <3>3 DEF IInv, SettledAreInstalled
  <2> QED
    BY <1>2, <2>1 DEF OkMeansInstalled
<1>6. PendingExact'
  BY <1>1, PendingSame
<1>7. OneWay' /\ EagerStored' /\ BeforeRegister'
  BY <1>1 DEF IInv, OneWay, EagerStored, BeforeRegister
<1> QED
  BY <1>3, <1>4, <1>5, <1>6, <1>7 DEF IInv
-----------------------------------------------------------------------------
LEMMA NextIInv == IInv /\ [Next]_vars => IInv'
<1> SUFFICES ASSUME IInv, [Next]_vars PROVE IInv'
  OBVIOUS
<1>1. TypeInv'
  BY NextType DEF IInv
<1>2. CASE UNCHANGED vars \/ Handle
  BY <1>1, <1>2, QuietMain, QuietKeeps
<1>3. CASE Main
  BY <1>1, <1>3, QuietMain, QuietKeeps, RegisterKeeps, ReturnKeeps DEF Main
<1>4. ASSUME NEW w \in Workers, SpawnWorker(w) \/ Worker(w) PROVE IInv'
  <2>1. ASSUME NEW s \in Slots, Notify(w, s) PROVE IInv'
    BY <1>1, <2>1, NotifyKeeps
  <2> QED
    BY <1>1, <1>4, <2>1, QuietWorker, QuietKeeps DEF Worker
<1>5. ASSUME NEW f \in Files, Task(f) PROVE IInv'
  <2>1. ASSUME NEW s \in SlotsOf(f), ReadChunk(s) \/ Release(s) PROVE IInv'
    BY <1>1, <2>1, SlotStepKeeps
  <2> QED
    BY <1>1, <1>5, <2>1, ClaimSkipKeeps, ClaimKeeps, AssembleKeeps, EndTaskKeeps DEF Task
<1>6. CASE Coordinator
  <2>1. ASSUME NEW f \in Files,
               Fill(f) \/ SelectMessage(f) \/ TryJoin(f) \/ SelectJoin(f) \/ Drain(f)
        PROVE  IInv'
    BY <1>1, <2>1, SpawnKeeps, JoinKeeps
  <2> QED
    BY <1>1, <1>6, <2>1, QuietCoordinator, QuietKeeps DEF Coordinator
<1> QED
  BY <1>2, <1>3, <1>4, <1>5, <1>6 DEF Next

(***************************************************************************)
(* Whatever the interleaving, the failures and the moment of cancellation, *)
(* install() returns Ok only when every file is the new version.           *)
(***************************************************************************)
THEOREM OkMeansInstalledHolds == Spec => []OkMeansInstalled
<1>1. Spec => []IInv
  BY InitIInv, NextIInv, PTL DEF Spec
<1>2. IInv => OkMeansInstalled
  BY DEF IInv
<1> QED
  BY <1>1, <1>2, PTL
-----------------------------------------------------------------------------
(***************************************************************************)
(* What surrounds the files: nothing moves before registration; when the   *)
(* call has ended the workers are gone, and when it ended with the         *)
(* coordinator so are its tasks; an item is in one place.                  *)
(***************************************************************************)
Unregistered ==
  ~ready =>
    /\ phase \in {"register", "abandoned"} /\ coord = "spin" /\ chan = {} /\ queue = {}
    /\ \A w \in Workers : pc[w] = "unborn"
    /\ \A s \in Slots : slot[s] = "none"
    /\ \A f \in Files : task[f] = "none"

Ended ==
  /\ phase = "register" => ~ready
  /\ result # "none" => phase \in {"returned", "abandoned"}
  /\ result \in {"ok", "cancelled", "incomplete"} => coord = "done"
  /\ coord = "done" => InJoinSet = {}
  /\ phase \notin {"register", "download"} => Live = {}
  /\ cancelled => state = "CANCELLED"
  /\ phase = "cancelling" => cancelled
  /\ result = "cancelled" => stored \subseteq EagerItems

Queueing ==
  /\ \A c \in queue : \A s \in Uses(c) : slot[s] = "pending"
  /\ \A w \in Workers :
       pc[w] \in {"asking", "fetch"} => \A s \in Uses(item[w]) : slot[s] = "pending"
  /\ \A w \in Workers : pc[w] \in Busy => item[w] \notin queue
  /\ \A v, w \in Workers :
       (pc[v] \in Busy /\ pc[w] \in Busy /\ item[v] = item[w]) => v = w

Frame == Unregistered /\ Ended /\ Queueing

LEMMA InitFrame == Init => Frame
BY DEF Init, PG!Init, Frame, Unregistered, Ended, Queueing, InJoinSet, Live, Busy

\* A slot that waits belongs to a file that has no task yet.
LEMMA WaitsBeforeTask ==
  ASSUME IInv, NEW s \in Slots, slot[s] = "pending"
  PROVE  task[FileOf[s]] = "none" /\ FileOf[s] \notin chan /\ ~flags[FileOf[s]]
<1>1. FileOf[s] \in Files /\ s \in SlotsOf(FileOf[s])
  BY ManifestType DEF SlotsOf
<1>2. pending[FileOf[s]] \in Nat /\ pending[FileOf[s]] # 0
  BY <1>1, PendingZero
<1> QED
  BY <1>1, <1>2 DEF IInv, OneWay

LEMMA MainFrame ==
  ASSUME IInv, Frame, UNCHANGED vars \/ Handle \/ Main
  PROVE  Frame'
<1> USE DEF IInv, TypeInv, TypeOK, PG!TypeOK, WorkerItems, Frame, Unregistered, Ended, Queueing, InJoinSet,
            Live, Busy, vars, handleVars, mainVars, workerVars, dataVars, doneVars, coordVars
<1>1. CASE UNCHANGED vars
  BY <1>1
<1>2. CASE Handle
  BY <1>2 DEF Handle, PG!Pause, PG!Resume, PG!Cancel
<1>3. CASE Register
  <2>1. \A c : Uses(c) \subseteq Downloads /\ Downloads \subseteq Slots
    BY ManifestType DEF Uses
  <2> QED
    BY <1>3, <2>1 DEF Register, SetLocks
<1>4. CASE RegisterFails
  BY <1>4 DEF RegisterFails
<1>5. CASE DownloadsEnd
  BY <1>5 DEF DownloadsEnd
<1>6. CASE StopAssembly
  BY <1>6 DEF StopAssembly
<1>7. CASE ReturnCancelled
  BY <1>7 DEF ReturnCancelled
<1>8. CASE ReturnFirstError
  BY <1>8 DEF ReturnFirstError
<1>9. CASE ReturnAssembled
  BY <1>9 DEF ReturnAssembled
<1> QED
  BY <1>1, <1>2, <1>3, <1>4, <1>5, <1>6, <1>7, <1>8, <1>9 DEF Main

LEMMA WorkerFrame ==
  ASSUME IInv, Frame, NEW w \in Workers, SpawnWorker(w) \/ Worker(w)
  PROVE  Frame'
<1> USE DEF IInv, TypeInv, TypeOK, PG!TypeOK, WorkerItems, Frame, Unregistered, Ended, Queueing, InJoinSet,
            Live, Busy, handleVars, mainVars, workerVars, dataVars, doneVars, coordVars
<1>1. CASE SpawnWorker(w)
  BY <1>1 DEF SpawnWorker
<1>2. CASE Quit(w)
  BY <1>2 DEF Quit
<1>3. CASE Take(w)
  BY <1>3 DEF Take, PG!Ask
<1>4. CASE Pass(w)
  BY <1>4 DEF Pass, PG!Pass
<1>5. CASE Refuse(w)
  BY <1>5 DEF Refuse, PG!Refuse, NextItem
<1>6. CASE FetchCancelled(w)
  BY <1>6 DEF FetchCancelled, NextItem
<1>7. CASE FetchFails(w)
  BY <1>7 DEF FetchFails, NextItem
<1>8. CASE Fetch(w)
  BY <1>8 DEF Fetch
<1>9. ASSUME NEW s \in Slots, Notify(w, s) PROVE Frame'
  <2>1. \A c : s \in Uses(c) => c = item[w]
    BY <1>9 DEF Notify, Uses
  <2> QED
    BY <1>9, <2>1 DEF Notify
<1>10. CASE EndItem(w)
  BY <1>10 DEF EndItem, NextItem
<1> QED
  BY <1>1, <1>2, <1>3, <1>4, <1>5, <1>6, <1>7, <1>8, <1>9, <1>10 DEF Worker

LEMMA TaskFrame ==
  ASSUME IInv, Frame, NEW f \in Files, Task(f)
  PROVE  Frame'
<1> USE DEF StepTask, handleVars, mainVars, workerVars, dataVars, doneVars, coordVars
<1>1. /\ task[f] \notin {"none", "ok", "err", "joined"}
      /\ UNCHANGED <<handleVars, mainVars, workerVars, chan, coord>>
      /\ stored' \subseteq stored
      /\ \A s \in Slots : slot'[s] # slot[s] => task[FileOf[s]] # "none"
  <2>1. CASE ClaimSkip(f)
    BY <2>1 DEF ClaimSkip
  <2>2. CASE Claim(f) \/ AssemblyFails(f) \/ Rename(f) \/ EndTask(f)
    BY <2>2 DEF Claim, AssemblyFails, Rename, EndTask
  <2>3. ASSUME NEW s \in SlotsOf(f), ReadChunk(s) \/ Release(s)
        PROVE  /\ task[f] \notin {"none", "ok", "err", "joined"}
               /\ UNCHANGED <<handleVars, mainVars, workerVars, chan, coord>>
               /\ stored' \subseteq stored
               /\ \A r \in Slots : slot'[r] # slot[r] => task[FileOf[r]] # "none"
    BY <2>3 DEF ReadChunk, Release, SlotsOf, IInv, TypeInv, TypeOK
  <2> QED
    BY <2>1, <2>2, <2>3 DEF Task
<1>2. ready /\ coord # "done"
  BY <1>1 DEF Frame, Unregistered, Ended, InJoinSet
<1>3. \A s \in Slots : slot[s] = "pending" => slot'[s] = "pending"
  BY <1>1, WaitsBeforeTask
<1>4. Unregistered' /\ Ended'
  BY <1>1, <1>2 DEF Frame, Unregistered, Ended, Live
<1>5. Queueing'
  BY <1>1, <1>3, ManifestType DEF Frame, Queueing
<1> QED
  BY <1>4, <1>5 DEF Frame

LEMMA CoordinatorFrame ==
  ASSUME IInv, Frame, Coordinator
  PROVE  Frame'
<1> USE DEF CoordFrame, Spawn, StepTask, handleVars, mainVars, workerVars, dataVars, doneVars
<1>1. CoordFrame /\ coord # "done" /\ (coord = "spin" => ready)
      /\ (coord' = "done" => InJoinSet = {} /\ task' = task)
      /\ (~ready => UNCHANGED <<chan, coord, task>>)
  BY DEF Coordinator, EndSpin, EndFill, NothingToJoin, SelectCancelled, SelectClosed, EndDrain,
         Fill, TryJoin, SelectMessage, SelectJoin, Drain, Frame, Unregistered
<1> QED
  BY <1>1 DEF Frame, Unregistered, Ended, Queueing, InJoinSet, Live

LEMMA NextFrame == IInv /\ Frame /\ [Next]_vars => Frame'
BY MainFrame, WorkerFrame, TaskFrame, CoordinatorFrame DEF Next

LEMMA FrameHolds == Spec => [](IInv /\ Frame)
BY InitIInv, NextIInv, InitFrame, NextFrame, PTL DEF Spec

(***************************************************************************)
(* When install() reports the cancellation nothing of it runs any more,    *)
(* and no chunk is left.                                                   *)
(***************************************************************************)
THEOREM CancelledIsQuietHolds == Spec => []CancelledIsQuiet
<1>1. Frame => CancelledIsQuiet
  BY DEF Frame, Ended, CancelledIsQuiet, Running
<1> QED
  BY <1>1, FrameHolds, PTL
-----------------------------------------------------------------------------
(***************************************************************************)
(* The pipeline implements its contract: each step changes the installed   *)
(* files, the state of the handle and the result as InstallContract says,  *)
(* or leaves the three alone.                                              *)
(***************************************************************************)
Done == {f \in Files : Installed(f)}

\* Installed files change with targets and with the chunks of eager files only.
LEMMA DoneSame ==
  ASSUME target' = target, stored' \cap EagerItems = stored \cap EagerItems
  PROVE  Done' = Done
<1>1. ASSUME NEW f \in Files PROVE Installed(f)' <=> Installed(f)
  BY EagerFacts DEF Installed
<1> QED
  BY <1>1 DEF Done

LEMMA DoneMore ==
  ASSUME NEW f \in Files, KeepsData, \A g \in Files \ {f} : Installed(g)' => Installed(g)
  PROVE  Done' = Done \/ (f \notin Done /\ Done' = Done \cup {f})
<1>1. \A g \in Files : Installed(g) => Installed(g)'
  BY InstalledStays
<1> QED
  BY <1>1 DEF Done

ContractStep ==
  \/ IC!Control
  \/ \E f \in Files : IC!Deliver(f)
  \/ \E r \in {"ok", "cancelled", "failed", "incomplete"} : IC!Return(r)
  \/ UNCHANGED <<state, Done, result>>

LEMMA HandleContract == ASSUME UNCHANGED vars \/ Handle PROVE ContractStep
<1> USE DEF vars, handleVars, mainVars, workerVars, dataVars, doneVars, coordVars
<1>1. Done' = Done /\ result' = result
  BY DoneSame DEF Handle
<1> QED
  BY <1>1 DEF Handle, PG!Pause, PG!Resume, PG!Cancel, ContractStep, IC!Control, Done

LEMMA MainContract == ASSUME IInv, Frame, Main PROVE ContractStep
<1> USE DEF vars, handleVars, mainVars, workerVars, dataVars, doneVars, coordVars
<1>1. Done' = Done /\ state' = state
  <2>1. target' = target /\ stored' \cap EagerItems = stored \cap EagerItems /\ state' = state
    BY DEF Main, Register, RegisterFails, DownloadsEnd, StopAssembly, ReturnCancelled,
           ReturnFirstError, ReturnAssembled
  <2> QED
    BY <2>1, DoneSame
<1>2. CASE Register \/ DownloadsEnd \/ StopAssembly
  BY <1>1, <1>2 DEF Register, DownloadsEnd, StopAssembly, ContractStep
<1>3. CASE RegisterFails \/ ReturnFirstError
  <2>1. IC!Return("failed")
    BY <1>1, <1>3 DEF RegisterFails, ReturnFirstError, IC!Return, Done, Frame, Ended
  <2> QED
    BY <2>1 DEF ContractStep
<1>4. CASE ReturnCancelled
  <2>1. IC!Return("cancelled")
    BY <1>1, <1>4 DEF ReturnCancelled, IC!Return, Done, Frame, Ended
  <2> QED
    BY <2>1 DEF ContractStep
<1>5. CASE ReturnAssembled
  <2>1. result = "none" /\ result' \in {"ok", "failed", "incomplete"}
    BY <1>5 DEF ReturnAssembled, Frame, Ended, IInv, TypeInv, TypeOK
  <2>2. result' = "ok" => Done = Files
    BY <1>1, <1>5, ReturnKeeps, NextType DEF Done, IInv, OkMeansInstalled, Next, Main
  <2>3. IC!Return(result')
    BY <1>1, <2>1, <2>2 DEF IC!Return, Done
  <2> QED
    BY <2>1, <2>3 DEF ContractStep
<1> QED
  BY <1>2, <1>3, <1>4, <1>5 DEF Main

LEMMA WorkerContract ==
  ASSUME IInv, Frame, NEW w \in Workers, SpawnWorker(w) \/ Worker(w) PROVE ContractStep
<1> USE DEF vars, handleVars, mainVars, workerVars, dataVars, doneVars, coordVars
<1>1. CASE Fetch(w)
  <2> DEFINE c == item[w]
  <2>1. /\ target' = target /\ stored' = stored \cup {c}
        /\ state' = state /\ result' = result /\ pc[w] = "fetch"
    BY <1>1 DEF Fetch
  <2>2. result = "none" /\ c \in Items
    BY <2>1 DEF Frame, Ended, Live, IInv, TypeInv, TypeOK, WorkerItems, Busy
  <2>3. CASE c \notin EagerItems
    <3>1. Done' = Done
      BY <2>1, <2>3, DoneSame
    <3> QED
      BY <2>1, <3>1 DEF ContractStep
  <2>4. CASE c \in EagerItems
    <3>1. PICK d \in Downloads : FileOf[d] \in EagerFiles /\ NameOf[d] = c
      BY <2>4 DEF EagerItems
    <3>2. FileOf[d] \in Files /\ d \in SlotsOf(FileOf[d])
      BY ManifestType DEF SlotsOf
    <3>3. Uses(c) = {d}
      BY <3>1, <3>2 DEF EagerFiles
    <3>4. ASSUME NEW g \in Files \ {FileOf[d]}, Installed(g)' PROVE Installed(g)
      <4>1. CASE g \in EagerFiles
        <5>1. \A s \in SlotsOf(g) : s \in Downloads /\ NameOf[s] # c
          BY <3>3, <4>1, EagerFacts DEF Uses, SlotsOf
        <5> QED
          BY <2>1, <3>4, <5>1 DEF Installed
      <4>2. CASE g \notin EagerFiles
        BY <2>1, <3>4, <4>2 DEF Installed
      <4> QED
        BY <4>1, <4>2
    <3>5. KeepsData
      BY <2>1 DEF KeepsData
    <3>6. Done' = Done \/ (FileOf[d] \notin Done /\ Done' = Done \cup {FileOf[d]})
      BY <3>2, <3>4, <3>5, DoneMore
    <3>7. CASE Done' = Done
      BY <2>1, <3>7 DEF ContractStep
    <3>8. CASE FileOf[d] \notin Done /\ Done' = Done \cup {FileOf[d]}
      <4>1. IC!Deliver(FileOf[d])
        BY <2>1, <2>2, <3>8 DEF IC!Deliver, Done
      <4> QED
        BY <3>2, <4>1 DEF ContractStep
    <3> QED
      BY <3>6, <3>7, <3>8
  <2> QED
    BY <2>3, <2>4
<1>2. CASE ~Fetch(w)
  <2>1. target' = target /\ stored' = stored /\ state' = state /\ result' = result
    BY <1>2 DEF SpawnWorker, Worker, Quit, Take, Pass, Refuse, FetchCancelled, FetchFails,
                EndItem, NextItem, Notify, PG!Ask, PG!Pass, PG!Refuse
  <2> QED
    BY <2>1, DoneSame DEF ContractStep
<1> QED
  BY <1>1, <1>2

LEMMA TaskContract ==
  ASSUME IInv, Frame, NEW f \in Files, Task(f) PROVE ContractStep
<1> USE DEF vars, handleVars, mainVars, workerVars, dataVars, doneVars, coordVars
<1>1. state' = state /\ result' = result
  BY DEF Task, ClaimSkip, Claim, ReadChunk, Release, AssemblyFails, Rename, EndTask
<1>2. CASE Rename(f)
  <2>1. task[f] = "reading" /\ target' = [target EXCEPT ![f] = "new"] /\ stored' = stored
    BY <1>2 DEF Rename
  <2>2. target \in [Files -> {"stale", "new"}]
    BY DEF IInv, TypeInv, TypeOK
  <2>3. result \in {"none", "failed"}
    BY <2>1 DEF Frame, Ended, InJoinSet, IInv, TypeInv, TypeOK
  <2>4. KeepsData
    BY <2>1, <2>2 DEF KeepsData
  <2>5. \A g \in Files \ {f} : Installed(g)' => Installed(g)
    BY <2>1, <2>2 DEF Installed
  <2>6. Done' = Done \/ (f \notin Done /\ Done' = Done \cup {f})
    BY <2>4, <2>5, DoneMore
  <2>7. f \notin Done /\ Done' = Done \cup {f} => IC!Deliver(f)
    BY <1>1, <2>3 DEF IC!Deliver, Done
  <2> QED
    BY <1>1, <2>6, <2>7 DEF ContractStep
<1>3. CASE ~Rename(f)
  <2>1. target' = target /\ stored' \cap EagerItems = stored \cap EagerItems
    BY <1>3 DEF Task, ClaimSkip, Claim, ReadChunk, Release, AssemblyFails, EndTask
  <2> QED
    BY <1>1, <2>1, DoneSame DEF ContractStep
<1> QED
  BY <1>2, <1>3

LEMMA CoordinatorContract == ASSUME Coordinator PROVE ContractStep
<1> USE DEF handleVars, mainVars, workerVars, dataVars, doneVars, coordVars
<1>1. CoordFrame
  BY DEF Coordinator, EndSpin, EndFill, NothingToJoin, SelectCancelled, SelectClosed, EndDrain,
         Fill, TryJoin, SelectMessage, SelectJoin, Drain, Spawn
<1>2. target' = target /\ stored' = stored /\ state' = state /\ result' = result
  BY <1>1 DEF CoordFrame
<1> QED
  BY <1>2, DoneSame DEF ContractStep

(***************************************************************************)
(* Every behaviour of the pipeline is one of InstallContract, without its  *)
(* promise to return: whatever fails and whenever, files become new one by *)
(* one, an Ok is given for all of them, and nothing changes after a return *)
(* but that of a first error.                                              *)
(***************************************************************************)
THEOREM PipelineImplementsContract == Spec => IC!SafeSpec
<1>1. Init => IC!Init
  BY DEF Init, PG!Init, IC!Init
<1>2. IInv /\ Frame /\ [Next]_vars => ContractStep
  BY HandleContract, MainContract, WorkerContract, TaskContract, CoordinatorContract DEF Next
<1>3. ContractStep => [IC!Next]_(IC!vars)
  BY DEF ContractStep, IC!Next, IC!vars, Done
<1> QED
  BY <1>1, <1>2, <1>3, FrameHolds, PTL DEF Spec, IC!SafeSpec
-----------------------------------------------------------------------------
(***************************************************************************)
(* The reference counts.  A file that is valid already releases the names  *)
(* it only reuses as well, so the count of such a name is not exact if it  *)
(* is downloaded for another file; those of all other names are.           *)
(***************************************************************************)
Disturbed == {c \in Items : \E s \in OldSlots : FileOf[s] \in Valid /\ NameOf[s] = c}

OldNamesApart == \A s \in OldSlots : FileOf[s] \in Valid => NameOf[s] \notin Items

Unreleased(c) == {s \in Uses(c) : slot[s] # "released"}

RefsExact == ready => \A c \in Chunks \ Disturbed : refs[c] = Cardinality(Unreleased(c))

\* Completed files have no task; only a valid file skips its assembly.
Ways ==
  /\ \A f \in Completed : task[f] = "none" /\ f \notin chan
  /\ \A f \in Files : (task[f] \in {"none", "queued"} /\ target[f] = "new") =>
                        f \in Valid \cup Completed
  /\ \A s \in Slots \ Downloads : slot[s] # "none" => FileOf[s] \in Valid

\* A task releases its slots at its end, and one that ends well all of them.
Emptied ==
  /\ \A s \in Slots : slot[s] = "released" => task[FileOf[s]] \notin {"none", "queued", "reading"}
  /\ \A f \in Files :
       /\ task[f] = "drop_ok" => \A s \in SlotsOf(f) \cap Downloads : slot[s] \in {"held", "released"}
       /\ (task[f] \in {"ok", "joined"} /\ flags[f]) =>
            \A s \in SlotsOf(f) \cap Downloads : slot[s] = "released"
       /\ task[f] = "err" => ~flags[f]
       /\ (task[f] = "none" /\ flags[f]) => f \in EagerFiles \cup Completed

\* A chunk file is there for those who still read it and gone after the last.
Kept ==
  \A c \in Items \ (EagerItems \cup Disturbed) :
    /\ result # "cancelled" => \A s \in Uses(c) : slot[s] = "ready" => c \in stored
    /\ \A w \in Workers :
         (pc[w] = "notify" /\ item[w] = c /\ \E s \in Uses(c) : slot[s] = "pending") => c \in stored
    /\ (\A s \in Uses(c) : slot[s] = "released") => c \notin stored

Counts == Ways /\ Emptied /\ RefsExact /\ Kept

LEMMA UsesFacts ==
  /\ \A c : Uses(c) \subseteq Downloads /\ \A s \in Uses(c) : NameOf[s] = c
  /\ \A s \in Downloads : s \in Slots /\ s \in Uses(NameOf[s]) /\ NameOf[s] \in Items
                          /\ FileOf[s] \in Files /\ FileOf[s] \notin Completed
                          /\ s \in SlotsOf(FileOf[s])
  /\ \A c \in Items : Uses(c) # {}
  /\ \A c : c \notin Items => Uses(c) = {}
<1>1. \A c : Uses(c) \subseteq Downloads /\ \A s \in Uses(c) : NameOf[s] = c
  BY DEF Uses
<1>2. ASSUME NEW s \in Downloads
      PROVE  s \in Slots /\ s \in Uses(NameOf[s]) /\ NameOf[s] \in Items
             /\ FileOf[s] \in Files /\ FileOf[s] \notin Completed /\ s \in SlotsOf(FileOf[s])
  BY ManifestType DEF Downloads, Uses, Items, SlotsOf
<1>3. \A c \in Items : Uses(c) # {}
  BY <1>2 DEF Items
<1>4. \A c : c \notin Items => Uses(c) = {}
  BY <1>2, <1>1 DEF Uses
<1> QED
  BY <1>1, <1>2, <1>3, <1>4

LEMMA NoneDisturbed == ASSUME OldNamesApart PROVE Disturbed = {}
BY DEF OldNamesApart, Disturbed

LEMMA ItemsAreNames == Items \subseteq Chunks
BY ManifestType DEF Items, Downloads

LEMMA InitCounts == Init => Counts
<1> SUFFICES ASSUME Init PROVE Counts
  OBVIOUS
<1>1. Ways
  <2>1. \A s \in Slots : slot[s] = "none"
    BY DEF Init
  <2>2. Completed \subseteq Files
    BY ManifestAssumption
  <2> QED
    BY <2>1, <2>2 DEF Init, Ways
<1>2. Emptied
  BY ManifestType DEF Init, Emptied
<1>3. RefsExact
  BY DEF Init, RefsExact
<1>4. Kept
  BY UsesFacts DEF Init, Kept
<1> QED
  BY <1>1, <1>2, <1>3, <1>4 DEF Counts

LEMMA RefsSame ==
  ASSUME RefsExact, ready' => ready, refs' = refs,
         \A s \in Downloads : slot'[s] = "released" <=> slot[s] = "released"
  PROVE  RefsExact'
<1>1. \A c \in Chunks : Unreleased(c)' = Unreleased(c)
  BY UsesFacts DEF Unreleased
<1> QED
  BY <1>1 DEF RefsExact

(***************************************************************************)
(* Most steps touch neither slots nor chunks.                              *)
(***************************************************************************)
Still ==
  /\ UNCHANGED <<slot, refs, stored, target, flags, chan, task, ready>>
  /\ result = "cancelled" => result' = "cancelled"
  /\ \A w \in Workers : pc'[w] = "notify" => pc[w] = "notify" /\ item'[w] = item[w]

LEMMA StillKeeps == ASSUME Counts, Still PROVE Counts'
<1>1. RefsExact'
  BY RefsSame DEF Counts, Still
<1>2. Ways' /\ Emptied'
  BY DEF Counts, Still, Ways, Emptied
<1>3. Kept'
  BY DEF Counts, Still, Kept
<1> QED
  BY <1>1, <1>2, <1>3 DEF Counts

LEMMA StillSteps ==
  ASSUME IInv, Frame,
         \/ UNCHANGED vars \/ Handle
         \/ RegisterFails \/ DownloadsEnd \/ StopAssembly \/ ReturnFirstError \/ ReturnAssembled
         \/ \E w \in Workers : \/ SpawnWorker(w) \/ Quit(w) \/ Take(w) \/ Pass(w) \/ Refuse(w)
                               \/ FetchCancelled(w) \/ FetchFails(w) \/ EndItem(w)
         \/ EndSpin \/ EndFill \/ NothingToJoin \/ SelectCancelled \/ SelectClosed \/ EndDrain
  PROVE  Still
<1> USE DEF Still, vars, handleVars, mainVars, workerVars, dataVars, doneVars, coordVars
<1>1. CASE UNCHANGED vars \/ Handle
  BY <1>1 DEF Handle
<1>2. CASE RegisterFails \/ DownloadsEnd \/ StopAssembly \/ ReturnFirstError \/ ReturnAssembled
  BY <1>2 DEF RegisterFails, DownloadsEnd, StopAssembly, ReturnFirstError, ReturnAssembled,
              Frame, Ended
<1>3. ASSUME NEW w \in Workers,
             \/ SpawnWorker(w) \/ Quit(w) \/ Take(w) \/ Pass(w) \/ Refuse(w)
             \/ FetchCancelled(w) \/ FetchFails(w) \/ EndItem(w)
      PROVE  Still
  BY <1>3 DEF SpawnWorker, Quit, Take, Pass, Refuse, FetchCancelled, FetchFails, EndItem,
              NextItem, IInv, TypeInv, TypeOK
<1>4. CASE EndSpin \/ EndFill \/ NothingToJoin \/ SelectCancelled \/ SelectClosed \/ EndDrain
  BY <1>4 DEF EndSpin, EndFill, NothingToJoin, SelectCancelled, SelectClosed, EndDrain, CoordFrame
<1> QED
  BY <1>1, <1>2, <1>3, <1>4

(***************************************************************************)
(* Registration, the workers and the coordinator.                          *)
(***************************************************************************)
LEMMA RegisterCounts == ASSUME IInv, Frame, Counts, Register PROVE Counts'
<1>1. /\ slot' = [s \in Slots |-> IF s \in Downloads THEN "pending" ELSE "none"]
      /\ refs' = [c \in Chunks |-> Cardinality(Uses(c))]
      /\ chan' = ReadyFiles
      /\ \A w \in Workers : pc'[w] # "notify"
      /\ UNCHANGED <<result, stored, target, flags, task>>
  BY DEF Register, doneVars
<1>2. \A f \in Files : task[f] = "none" /\ (flags[f] <=> f \in Completed)
  BY DEF Register, IInv, BeforeRegister
<1>3. Ways'
  BY <1>1, <1>2 DEF Counts, Ways, ReadyFiles
<1>4. Emptied'
  BY <1>1, <1>2, UsesFacts DEF Emptied
<1>5. RefsExact'
  <2>1. \A c \in Chunks : Unreleased(c)' = Uses(c)
    BY <1>1, UsesFacts DEF Unreleased
  <2> QED
    BY <1>1, <2>1 DEF RefsExact
<1>6. Kept'
  BY <1>1, UsesFacts DEF Kept
<1> QED
  BY <1>3, <1>4, <1>5, <1>6 DEF Counts

LEMMA FetchCounts == ASSUME IInv, Frame, Counts, NEW w \in Workers, Fetch(w) PROVE Counts'
<1>1. /\ pc[w] = "fetch" /\ stored' = stored \cup {item[w]} /\ pc' = [pc EXCEPT ![w] = "notify"]
      /\ item' = item
      /\ UNCHANGED <<slot, refs, target, flags, chan, task, ready, result>>
  BY DEF Fetch, mainVars, doneVars, coordVars
<1>2. item[w] \in Items /\ \A s \in Uses(item[w]) : slot[s] = "pending"
  BY <1>1 DEF IInv, TypeInv, TypeOK, WorkerItems, Busy, Frame, Queueing
<1>3. RefsExact'
  BY <1>1, RefsSame DEF Counts
<1>4. Ways' /\ Emptied'
  BY <1>1 DEF Counts, Ways, Emptied
<1>5. Kept'
  BY <1>1, <1>2, UsesFacts DEF Counts, Kept, IInv, TypeInv, TypeOK
<1> QED
  BY <1>3, <1>4, <1>5 DEF Counts

LEMMA NotifyCounts ==
  ASSUME IInv, Frame, Counts, NEW w \in Workers, NEW s \in Slots, Notify(w, s) PROVE Counts'
<1> DEFINE f == FileOf[s]
<1>1. /\ pc[w] = "notify" /\ NameOf[s] = item[w] /\ slot[s] = "pending"
      /\ slot' = [slot EXCEPT ![s] = "ready"] /\ slot \in [Slots -> SlotStates]
      /\ UNCHANGED <<pc, item, refs, stored, target, task, ready, result>>
  BY DEF Notify, mainVars, workerVars, IInv, TypeInv, TypeOK
<1>2. s \in Downloads
  BY <1>1 DEF IInv, EagerStored
<1>3. task[f] = "none" /\ f \in Files /\ f \notin Completed /\ s \in Uses(item[w])
  BY <1>1, <1>2, WaitsBeforeTask, UsesFacts
<1>4. /\ chan' = chan \/ chan' = chan \cup {f}
      /\ flags' = flags \/ (f \in EagerFiles /\ flags' = [flags EXCEPT ![f] = TRUE])
  BY <1>1, <1>2, EagerFacts DEF Notify, doneVars
<1>5. flags \in [Files -> BOOLEAN] /\ task \in [Files -> TaskSteps]
  BY DEF IInv, TypeInv, TypeOK
<1>6. RefsExact'
  BY <1>1, RefsSame DEF Counts
<1>7. Ways'
  BY <1>1, <1>2, <1>3, <1>4 DEF Counts, Ways
<1>8. Emptied'
  <2>1. \A r \in Slots : slot'[r] = "released" => slot[r] = "released"
    BY <1>1
  <2>2. \A r \in Slots : slot[r] \in {"held", "released"} => slot'[r] = slot[r]
    BY <1>1
  <2> QED
    BY <1>1, <1>3, <1>4, <1>5, <2>1, <2>2, UsesFacts DEF Counts, Emptied
<1>9. Kept'
  BY <1>1, <1>3, UsesFacts DEF Counts, Kept
<1> QED
  BY <1>6, <1>7, <1>8, <1>9 DEF Counts

LEMMA SpawnCounts ==
  ASSUME IInv, Frame, Counts, NEW f \in Files, Fill(f) \/ SelectMessage(f) PROVE Counts'
<1>1. /\ f \in chan /\ chan' = chan \ {f} /\ task' = [task EXCEPT ![f] = "queued"]
      /\ UNCHANGED <<pc, item, slot, refs, stored, target, flags, ready, result>>
  BY DEF Fill, SelectMessage, Spawn, StepTask, CoordFrame, mainVars, workerVars, dataVars, doneVars
<1>2. task[f] = "none" /\ task \in [Files -> TaskSteps]
  BY <1>1 DEF IInv, OneWay, TypeInv, TypeOK
<1>3. RefsExact'
  BY <1>1, RefsSame DEF Counts
<1>4. Ways'
  BY <1>1, <1>2 DEF Counts, Ways
<1>5. Emptied'
  BY <1>1, <1>2, ManifestType DEF Counts, Emptied
<1>6. Kept'
  BY <1>1 DEF Counts, Kept
<1> QED
  BY <1>3, <1>4, <1>5, <1>6 DEF Counts

LEMMA JoinCounts ==
  ASSUME IInv, Frame, Counts, NEW f \in Files, TryJoin(f) \/ SelectJoin(f) \/ Drain(f)
  PROVE  Counts'
<1>1. /\ task[f] \in {"ok", "err"} /\ task' = [task EXCEPT ![f] = "joined"]
      /\ UNCHANGED <<pc, item, slot, refs, stored, target, flags, chan, ready, result>>
  BY DEF TryJoin, SelectJoin, Drain, Finished, StepTask, CoordFrame, mainVars, workerVars,
         dataVars, doneVars
<1>2. task \in [Files -> TaskSteps]
  BY DEF IInv, TypeInv, TypeOK
<1>3. RefsExact'
  BY <1>1, RefsSame DEF Counts
<1>4. Ways'
  BY <1>1, <1>2 DEF Counts, Ways
<1>5. Emptied'
  BY <1>1, <1>2, ManifestType DEF Counts, Emptied
<1>6. Kept'
  BY <1>1 DEF Counts, Kept
<1> QED
  BY <1>3, <1>4, <1>5, <1>6 DEF Counts

LEMMA CancelCounts == ASSUME IInv, Frame, Counts, ReturnCancelled PROVE Counts'
<1>1. /\ stored' = stored \cap EagerItems /\ result' = "cancelled" /\ phase = "cancelling"
      /\ UNCHANGED <<pc, item, slot, refs, target, flags, chan, task, ready>>
  BY DEF ReturnCancelled, workerVars, doneVars, coordVars
<1>2. \A w \in Workers : pc[w] # "notify"
  BY <1>1 DEF Frame, Ended, Live
<1>3. RefsExact'
  BY <1>1, RefsSame DEF Counts
<1>4. Ways' /\ Emptied'
  BY <1>1 DEF Counts, Ways, Emptied
<1>5. Kept'
  BY <1>1, <1>2 DEF Counts, Kept
<1> QED
  BY <1>3, <1>4, <1>5 DEF Counts

(***************************************************************************)
(* The tasks.  Only a release changes a count.                             *)
(***************************************************************************)
LEMMA ClaimSkipCounts == ASSUME IInv, Frame, Counts, NEW f \in Files, ClaimSkip(f) PROVE Counts'
<1>1. /\ task[f] = "queued" /\ task' = [task EXCEPT ![f] = "drop_ok"]
      /\ flags' = [flags EXCEPT ![f] = TRUE]
      /\ slot' = [s \in Slots |-> IF FileOf[s] = f THEN "held" ELSE slot[s]]
      /\ UNCHANGED <<pc, item, refs, stored, target, chan, ready, result>>
  BY DEF ClaimSkip, StepTask, mainVars, workerVars
<1>2. task \in [Files -> TaskSteps] /\ flags \in [Files -> BOOLEAN]
  BY DEF IInv, TypeInv, TypeOK
<1>3. target[f] = "new" /\ f \in Valid
  BY <1>1 DEF ClaimSkip, IInv, OneWay, Counts, Ways
<1>4. \A s \in Slots : FileOf[s] = f => slot[s] \notin {"released", "pending"}
  BY <1>1, WaitsBeforeTask DEF Counts, Emptied
<1>5. \A s \in Slots : /\ slot'[s] = "released" <=> slot[s] = "released"
                       /\ slot'[s] = "ready" => slot[s] = "ready"
                       /\ slot'[s] = "pending" => slot[s] = "pending"
  BY <1>1, <1>4
<1>6. RefsExact'
  BY <1>1, <1>5, RefsSame, UsesFacts DEF Counts
<1>7. Ways'
  BY <1>1, <1>2, <1>3 DEF Counts, Ways
<1>8. Emptied'
  <2>1. \A s \in SlotsOf(f) \cap Downloads : slot'[s] = "held"
    BY <1>1, UsesFacts DEF SlotsOf
  <2>2. \A g \in Files \ {f} : \A s \in SlotsOf(g) \cap Downloads : slot'[s] = slot[s]
    BY <1>1, UsesFacts DEF SlotsOf
  <2>3. \A s \in Slots : slot'[s] = "released" => FileOf[s] # f /\ slot[s] = "released"
    BY <1>1, <1>5
  <2> QED
    BY <1>1, <1>2, <2>1, <2>2, <2>3, ManifestType DEF Counts, Emptied
<1>9. Kept'
  <2>1. \A c : Uses(c) \subseteq Slots
    BY ManifestType
  <2> QED
    BY <1>1, <1>5, <2>1 DEF Counts, Kept
<1> QED
  BY <1>6, <1>7, <1>8, <1>9 DEF Counts

LEMMA AssembleCounts ==
  ASSUME IInv, Frame, Counts, NEW f \in Files, Claim(f) \/ AssemblyFails(f) \/ Rename(f)
  PROVE  Counts'
<1>1. /\ UNCHANGED <<pc, item, slot, refs, stored, chan, ready, result>>
      /\ \/ /\ task[f] = "queued" /\ task' = [task EXCEPT ![f] = "reading"]
            /\ flags' = [flags EXCEPT ![f] = TRUE] /\ target' = target
         \/ /\ task[f] = "reading" /\ task' = [task EXCEPT ![f] = "drop_err"]
            /\ flags' = flags /\ target' = target
         \/ /\ task[f] = "reading" /\ task' = [task EXCEPT ![f] = "drop_ok"]
            /\ flags' = flags /\ target' = [target EXCEPT ![f] = "new"]
            /\ \A s \in SlotsOf(f) : slot[s] # "ready"
  BY DEF Claim, AssemblyFails, Rename, StepTask, mainVars, workerVars, dataVars, doneVars
<1>2. /\ task \in [Files -> TaskSteps] /\ flags \in [Files -> BOOLEAN]
      /\ target \in [Files -> {"stale", "new"}] /\ slot \in [Slots -> SlotStates]
  BY DEF IInv, TypeInv, TypeOK
<1>3. RefsExact'
  BY <1>1, RefsSame DEF Counts
<1>4. Ways'
  <2>1. f \notin Completed /\ task'[f] \notin {"none", "queued"}
    BY <1>1, <1>2 DEF Counts, Ways
  <2>2. \A g \in Files \ {f} : task'[g] = task[g] /\ target'[g] = target[g]
    BY <1>1, <1>2
  <2>3. Completed \subseteq Files
    BY ManifestAssumption
  <2> QED
    BY <1>1, <2>1, <2>2, <2>3 DEF Counts, Ways
<1>5. Emptied'
  <2>1. ASSUME \A s \in SlotsOf(f) : slot[s] # "ready", task[f] = "reading"
        PROVE  \A s \in SlotsOf(f) \cap Downloads : slot[s] \in {"held", "released"}
    <3>1. ASSUME NEW s \in SlotsOf(f) \cap Downloads PROVE slot[s] \notin {"none", "pending"}
      <4>1. s \in Slots /\ FileOf[s] = f
        BY DEF SlotsOf
      <4>2. slot[s] # "none"
        BY <2>1 DEF IInv, EagerStored
      <4>3. slot[s] # "pending"
        BY <2>1, <4>1, WaitsBeforeTask
      <4> QED
        BY <4>2, <4>3
    <3> QED
      BY <1>2, <2>1, <3>1, UsesFacts DEF SlotStates
  <2> QED
    BY <1>1, <1>2, <2>1, ManifestType DEF Counts, Emptied
<1>6. Kept'
  BY <1>1 DEF Counts, Kept
<1> QED
  BY <1>3, <1>4, <1>5, <1>6 DEF Counts

LEMMA ReadCounts ==
  ASSUME IInv, Frame, Counts, NEW f \in Files, NEW s \in SlotsOf(f), ReadChunk(s)
  PROVE  Counts'
<1>1. /\ task[f] = "reading" /\ slot[s] = "ready" /\ slot' = [slot EXCEPT ![s] = "held"]
      /\ UNCHANGED <<pc, item, refs, stored, target, flags, chan, task, ready, result>>
  BY DEF ReadChunk, SlotsOf, mainVars, workerVars, doneVars, coordVars
<1>2. s \in Slots /\ FileOf[s] = f /\ slot \in [Slots -> SlotStates]
  BY DEF SlotsOf, IInv, TypeInv, TypeOK
<1>3. \A r \in Slots : /\ slot'[r] = "released" <=> slot[r] = "released"
                       /\ slot'[r] \in {"none", "ready", "pending"} => slot'[r] = slot[r]
                       /\ slot[r] \in {"none", "held"} => slot'[r] = slot[r]
  BY <1>1, <1>2
<1>4. RefsExact'
  BY <1>1, <1>3, RefsSame, UsesFacts DEF Counts
<1>5. Ways'
  BY <1>1, <1>3 DEF Counts, Ways
<1>6. Emptied'
  BY <1>1, <1>3, ManifestType DEF Counts, Emptied
<1>7. Kept'
  <2>1. \A c : Uses(c) \subseteq Slots
    BY ManifestType
  <2> QED
    BY <1>1, <1>3, <2>1 DEF Counts, Kept
<1> QED
  BY <1>4, <1>5, <1>6, <1>7 DEF Counts

LEMMA ReleaseCounts ==
  ASSUME IInv, Frame, Counts, NEW f \in Files, NEW s \in SlotsOf(f), Release(s)
  PROVE  Counts'
<1> DEFINE c == NameOf[s]
<1>1. /\ task[f] \in {"drop_ok", "drop_err"} /\ slot[s] = "held"
      /\ slot' = [slot EXCEPT ![s] = "released"]
      /\ refs' = [refs EXCEPT ![c] = IF c \in Items THEN refs[c] - 1 ELSE refs[c]]
      /\ stored' = IF refs[c] = 1 THEN stored \ ({c} \ EagerItems) ELSE stored
      /\ UNCHANGED <<pc, item, target, flags, chan, task, ready, result>>
  BY DEF Release, SlotsOf, mainVars, workerVars, doneVars, coordVars
<1>2. s \in Slots /\ FileOf[s] = f /\ c \in Chunks /\ slot \in [Slots -> SlotStates]
      /\ refs \in [Chunks -> Int]
  BY ManifestType DEF SlotsOf, IInv, TypeInv, TypeOK
<1>3. ready
  BY <1>1 DEF Frame, Unregistered
<1>4. Ways'
  BY <1>1, <1>2 DEF Counts, Ways
<1>5. Emptied'
  <2>1. \A g \in Files : \A r \in SlotsOf(g) \cap Downloads :
          /\ slot[r] \in {"held", "released"} => slot'[r] \in {"held", "released"}
          /\ slot[r] = "released" => slot'[r] = "released"
    BY <1>1, <1>2
  <2>2. \A r \in Slots : slot'[r] = "released" => r = s \/ slot[r] = "released"
    BY <1>1, <1>2
  <2> QED
    BY <1>1, <1>2, <2>1, <2>2 DEF Counts, Emptied
<1>6. \A d \in Chunks \ {c} :
        /\ refs'[d] = refs[d] /\ (d \in stored' <=> d \in stored)
        /\ \A r \in Uses(d) : slot'[r] = slot[r]
  BY <1>1, <1>2, ManifestType, UsesFacts
<1>7. \A d \in Chunks \ {c} : Unreleased(d)' = Unreleased(d)
  BY <1>6 DEF Unreleased
\* A name that is only reused is not counted, or is disturbed.
<1>8. CASE s \notin Downloads
  <2>1. f \in Valid
    BY <1>1, <1>2, <1>8 DEF Counts, Ways
  <2>2. s \in OldSlots
    BY <1>2, <1>8, <2>1, SessionAssumption DEF Downloads
  <2>3. c \in Items => c \in Disturbed
    BY <1>2, <2>1, <2>2 DEF Disturbed
  <2>4. c \notin Items => refs' = refs
    BY <1>1, <1>2
  <2>5. \A r \in Uses(c) : slot'[r] = slot[r]
    BY <1>1, <1>2, <1>8, ManifestType, UsesFacts
  <2>6. Unreleased(c)' = Unreleased(c)
    BY <2>5 DEF Unreleased
  <2>7. RefsExact'
    BY <1>1, <1>3, <1>6, <1>7, <2>3, <2>4, <2>6 DEF Counts, RefsExact
  <2>8. Kept'
    BY <1>1, <1>6, <2>3, ItemsAreNames DEF Counts, Kept
  <2> QED
    BY <1>4, <1>5, <2>7, <2>8 DEF Counts
<1>9. CASE c \in Disturbed
  <2>1. RefsExact'
    BY <1>1, <1>3, <1>6, <1>7, <1>9 DEF Counts, RefsExact
  <2>2. Kept'
    BY <1>1, <1>6, <1>9, ItemsAreNames DEF Counts, Kept
  <2> QED
    BY <1>4, <1>5, <2>1, <2>2 DEF Counts
<1>10. CASE s \in Downloads /\ c \notin Disturbed
  <2>1. c \in Items /\ s \in Uses(c) /\ s \in Unreleased(c)
    BY <1>1, <1>10, UsesFacts DEF Unreleased
  <2>2. Unreleased(c)' = Unreleased(c) \ {s}
    BY <1>1, <1>2, ManifestType DEF Unreleased
  <2>3. IsFiniteSet(Unreleased(c)) /\ refs[c] = Cardinality(Unreleased(c))
    <3>1. Unreleased(c) \in SUBSET Slots
      BY ManifestType DEF Unreleased
    <3> QED
      BY <1>2, <1>3, <1>10, <3>1, CountType DEF Counts, RefsExact
  <2>4. /\ IsFiniteSet(Unreleased(c)')
        /\ Cardinality(Unreleased(c)') = refs[c] - 1
    BY <2>1, <2>2, <2>3, FS_RemoveElement
  <2>5. RefsExact'
    BY <1>1, <1>2, <1>3, <1>6, <1>7, <2>1, <2>4 DEF Counts, RefsExact
  <2>6. refs[c] = 1 <=> Unreleased(c)' = {}
    BY <1>2, <2>4, FS_EmptySet
  <2>7. Kept'
    <3> SUFFICES ASSUME NEW d \in Items \ (EagerItems \cup Disturbed)
                 PROVE  /\ result' # "cancelled" => \A r \in Uses(d) : slot'[r] = "ready" => d \in stored'
                        /\ \A w \in Workers :
                             (pc'[w] = "notify" /\ item'[w] = d /\ \E r \in Uses(d) : slot'[r] = "pending")
                                => d \in stored'
                        /\ (\A r \in Uses(d) : slot'[r] = "released") => d \notin stored'
      BY DEF Kept
    <3>1. CASE d = c
      <4>1. CASE Unreleased(c)' = {}
        <5>1. \A r \in Uses(d) : slot'[r] = "released"
          BY <3>1, <4>1 DEF Unreleased
        <5>2. d \notin stored'
          BY <1>1, <2>6, <3>1, <4>1
        <5> QED
          BY <5>1, <5>2
      <4>2. CASE Unreleased(c)' # {}
        <5>1. stored' = stored
          BY <1>1, <2>6, <4>2
        <5>2. ~ \A r \in Uses(d) : slot'[r] = "released"
          BY <3>1, <4>2 DEF Unreleased
        <5>3. \A r \in Uses(d) : slot'[r] \in {"ready", "pending"} => slot[r] = slot'[r]
          BY <1>1, <1>2, ManifestType
        <5> QED
          BY <1>1, <5>1, <5>2, <5>3 DEF Counts, Kept
      <4> QED
        BY <4>1, <4>2
    <3>2. CASE d # c
      BY <1>1, <1>6, <3>2, ItemsAreNames DEF Counts, Kept
    <3> QED
      BY <3>1, <3>2
  <2> QED
    BY <1>4, <1>5, <2>5, <2>7 DEF Counts
<1> QED
  BY <1>8, <1>9, <1>10

LEMMA EndTaskCounts == ASSUME IInv, Frame, Counts, NEW f \in Files, EndTask(f) PROVE Counts'
<1>1. /\ UNCHANGED <<pc, item, slot, refs, stored, target, chan, ready, result>>
      /\ \A s \in SlotsOf(f) : slot[s] # "held"
      /\ \/ task[f] = "drop_ok" /\ task' = [task EXCEPT ![f] = "ok"] /\ flags' = flags
         \/ /\ task[f] = "drop_err" /\ task' = [task EXCEPT ![f] = "err"]
            /\ flags' = [flags EXCEPT ![f] = FALSE]
  BY DEF EndTask, StepTask, mainVars, workerVars, dataVars
<1>2. task \in [Files -> TaskSteps] /\ flags \in [Files -> BOOLEAN]
  BY DEF IInv, TypeInv, TypeOK
<1>3. RefsExact'
  BY <1>1, RefsSame DEF Counts
<1>4. Ways'
  <2>1. f \notin Completed /\ task'[f] \notin {"none", "queued"}
    BY <1>1, <1>2 DEF Counts, Ways
  <2>2. \A g \in Files \ {f} : task'[g] = task[g]
    BY <1>1, <1>2
  <2>3. Completed \subseteq Files
    BY ManifestAssumption
  <2> QED
    BY <1>1, <2>1, <2>2, <2>3 DEF Counts, Ways
<1>5. Emptied'
  BY <1>1, <1>2, ManifestType DEF Counts, Emptied
<1>6. Kept'
  BY <1>1 DEF Counts, Kept
<1> QED
  BY <1>3, <1>4, <1>5, <1>6 DEF Counts

LEMMA NextCounts == IInv /\ Frame /\ Counts /\ [Next]_vars => Counts'
<1> SUFFICES ASSUME IInv, Frame, Counts, [Next]_vars PROVE Counts'
  OBVIOUS
<1>1. CASE Still
  BY <1>1, StillKeeps
<1>2. CASE Main
  BY <1>1, <1>2, StillSteps, RegisterCounts, CancelCounts DEF Main
<1>3. ASSUME NEW w \in Workers, SpawnWorker(w) \/ Worker(w) PROVE Counts'
  <2>1. ASSUME NEW s \in Slots, Notify(w, s) PROVE Counts'
    BY <2>1, NotifyCounts
  <2> QED
    BY <1>1, <1>3, <2>1, StillSteps, FetchCounts DEF Worker
<1>4. ASSUME NEW f \in Files, Task(f) PROVE Counts'
  <2>1. ASSUME NEW s \in SlotsOf(f), ReadChunk(s) \/ Release(s) PROVE Counts'
    BY <2>1, ReadCounts, ReleaseCounts
  <2> QED
    BY <1>4, <2>1, ClaimSkipCounts, AssembleCounts, EndTaskCounts DEF Task
<1>5. CASE Coordinator
  <2>1. ASSUME NEW f \in Files,
               Fill(f) \/ SelectMessage(f) \/ TryJoin(f) \/ SelectJoin(f) \/ Drain(f)
        PROVE  Counts'
    BY <2>1, SpawnCounts, JoinCounts
  <2> QED
    BY <1>1, <1>5, <2>1, StillSteps DEF Coordinator
<1>6. CASE UNCHANGED vars \/ Handle
  BY <1>1, <1>6, StillSteps
<1> QED
  BY <1>2, <1>3, <1>4, <1>5, <1>6 DEF Next

LEMMA CountsHold == Spec => [](IInv /\ Frame /\ Counts)
BY InitIInv, NextIInv, InitFrame, NextFrame, InitCounts, NextCounts, PTL DEF Spec

(***************************************************************************)
(* The three counters are exact, whatever the interleaving.                *)
(***************************************************************************)
THEOREM CountersExactHolds == ASSUME OldNamesApart PROVE Spec => []CountersExact
<1>1. IInv /\ Counts => CountersExact
  BY NoneDisturbed
     DEF IInv, Counts, CountersExact, SettledAreCounted, Settled, RefsExact, Unreleased, PendingExact
<1> QED
  BY <1>1, CountsHold, PTL

\* What a file has to read is there, unless its name is disturbed.
LEMMA ReadersFind ==
  ASSUME IInv, Frame, Counts, NEW s \in Downloads, NameOf[s] \notin Disturbed,
         task[FileOf[s]] \in {"queued", "reading"}, slot[s] \in {"pending", "ready"}
  PROVE  NameOf[s] \in stored
<1>1. s \in Slots /\ s \in Uses(NameOf[s]) /\ NameOf[s] \in Items /\ FileOf[s] \in Files
  BY UsesFacts
<1>2. slot[s] = "ready"
  BY <1>1, WaitsBeforeTask
<1>3. FileOf[s] \in InJoinSet
  BY <1>1 DEF InJoinSet
<1>4. result # "cancelled"
  BY <1>3 DEF Frame, Ended
<1>5. CASE NameOf[s] \in EagerItems
  BY <1>2, <1>5, EagerFacts DEF IInv, EagerStored
<1>6. CASE NameOf[s] \notin EagerItems
  BY <1>1, <1>2, <1>4, <1>6 DEF Counts, Kept
<1> QED
  BY <1>5, <1>6

(***************************************************************************)
(* What a file still has to read stays until it has read it.               *)
(***************************************************************************)
THEOREM ChunkKeptHolds == ASSUME OldNamesApart PROVE Spec => []ChunkKept
<1>1. IInv /\ Frame /\ Counts => ChunkKept
  BY ReadersFind, NoneDisturbed DEF ChunkKept
<1> QED
  BY <1>1, CountsHold, PTL

(***************************************************************************)
(* If as many files are counted as there are, all are settled, and then    *)
(* every use of a chunk file was released.                                 *)
(***************************************************************************)
LEMMA AllSettled ==
  ASSUME IInv, assembled = Cardinality(Files)
  PROVE  \A f \in Files : Settled(f)
<1>1. {f \in Files : Settled(f)} \in SUBSET Files
  OBVIOUS
<1>2. Cardinality({f \in Files : Settled(f)}) = Cardinality(Files)
  BY DEF IInv, SettledAreCounted
<1>3. {f \in Files : Settled(f)} = Files
  BY <1>1, <1>2, FS_Subset, ManifestAssumption
<1> QED
  BY <1>3

LEMMA SettledLeavesNoChunk ==
  ASSUME IInv, Counts, \A f \in Files : Settled(f)
  PROVE  stored \cap (Items \ (EagerItems \cup Disturbed)) = {}
<1> SUFFICES ASSUME NEW c \in Items \ (EagerItems \cup Disturbed) PROVE c \notin stored
  OBVIOUS
<1>1. ASSUME NEW s \in Uses(c) PROVE slot[s] = "released"
  <2> DEFINE f == FileOf[s]
  <2>1. f \in Files /\ f \notin Completed /\ s \in SlotsOf(f) \cap Downloads /\ NameOf[s] = c
    BY UsesFacts
  <2>2. f \notin EagerFiles
    BY <2>1, EagerFacts
  <2>3. flags[f] /\ f \notin Running
    BY <2>1 DEF Settled
  <2>4. task[f] \in {"ok", "joined"}
    BY <2>1, <2>2, <2>3 DEF Counts, Emptied, Running, InJoinSet, Finished
  <2> QED
    BY <2>1, <2>3, <2>4 DEF Counts, Emptied
<1> QED
  BY <1>1 DEF Counts, Kept

\* An Ok is given by ReturnAssembled alone, and chunks are added by Fetch alone.
LEMMA OkStep ==
  ASSUME IInv, Frame, [Next]_vars, result' = "ok"
  PROVE  /\ result # "ok" => ReturnAssembled
         /\ result = "ok" => stored' \subseteq stored
<1> USE DEF vars, handleVars, mainVars, workerVars, dataVars, doneVars, coordVars
<1>1. CASE UNCHANGED vars \/ Handle
  BY <1>1 DEF Handle
<1>2. CASE Main
  BY <1>2 DEF Main, Register, RegisterFails, DownloadsEnd, StopAssembly, ReturnCancelled,
              ReturnFirstError, ReturnAssembled, Frame, Ended
<1>3. ASSUME NEW w \in Workers, SpawnWorker(w) \/ Worker(w)
      PROVE  result' = result /\ (result = "ok" => stored' \subseteq stored)
  <2>1. CASE Fetch(w)
    BY <2>1 DEF Fetch, Frame, Ended, Live
  <2>2. CASE ~Fetch(w)
    BY <1>3, <2>2 DEF SpawnWorker, Worker, Quit, Take, Pass, Refuse, FetchCancelled,
                      FetchFails, EndItem, NextItem, Notify
  <2> QED
    BY <2>1, <2>2
<1>4. ASSUME NEW f \in Files, Task(f) PROVE result' = result /\ stored' \subseteq stored
  BY <1>4 DEF Task, ClaimSkip, Claim, ReadChunk, Release, AssemblyFails, Rename, EndTask
<1>5. CASE Coordinator
  BY <1>5 DEF Coordinator, EndSpin, EndFill, NothingToJoin, SelectCancelled, SelectClosed,
              EndDrain, Fill, TryJoin, SelectMessage, SelectJoin, Drain, Spawn, CoordFrame
<1> QED
  BY <1>1, <1>2, <1>3, <1>4, <1>5 DEF Next

\* What OkLeavesNoChunk says of the other names.
LeavesOnlyDisturbed == result = "ok" => stored \cap (Items \ (EagerItems \cup Disturbed)) = {}

LEMMA LeavesHold == Spec => []LeavesOnlyDisturbed
<1> DEFINE Inv == IInv /\ Frame /\ Counts
<1>1. Init => LeavesOnlyDisturbed
  BY DEF Init, LeavesOnlyDisturbed
<1>2. Inv /\ LeavesOnlyDisturbed /\ [Next]_vars => LeavesOnlyDisturbed'
  <2> SUFFICES ASSUME Inv, LeavesOnlyDisturbed, [Next]_vars, result' = "ok"
               PROVE  stored' \cap (Items \ (EagerItems \cup Disturbed)) = {}
    BY DEF LeavesOnlyDisturbed
  <2>1. CASE result = "ok"
    BY <2>1, OkStep DEF LeavesOnlyDisturbed
  <2>2. CASE result # "ok"
    <3>1. ReturnAssembled
      BY <2>2, OkStep
    <3>2. assembled = Cardinality(Files) /\ stored' = stored
      BY <3>1 DEF ReturnAssembled, dataVars
    <3> QED
      BY <3>2, AllSettled, SettledLeavesNoChunk
  <2> QED
    BY <2>1, <2>2
<1> QED
  BY <1>1, <1>2, CountsHold, PTL DEF Spec

(***************************************************************************)
(* Chunks do not outlive their use: when install() returned Ok no chunk    *)
(* file that an item of this session used is left.                         *)
(***************************************************************************)
THEOREM OkLeavesNoChunkHolds == ASSUME OldNamesApart PROVE Spec => []OkLeavesNoChunk
<1>1. LeavesOnlyDisturbed => OkLeavesNoChunk
  BY NoneDisturbed DEF LeavesOnlyDisturbed, OkLeavesNoChunk
<1> QED
  BY <1>1, LeavesHold, PTL

(***************************************************************************)
(* For the names that no valid file gives back by mistake: the count is    *)
(* exact, the chunk is there for whoever still has to read it, and it is   *)
(* gone after an Ok unless it is one of an eager item.                     *)
(***************************************************************************)
HarmIsContained ==
  /\ ready => \A c \in Chunks \ Disturbed :
                refs[c] = Cardinality({s \in Uses(c) : slot[s] # "released"})
  /\ \A s \in Downloads :
       (/\ NameOf[s] \notin Disturbed
        /\ task[FileOf[s]] \in {"queued", "reading"} /\ slot[s] \in {"pending", "ready"})
         => NameOf[s] \in stored
  /\ LeavesOnlyDisturbed

(***************************************************************************)
(* For every manifest, without a hypothesis: a valid file that gives back  *)
(* a name it only reuses harms that name alone.                            *)
(***************************************************************************)
THEOREM HarmIsContainedHolds == Spec => []HarmIsContained
<1>1. IInv /\ Frame /\ Counts /\ LeavesOnlyDisturbed => HarmIsContained
  BY ReadersFind DEF HarmIsContained, Counts, RefsExact, Unreleased
<1> QED
  BY <1>1, CountsHold, LeavesHold, PTL
=============================================================================
