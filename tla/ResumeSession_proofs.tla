------------------------ MODULE ResumeSession_proofs ------------------------
(***************************************************************************)
(* Proofs about ResumeSession, for every manifest and any number of        *)
(* sessions, saves and crashes, provided that sizes tell versions apart,   *)
(* and about DownloadHandle, for any sets of workers and controllers.      *)
(***************************************************************************)
EXTENDS ResumeSession, DownloadHandle, TLAPS

\* No file with chunks has the size of its old version, and none that is laid
\* out in place is shorter than it.  (UpdateSession has what happens otherwise.)
SizesDiffer ==
  \A f \in Files :
    ~Chunkless(f) => OldSize[f] # "same" /\ (Pure(f) => OldSize[f] # "more")

SlotsIn(f) == {s \in Slots : FileOf[s] = f}

\* The data of slot s is where it belongs.
There(s) == Holds(s) \/ target[FileOf[s]] = "new"

\* What the memory says of a slot and of a file, exceptions included.
Known(s) == There(s) \/ FileOf[s] \in struck
Told(f) == Installed(f) \/ f \in struck \cup unseen

Shape ==
  /\ target \in [Files -> {"missing", "old", "laid", "tail", "new"}]
  /\ bits \subseteq Slots /\ disk_bits \subseteq Slots
  /\ step \in [Chunks -> Steps]
  /\ skipped \subseteq flags /\ flags \subseteq Files

\* Files are laid out at their exact size, and only those without old chunks.
Layout == \A f \in Files : target[f] # "tail" /\ (target[f] = "laid" => Pure(f))

\* The bitmap file is right but for files a scan deleted since it was written.
Disk == \A s \in disk_bits : There(s) \/ FileOf[s] \in stale

\* What a session has done for an item.
Work ==
  \A c \in Chunks :
    /\ step[c] # "none" => c \in Items
    /\ step[c] = "written" => c \in EagerItems
    /\ step[c] = "fetched" => c \notin EagerItems
    /\ (c \in EagerItems /\ step[c] \in {"written", "save", "bits", "done"}) =>
         \A s \in Uses(c) : Known(s)

\* Where the session is.
Course ==
  /\ phase = "idle" => \A c \in Chunks : step[c] = "none"
  /\ phase # "idle" => result = "none"
  /\ phase \notin {"idle", "run"} => \A c \in Chunks : step[c] \in {"none", "done", "failed"}
  /\ phase = "ok" => flags = Files

IInv == Shape /\ Layout /\ MemoryIsRight /\ Disk /\ Work /\ Course /\ OkMeansInstalled

(***************************************************************************)
(* What the manifest says.                                                 *)
(***************************************************************************)
LEMMA SameSlots == ASSUME NEW f, NEW done PROVE M(done)!SlotsOf(f) = SlotsIn(f)
BY DEF SlotsIn, M!SlotsOf

LEMMA InstalledIs ==
  ASSUME NEW f \in Files
  PROVE  /\ Installed(f) <=> target[f] = "new" \/ (target[f] = "laid" /\ \A s \in SlotsIn(f) : Holds(s))
         /\ Installed(f)' <=> target'[f] = "new" \/ (target'[f] = "laid" /\ \A s \in SlotsIn(f) : Holds(s)')
BY SameSlots DEF Installed

LEMMA SlotsHaveFiles ==
  ASSUME NEW s \in Slots PROVE FileOf[s] \in Files /\ NameOf[s] \in Chunks /\ s \in SlotsIn(FileOf[s])
BY ParametersAssumption DEF SlotsIn

\* The items of a session, as long as its skipped files are the same.
LEMMA SameItems ==
  ASSUME skipped' = skipped
  PROVE  /\ Items' = Items /\ EagerItems' = EagerItems /\ EagerFiles' = EagerFiles
         /\ \A c : Uses(c)' = Uses(c) /\ Consumers(c)' = Consumers(c)
BY DEF Items, EagerItems, EagerFiles, Uses, Consumers

\* An eager item serves one slot, of a file that is laid out.
LEMMA EagerItemHasOneSlot ==
  ASSUME NEW c \in EagerItems
  PROVE  \E s \in Slots : Uses(c) = {s} /\ Consumers(c) = {FileOf[s]} /\ FileOf[s] \in EagerFiles
<1>1. PICK d \in M(skipped)!Downloads : FileOf[d] \in EagerFiles /\ c = NameOf[d]
  BY DEF EagerItems, M!EagerItems, EagerFiles
<1>2. d \in Slots
  BY <1>1 DEF M!Downloads
<1>3. Uses(c) = {d}
  BY <1>1, <1>2 DEF EagerFiles, M!EagerFiles, Uses, M!Uses, M!SlotsOf
<1> QED
  BY <1>1, <1>2, <1>3 DEF Consumers

LEMMA EagerFileIsPure ==
  ASSUME NEW f \in EagerFiles
  PROVE  /\ f \in Files /\ Pure(f) /\ SlotsIn(f) # {}
         /\ \A s \in SlotsIn(f) : NameOf[s] \in EagerItems /\ s \in Uses(NameOf[s])
                                  /\ s \in M(skipped)!Downloads
<1>1. f \in Files /\ SlotsIn(f) # {} /\ SlotsIn(f) \cap OldSlots = {} /\ f \notin skipped
  BY SameSlots DEF EagerFiles, M!EagerFiles
<1>2. Pure(f)
  BY <1>1, SameSlots DEF Pure
<1>3. ASSUME NEW s \in SlotsIn(f) PROVE s \in M(skipped)!Downloads
  BY <1>1, <1>3 DEF M!Downloads, SlotsIn
<1>4. ASSUME NEW s \in SlotsIn(f) PROVE NameOf[s] \in EagerItems
  BY <1>3, <1>4 DEF EagerItems, M!EagerItems, EagerFiles, SlotsIn
<1>5. ASSUME NEW s \in SlotsIn(f) PROVE s \in Uses(NameOf[s])
  BY <1>3, <1>5 DEF Uses, M!Uses
<1> QED
  BY <1>1, <1>2, <1>3, <1>4, <1>5

LEMMA UsesAreSlots == ASSUME NEW c PROVE Uses(c) \subseteq Slots
BY DEF Uses, M!Uses, M!Downloads

\* Nothing is lost while targets and their data stay.
LEMMA SameTargets ==
  ASSUME UNCHANGED <<target, written>>
  PROVE  /\ \A s : There(s)' <=> There(s)
         /\ \A f \in Files : Installed(f)' <=> Installed(f)
BY InstalledIs DEF There, Holds

LEMMA MemoryIs ==
  /\ MemoryIsRight <=> (\A s \in bits : Known(s)) /\ (\A f \in flags : Told(f))
  /\ MemoryIsRight' <=> (\A s \in bits' : Known(s)') /\ (\A f \in flags' : Told(f)')
BY DEF MemoryIsRight, There, Known, Told

LEMMA SameKnown ==
  ASSUME UNCHANGED <<target, written, struck, unseen>>
  PROVE  /\ \A s : Known(s)' <=> Known(s)
         /\ \A f \in Files : Told(f)' <=> Told(f)
BY SameTargets DEF Known, Told

LEMMA InitInv == Init => IInv
<1> SUFFICES ASSUME Init PROVE IInv
  OBVIOUS
<1> USE DEF Init
<1>1. Shape
  BY ParametersAssumption DEF Shape, Steps
<1>2. Layout /\ MemoryIsRight /\ Work /\ Course /\ OkMeansInstalled
  BY DEF Layout, MemoryIsRight, Work, Course, OkMeansInstalled
<1>3. Disk
  BY DEF Disk
<1> QED
  BY <1>1, <1>2, <1>3 DEF IInv

(***************************************************************************)
(* The scan at the beginning of a session.                                 *)
(***************************************************************************)
LEMMA AcceptedAreInstalled ==
  ASSUME SizesDiffer, IInv, NEW f \in Accepted
  PROVE  f \in Files /\ (Installed(f) \/ Chunkless(f) \/ f \in stale)
<1>1. f \in Files
  BY DEF Accepted
<1> SUFFICES ASSUME ~Chunkless(f), f \notin stale PROVE Installed(f)
  BY <1>1
<1>2. SizeOk(f) /\ (Pure(f) => SlotsIn(f) \subseteq disk_bits)
  BY SameSlots DEF Accepted
<1>3. target[f] \in {"laid", "new"}
  BY <1>1, <1>2 DEF SizeOk, SizesDiffer
<1>4. CASE target[f] = "laid"
  <2>1. \A s \in SlotsIn(f) : FileOf[s] = f /\ (There(s) \/ f \in stale)
    BY <1>1, <1>2, <1>4 DEF IInv, Layout, Disk, SlotsIn
  <2> QED
    BY <1>1, <1>4, <2>1, InstalledIs DEF There
<1> QED
  BY <1>1, <1>3, <1>4, InstalledIs

\* A scan deletes no file that is recorded.
LEMMA RecordedIsAccepted ==
  ASSUME NEW f \in Files, Installed(f), Pure(f) => SlotsIn(f) \subseteq disk_bits
  PROVE  f \in Accepted
BY SameSlots, InstalledIs DEF Accepted, SizeOk

LEMMA StartInv == ASSUME SizesDiffer, IInv, Start PROVE IInv'
<1> USE DEF Start
<1>1. /\ phase = "idle" /\ phase' = "run" /\ result' = "none"
      /\ UNCHANGED <<zstd, disk_bits, saved, step, since>>
  OBVIOUS
<1>2. Course' /\ Work' /\ OkMeansInstalled'
  BY <1>1 DEF IInv, Course, Work, OkMeansInstalled
<1>3. CASE saved = {}
  <2>1. /\ skipped' = {} /\ flags' = {} /\ bits' = disk_bits
        /\ target' = [f \in Files |-> target[f]] /\ written' = {s \in written : TRUE}
        /\ struck' = stale
    BY <1>3 DEF IsResume, LoadedBits
  <2>2. stale' = stale
    BY <1>3 DEF IsResume
  <2>3. UNCHANGED <<target, written>>
    BY <2>1 DEF IInv, Shape
  <2>4. Shape' /\ Layout'
    BY <1>1, <2>1, <2>3 DEF IInv, Shape, Layout
  <2>5. \A s \in bits' : Known(s)'
    BY <2>1, <2>3, SameTargets DEF IInv, Disk, Known
  <2>6. MemoryIsRight'
    BY <2>1, <2>5, MemoryIs
  <2>7. Disk'
    BY <1>1, <2>2, <2>3, SameTargets DEF IInv, Disk
  <2> QED
    BY <1>2, <2>4, <2>6, <2>7 DEF IInv
<1>4. CASE saved # {}
  <2>1. /\ skipped' = Accepted /\ flags' = Accepted
        /\ bits' = {s \in disk_bits : FileOf[s] \notin Rejected}
        /\ target' = [f \in Files |-> IF f \in Doomed THEN "missing" ELSE target[f]]
        /\ written' = {s \in written : FileOf[s] \notin Doomed}
        /\ struck' = stale \cap Accepted
        /\ unseen' = {f \in Accepted : Chunkless(f) /\ ~Installed(f)}
        /\ stale' = stale \cup {f \in Doomed : M({})!SlotsOf(f) \cap disk_bits # {}}
    BY <1>4 DEF IsResume, LoadedBits
  <2>2. Accepted \subseteq Files /\ Accepted \cap Doomed = {}
    BY DEF Accepted, Doomed
  <2>3. Shape'
    BY <1>1, <2>1, <2>2 DEF IInv, Shape
  <2>4. Layout'
    BY <2>1 DEF IInv, Layout
  <2>5. \A s \in Slots : (FileOf[s] \notin Doomed /\ There(s)) => There(s)'
    BY <2>1, SlotsHaveFiles DEF There, Holds
  <2>6. \A f \in Files \ Doomed : Installed(f) => Installed(f)'
    <3> SUFFICES ASSUME NEW f \in Files, f \notin Doomed, Installed(f) PROVE Installed(f)'
      OBVIOUS
    <3>1. target'[f] = target[f] /\ \A s \in SlotsIn(f) : Holds(s) => Holds(s)'
      BY <2>1 DEF SlotsIn, Holds
    <3> QED
      BY <3>1, InstalledIs
  <2>7. ASSUME NEW s \in bits' PROVE Known(s)'
    <3>1. s \in Slots /\ FileOf[s] \in Accepted /\ s \in disk_bits
      BY <2>1, <2>7, SlotsHaveFiles DEF IInv, Shape, Rejected
    <3>2. There(s) \/ FileOf[s] \in struck'
      BY <2>1, <3>1 DEF IInv, Disk
    <3> QED
      BY <2>2, <2>5, <3>1, <3>2 DEF Known
  <2>8. ASSUME NEW f \in flags' PROVE Told(f)'
    <3>1. f \in Accepted /\ f \in Files \ Doomed
      BY <2>1, <2>2, <2>8
    <3>2. Installed(f) \/ f \in unseen' \/ f \in struck'
      BY <2>1, <3>1, AcceptedAreInstalled
    <3> QED
      BY <2>6, <3>1, <3>2 DEF Told
  <2>9. MemoryIsRight'
    BY <2>7, <2>8, MemoryIs
  <2>10. Disk'
    <3> SUFFICES ASSUME NEW s \in disk_bits, FileOf[s] \notin stale' PROVE There(s)'
      BY <1>1 DEF Disk
    <3>1. s \in Slots /\ There(s) /\ s \in SlotsIn(FileOf[s])
      BY <2>1, SlotsHaveFiles DEF IInv, Shape, Disk
    <3>2. FileOf[s] \notin Doomed
      BY <2>1, <3>1, SameSlots
    <3> QED
      BY <2>5, <3>1, <3>2
  <2> QED
    BY <1>2, <2>3, <2>4, <2>9, <2>10 DEF IInv
<1> QED
  BY <1>3, <1>4

(***************************************************************************)
(* An item of the queue.                                                   *)
(***************************************************************************)
\* A step of a session that leaves the targets alone.
LEMMA QuietInv ==
  ASSUME IInv, UNCHANGED <<target, written, struck, unseen, result>>,
         Shape', Disk', Work', Course',
         \A s \in bits' : Known(s), \A f \in flags' : Told(f)
  PROVE  IInv'
<1>1. Layout'
  BY DEF IInv, Layout, Pure
<1>2. MemoryIsRight'
  BY SameKnown, MemoryIs DEF Shape
<1>3. OkMeansInstalled'
  BY SameTargets DEF IInv, OkMeansInstalled
<1> QED
  BY <1>1, <1>2, <1>3 DEF IInv

LEMMA Memory == ASSUME IInv PROVE (\A s \in bits : Known(s)) /\ (\A f \in flags : Told(f))
BY MemoryIs DEF IInv

LEMMA SameDisk ==
  ASSUME IInv, UNCHANGED <<target, written, disk_bits, stale>> PROVE Disk'
BY SameTargets DEF IInv, Disk

\* The bitmap in memory is right, and so is the file it is written to.
LEMMA BitsMakeDisk ==
  ASSUME IInv, UNCHANGED <<target, written>>, disk_bits' = bits, stale' = struck PROVE Disk'
BY Memory, SameTargets DEF Disk, Known

\* A step of the item of c: the other items are where they were.
LEMMA WorkGoesOn ==
  ASSUME IInv, NEW c \in Chunks, NEW next \in Steps, Goto(c, next), c \in Items,
         UNCHANGED <<target, written, skipped, struck, unseen>>, next # "written", next = "fetched" => c \notin EagerItems,
         (c \in EagerItems /\ next \in {"save", "bits", "done"}) => \A s \in Uses(c) : Known(s)
  PROVE  Work'
BY SameItems, SameKnown DEF IInv, Shape, Work, Goto

\* The file whose last chunk is c is installed when the data of c is there.
LEMMA NotifiedAreTold ==
  ASSUME IInv, NEW c \in Chunks, c \in EagerItems => \A s \in Uses(c) : Known(s)
  PROVE  flags \subseteq Notified(c) /\ Notified(c) \subseteq Files /\ \A f \in Notified(c) : Told(f)
<1>1. ASSUME NEW f \in Consumers(c) \cap EagerFiles, Missing(f) = {c} PROVE Told(f)
  <2>1. /\ f \in Files /\ Pure(f) /\ SlotsIn(f) # {}
        /\ \A s \in SlotsIn(f) : NameOf[s] \in EagerItems /\ s \in Uses(NameOf[s])
                                 /\ s \in M(skipped)!Downloads
    BY EagerFileIsPure
  <2>2. \A s \in SlotsIn(f) : step[NameOf[s]] = "done" \/ NameOf[s] = c
    BY <1>1, <2>1, SameSlots DEF Missing
  <2>3. \A s \in SlotsIn(f) : NameOf[s] \in Chunks /\ FileOf[s] = f
    BY SlotsHaveFiles DEF SlotsIn
  <2>4. \A s \in SlotsIn(f) : Known(s)
    BY <2>1, <2>2, <2>3 DEF IInv, Work
  <2> QED
    BY <2>1, <2>3, <2>4, InstalledIs DEF There, Known, Told, Holds, IInv, Layout
<1> QED
  BY <1>1, EagerFileIsPure, Memory DEF IInv, Shape, Notified

LEMMA ItemFailsInv == ASSUME IInv, NEW c \in Chunks, ItemFails(c) PROVE IInv'
<1> USE DEF ItemFails, Fresh, diskVars, runVars, history
<1>1. Shape'
  BY DEF IInv, Shape, Steps, Goto
<1>2. Work'
  BY WorkGoesOn DEF Steps
<1>3. Course'
  BY DEF IInv, Shape, Course, Goto
<1> QED
  BY <1>1, <1>2, <1>3, SameDisk, Memory, QuietInv

LEMMA FetchInv == ASSUME IInv, NEW c \in Chunks, Fetch(c) PROVE IInv'
<1> USE DEF Fetch, Fresh, runVars, history
<1>1. Shape'
  BY DEF IInv, Shape, Steps, Goto
<1>2. Work'
  BY WorkGoesOn DEF Steps
<1>3. Course'
  BY DEF IInv, Shape, Course, Goto
<1> QED
  BY <1>1, <1>2, <1>3, SameDisk, Memory, QuietInv

LEMMA EagerSkipInv == ASSUME IInv, NEW c \in Chunks, EagerSkip(c) PROVE IInv'
<1> USE DEF EagerSkip, Fresh, diskVars, runVars, history
<1>1. \A s \in Uses(c) : Known(s)
  BY Memory
<1>2. Shape'
  BY <1>1, NotifiedAreTold DEF IInv, Shape, Steps, Goto
<1>3. Work'
  BY <1>1, WorkGoesOn DEF Steps
<1>4. Course'
  BY DEF IInv, Shape, Course, Goto
<1> QED
  BY <1>1, <1>2, <1>3, <1>4, SameDisk, Memory, NotifiedAreTold, QuietInv

LEMMA EagerWriteInv == ASSUME SizesDiffer, IInv, NEW c \in Chunks, EagerWrite(c) PROVE IInv'
<1> USE DEF EagerWrite, Fresh, Goto
<1>1. PICK d \in Slots : Uses(c) = {d} /\ Consumers(c) = {FileOf[d]} /\ FileOf[d] \in EagerFiles
  BY EagerItemHasOneSlot
<1>2. FileOf[d] \in Files /\ Pure(FileOf[d]) /\ ~Chunkless(FileOf[d])
  BY <1>1, EagerFileIsPure, SameSlots DEF Chunkless
<1>3. /\ target' = [target EXCEPT ![FileOf[d]] = IF @ = "new" THEN "new" ELSE "laid"]
      /\ written' = written \cup {d}
  <2>1. target[FileOf[d]] # "new" => Laid(FileOf[d]) = "laid"
    BY <1>2 DEF Laid, SizesDiffer, IInv, Layout
  <2>2. target' = [f \in Files |->
                     IF f = FileOf[d] THEN IF target[f] = "new" THEN "new" ELSE "laid" ELSE target[f]]
    BY <1>1, <2>1
  <2>3. written' = written \cup {d}
    BY <1>1 DEF Unpacked
  <2>4. target = [f \in Files |-> target[f]]
    BY DEF IInv, Shape
  <2> HIDE DEF EagerWrite, Fresh, Goto
  <2> QED
    BY <1>2, <2>2, <2>3, <2>4
<1>4. Shape'
  BY <1>3 DEF IInv, Shape, Steps
<1>5. Layout'
  BY <1>2, <1>3 DEF IInv, Layout, Shape, Pure
<1>6. (\A s \in Slots : There(s) => There(s)') /\ There(d)'
  BY <1>2, <1>3, SlotsHaveFiles DEF There, Holds, IInv, Shape
<1>7. \A f \in Files : Installed(f) => Installed(f)'
  <2> SUFFICES ASSUME NEW f \in Files, Installed(f) PROVE Installed(f)'
    OBVIOUS
  <2>1. target[f] \in {"new", "laid"} => target'[f] = target[f]
    BY <1>2, <1>3 DEF IInv, Shape
  <2>2. \A s \in SlotsIn(f) : Holds(s) => Holds(s)'
    BY <1>3, <2>1, InstalledIs DEF SlotsIn, Holds, IInv, Shape
  <2> QED
    BY <2>1, <2>2, InstalledIs
<1>8. \A s \in Slots : Known(s) => Known(s)'
  BY <1>6 DEF Known, history
<1>9. MemoryIsRight' /\ Disk'
  <2>1. \A f \in Files : Told(f) => Told(f)'
    BY <1>7 DEF Told, history
  <2>2. MemoryIsRight'
    BY <1>8, <2>1, MemoryIs DEF IInv, Shape
  <2>3. Disk'
    BY <1>6 DEF IInv, Shape, Disk, history
  <2> QED
    BY <2>2, <2>3
<1>10. Work'
  <2>1. \A b \in Chunks : Uses(b) \subseteq Slots
    BY UsesAreSlots
  <2>2. \A s \in Uses(c) : Known(s)'
    BY <1>1, <1>6 DEF Known
  <2> QED
    BY <1>8, <2>1, <2>2, SameItems DEF IInv, Shape, Work
<1>11. Course' /\ OkMeansInstalled'
  BY DEF IInv, Shape, Course, OkMeansInstalled, runVars
<1> QED
  BY <1>4, <1>5, <1>9, <1>10, <1>11 DEF IInv

LEMMA RecordInv == ASSUME IInv, NEW c \in Chunks, Record(c) PROVE IInv'
<1> USE DEF Record, diskVars, runVars, history
<1>1. phase = "run" /\ c \in Items
  BY DEF IInv, Course, Work
<1>2. c \in EagerItems => step[c] = "written"
  BY DEF IInv, Work
<1>3. step[c] = "written" => \A s \in Uses(c) : Known(s)
  BY DEF IInv, Work
<1>4. \A s \in bits' : Known(s) /\ s \in Slots
  BY <1>3, UsesAreSlots, Memory DEF Marked, IInv, Shape
<1>5. c \in EagerItems => \A s \in Uses(c) : Known(s)
  BY <1>2, <1>3
<1>6. PICK next \in {"save", "done"} : Goto(c, next)
  OBVIOUS
<1>7. flags' = flags \/ flags' = Notified(c)
  OBVIOUS
<1>8. flags \subseteq flags' /\ flags' \subseteq Files /\ \A f \in flags' : Told(f)
  BY <1>5, <1>7, NotifiedAreTold, Memory DEF IInv, Shape
<1>9. Shape'
  BY <1>4, <1>6, <1>8 DEF IInv, Shape, Steps, Goto
<1>10. Work'
  BY <1>1, <1>5, <1>6, WorkGoesOn DEF Steps
<1>11. Course'
  BY <1>1, <1>6 DEF IInv, Shape, Course, Goto
<1> QED
  BY <1>4, <1>8, <1>9, <1>10, <1>11, SameDisk, QuietInv

LEMMA SpawnSaveInv == ASSUME IInv, NEW c \in Chunks, SpawnSave(c) PROVE IInv'
<1> USE DEF SpawnSave, diskVars, runVars, history
<1>1. Shape'
  BY DEF IInv, Shape, Steps, Goto
<1>2. Work'
  BY WorkGoesOn DEF IInv, Work, Steps
<1>3. Course'
  BY DEF IInv, Shape, Course, Goto
<1> QED
  BY <1>1, <1>2, <1>3, SameDisk, Memory, QuietInv

LEMMA SyncBitsInv == ASSUME IInv, NEW c \in Chunks, SyncBits(c) PROVE IInv'
<1> USE DEF SyncBits, runVars
<1>1. c \in Items /\ (c \in EagerItems => \A s \in Uses(c) : Known(s))
  BY DEF IInv, Work
<1>2. Shape'
  BY <1>1, NotifiedAreTold DEF IInv, Shape, Steps, Goto
<1>3. Work'
  BY <1>1, WorkGoesOn DEF Steps
<1>4. Course'
  BY DEF IInv, Shape, Course, Goto
<1> QED
  BY <1>1, <1>2, <1>3, <1>4, BitsMakeDisk, Memory, NotifiedAreTold, QuietInv

(***************************************************************************)
(* Assembly, saves and the end of a session.                               *)
(***************************************************************************)
LEMMA AssembleInv == ASSUME IInv, NEW f \in Files, Assemble(f) PROVE IInv'
<1> USE DEF Assemble, runVars, history
<1>1. Shape' /\ Layout'
  BY DEF IInv, Shape, Layout, Pure
<1>2. \A s \in Slots : There(s) => There(s)'
  BY SlotsHaveFiles DEF There, Holds, IInv, Shape
<1>3. Installed(f)' /\ \A g \in Files : Installed(g) => Installed(g)'
  <2>1. ASSUME NEW g \in Files, g # f PROVE Installed(g)' <=> Installed(g)
    BY <2>1, InstalledIs DEF Holds, SlotsIn, IInv, Shape
  <2> QED
    BY <2>1, InstalledIs DEF IInv, Shape
<1>4. \A s \in Slots : Known(s) => Known(s)'
  BY <1>2 DEF Known
<1>5. MemoryIsRight' /\ Disk'
  <2>1. \A g \in Files : Told(g) => Told(g)'
    BY <1>3 DEF Told
  <2>2. Told(f)'
    BY <1>3 DEF Told
  <2> QED
    BY <1>2, <1>4, <2>1, <2>2, MemoryIs DEF IInv, Shape, Disk
<1>6. Work'
  BY <1>4, SameItems, UsesAreSlots DEF IInv, Work
<1>7. Course' /\ OkMeansInstalled'
  BY DEF IInv, Shape, Course, OkMeansInstalled
<1> QED
  BY <1>1, <1>5, <1>6, <1>7 DEF IInv

\* Saves and the chunks directory are nothing the invariant speaks of.
LEMMA OutsideInv ==
  ASSUME IInv, UNCHANGED <<target, written, disk_bits, runVars, memVars, history>> PROVE IInv'
<1> USE DEF runVars, memVars, history
<1>1. Shape' /\ Course'
  BY DEF IInv, Shape, Course
<1>2. Work'
  BY SameItems, SameKnown DEF IInv, Work
<1> QED
  BY <1>1, <1>2, SameDisk, Memory, QuietInv

LEMMA EndDownloadsInv == ASSUME IInv, EndDownloads PROVE IInv'
<1> USE DEF EndDownloads, diskVars, memVars, history
<1>1. Shape'
  BY DEF IInv, Shape
<1>2. Work'
  BY SameItems, SameKnown DEF IInv, Work
<1>3. Course'
  BY DEF IInv, Shape, Work, Course
<1> QED
  BY <1>1, <1>2, <1>3, SameDisk, Memory, QuietInv

LEMMA FinalSyncInv == ASSUME IInv, FinalSync PROVE IInv'
<1> USE DEF FinalSync, memVars
<1>1. Shape' /\ Course'
  BY DEF IInv, Shape, Course
<1>2. Work'
  BY SameItems, SameKnown DEF IInv, Work
<1> QED
  BY <1>1, <1>2, BitsMakeDisk, Memory, QuietInv

LEMMA CompleteInv == ASSUME IInv, Complete PROVE IInv'
<1> USE DEF Complete, memVars, history
<1>1. Shape' /\ Course'
  BY DEF IInv, Shape, Course
<1>2. Work'
  BY SameItems, SameKnown DEF IInv, Work
<1> QED
  BY <1>1, <1>2, SameDisk, Memory, QuietInv

\* A session whose memory is gone leaves what is on the disk.
LEMMA ForgetInv ==
  ASSUME IInv, Forget, UNCHANGED <<target, written>>, Disk',
         disk_bits' \subseteq Slots, OkMeansInstalled'
  PROVE  IInv'
<1> USE DEF Forget
<1>1. Shape' /\ Layout' /\ MemoryIsRight'
  BY DEF IInv, Shape, Layout, MemoryIsRight, Steps
<1>2. Work' /\ Course'
  BY DEF Work, Course
<1> QED
  BY <1>1, <1>2 DEF IInv

LEMMA ReturnInv == ASSUME IInv, ReturnCancelled \/ ReturnError PROVE IInv'
<1>1. /\ Forget /\ result' # "ok"
      /\ UNCHANGED <<target, written, disk_bits, stale>>
  BY DEF ReturnCancelled, ReturnError, diskVars, history
<1>2. Disk' /\ OkMeansInstalled'
  BY <1>1, SameDisk DEF OkMeansInstalled
<1> QED
  BY <1>1, <1>2, ForgetInv DEF IInv, Shape

LEMMA ReturnOkInv == ASSUME IInv, ReturnOk PROVE IInv'
<1> USE DEF ReturnOk, history
<1>1. Disk'
  BY SameDisk
<1>2. \A f \in Files : Told(f)
  BY Memory DEF IInv, Course
<1>3. OkMeansInstalled'
  BY <1>2, SameTargets DEF OkMeansInstalled, Told
<1> QED
  BY <1>1, <1>3, ForgetInv DEF IInv, Shape

LEMMA CrashInv == ASSUME IInv, Crash PROVE IInv'
<1> USE DEF Crash
<1>1. /\ UNCHANGED <<target, written, result, struck, unseen>>
      /\ (UNCHANGED <<disk_bits, stale>> \/ disk_bits' = {})
  OBVIOUS
<1>2. Disk'
  BY <1>1, SameDisk DEF Disk
<1>3. OkMeansInstalled'
  BY <1>1, SameTargets DEF IInv, OkMeansInstalled
<1> QED
  BY <1>1, <1>2, <1>3, ForgetInv DEF IInv, Shape

LEMMA IInvNext == ASSUME SizesDiffer PROVE IInv /\ [Next]_vars => IInv'
<1> SUFFICES ASSUME IInv, [Next]_vars PROVE IInv'
  OBVIOUS
<1>1. CASE UNCHANGED vars
  BY <1>1, OutsideInv DEF vars, diskVars
<1>2. ASSUME NEW c \in Chunks,
             \/ ItemFails(c) \/ Fetch(c) \/ EagerSkip(c) \/ EagerWrite(c)
             \/ Record(c) \/ SpawnSave(c) \/ SyncBits(c) \/ Discard(c)
      PROVE  IInv'
  <2>1. CASE Discard(c)
    BY <2>1, OutsideInv DEF Discard
  <2> QED
    BY <1>2, <2>1, ItemFailsInv, FetchInv, EagerSkipInv, EagerWriteInv, RecordInv, SpawnSaveInv,
       SyncBitsInv
<1>3. CASE JoinSaves \/ ReadLate \/ WriteState
  BY <1>3, OutsideInv DEF JoinSaves, ReadLate, WriteState, diskVars
<1> QED
  BY <1>1, <1>2, <1>3, StartInv, AssembleInv, EndDownloadsInv, FinalSyncInv, ReturnInv,
     CompleteInv, ReturnOkInv, CrashInv
     DEF Next

LEMMA IInvHolds == ASSUME SizesDiffer PROVE Spec => []IInv
BY InitInv, IInvNext, PTL DEF Spec

(***************************************************************************)
(* An Ok of any session, however many were interrupted before it and       *)
(* whatever their saves left, says that each file is the new one - but the *)
(* files without chunks that were never looked at, and those whose bits    *)
(* outlived their data.                                                    *)
(***************************************************************************)
THEOREM OkMeansInstalledHolds == ASSUME SizesDiffer PROVE Spec => []OkMeansInstalled
<1>1. IInv => OkMeansInstalled
  BY DEF IInv
<1> QED
  BY <1>1, IInvHolds, PTL

\* The bits and flags a session has in memory are true of the disk, with the
\* same exceptions.
THEOREM MemoryIsRightHolds == ASSUME SizesDiffer PROVE Spec => []MemoryIsRight
<1>1. IInv => MemoryIsRight
  BY DEF IInv
<1> QED
  BY <1>1, IInvHolds, PTL

\* The scan of a resuming session believes no file that is not installed, but
\* one without chunks and one with bits that outlived their data.
THEOREM ScanIsRightHolds == ASSUME SizesDiffer PROVE Spec => []ScanIsRight
<1>1. IInv => ScanIsRight
  BY AcceptedAreInstalled DEF ScanIsRight
<1> QED
  BY <1>1, IInvHolds, PTL

(***************************************************************************)
(* While a file is installed and its bits are in the bitmap file, no       *)
(* session takes it away.                                                  *)
(***************************************************************************)
THEOREM RecordedStaysHolds == ASSUME SizesDiffer PROVE Spec => RecordedStays
<1> DEFINE Stays == \A f \in Files : Recorded(f) => Installed(f)'
<1>1. ASSUME UNCHANGED <<target, written>> PROVE Stays
  BY <1>1, SameTargets DEF Recorded
<1>2. ASSUME IInv, Start PROVE Stays
  <2> SUFFICES ASSUME NEW f \in Files, Recorded(f) PROVE Installed(f)'
    OBVIOUS
  <2>1. Installed(f) /\ f \in Accepted
    BY RecordedIsAccepted, SameSlots DEF Recorded
  <2>2. f \notin Doomed
    BY <2>1 DEF Doomed
  <2>3. target'[f] = target[f] /\ \A s \in SlotsIn(f) : Holds(s) => Holds(s)'
    BY <1>2, <2>2 DEF Start, SlotsIn, Holds
  <2> QED
    BY <2>1, <2>3, InstalledIs
<1>3. ASSUME IInv, NEW c \in Chunks, EagerWrite(c) PROVE Stays
  <2>1. PICK d \in Slots : Uses(c) = {d} /\ Consumers(c) = {FileOf[d]} /\ FileOf[d] \in EagerFiles
    BY <1>3, EagerItemHasOneSlot DEF EagerWrite
  <2>2. \A f \in Files : target[f] \in {"new", "laid"} => target'[f] = target[f]
    BY <1>3 DEF EagerWrite, Laid
  <2>3. written \subseteq written'
    BY <1>3 DEF EagerWrite, Unpacked
  <2> SUFFICES ASSUME NEW f \in Files, Installed(f) PROVE Installed(f)'
    BY DEF Recorded
  <2>4. target'[f] = target[f] /\ \A s \in SlotsIn(f) : Holds(s) => Holds(s)'
    BY <2>2, <2>3, InstalledIs DEF SlotsIn, Holds
  <2> QED
    BY <2>4, InstalledIs
<1>4. ASSUME IInv, NEW g \in Files, Assemble(g) PROVE Stays
  <2> SUFFICES ASSUME NEW f \in Files, Installed(f) PROVE Installed(f)'
    BY DEF Recorded
  <2>1. CASE f = g
    BY <1>4, <2>1, InstalledIs DEF Assemble, IInv, Shape
  <2>2. CASE f # g
    BY <1>4, <2>2, InstalledIs DEF Assemble, Holds, SlotsIn, IInv, Shape
  <2> QED
    BY <2>1, <2>2
<1>5. ASSUME NEW c \in Chunks,
             \/ ItemFails(c) \/ Fetch(c) \/ EagerSkip(c)
             \/ Record(c) \/ SpawnSave(c) \/ SyncBits(c) \/ Discard(c)
      PROVE  Stays
  BY <1>1, <1>5
     DEF ItemFails, Fetch, EagerSkip, Record, SpawnSave, SyncBits, Discard, diskVars
<1>6. ASSUME JoinSaves \/ ReadLate \/ WriteState \/ EndDownloads \/ FinalSync PROVE Stays
  BY <1>1, <1>6 DEF JoinSaves, ReadLate, WriteState, EndDownloads, FinalSync, diskVars
<1>7. ASSUME ReturnCancelled \/ ReturnError \/ Complete \/ ReturnOk \/ Crash PROVE Stays
  BY <1>1, <1>7 DEF ReturnCancelled, ReturnError, Complete, ReturnOk, Crash, diskVars
<1>8. IInv /\ [Next]_vars => [Stays]_vars
  BY <1>2, <1>3, <1>4, <1>5, <1>6, <1>7 DEF Next
<1> QED
  BY <1>8, InitInv, IInvNext, PTL DEF Spec, RecordedStays
-----------------------------------------------------------------------------
\* An item that is under way is one of the session's, and none is between
\* sessions.
UnderWay == \A c \in Chunks : step[c] # "none" => c \in Items /\ phase # "idle"

Typed == TypeOK /\ UnderWay

LEMMA ItemsAreChunks ==
  ASSUME NEW done
  PROVE  M(done)!Items \subseteq Chunks /\ M(done)!Downloads \subseteq Slots \ OldSlots
BY ParametersAssumption DEF M!Items, M!Downloads

LEMMA UsesAreFresh ==
  ASSUME NEW c PROVE Uses(c) \subseteq Slots \ OldSlots /\ Consumers(c) \subseteq Files
BY ItemsAreChunks, ParametersAssumption DEF Uses, M!Uses, Consumers

LEMMA InitTyped == Init => Typed
<1> SUFFICES ASSUME Init PROVE Typed
  OBVIOUS
<1>1. target \in [Files -> {"missing", "old", "laid", "tail", "new"}]
  BY DEF Init
<1>2. since \in 0 .. Interval - 1
  BY ParametersAssumption DEF Init
<1> QED
  BY <1>1, <1>2 DEF Init, Typed, TypeOK, UnderWay, Steps

LEMMA StartTyped == Typed /\ Start => Typed'
<1> SUFFICES ASSUME Typed, Start PROVE Typed'
  OBVIOUS
<1> DEFINE done == IF IsResume THEN Accepted ELSE {}
<1>1. skipped' = done /\ flags' = done /\ done \subseteq Files
  BY DEF Start, Accepted
<1>2. target' \in [Files -> {"missing", "old", "laid", "tail", "new"}]
  BY DEF Typed, TypeOK, Start
<1>3. written' \subseteq Slots \ OldSlots /\ bits' \subseteq Slots
  BY DEF Typed, TypeOK, Start, LoadedBits
<1>4. dc' \subseteq Items'
  BY <1>1 DEF Start, Seed, Items
<1>5. step' = step /\ phase = "idle" /\ saving' \subseteq SUBSET Chunks
  BY DEF Typed, TypeOK, Start
<1>6. \A c \in Chunks : step[c] = "none"
  BY DEF Typed, UnderWay, Start
<1>7. stale' \subseteq Files /\ struck' \subseteq Files /\ unseen' \subseteq Files
  BY <1>1 DEF Typed, TypeOK, Start, Doomed
<1> QED
  BY <1>1, <1>2, <1>3, <1>4, <1>5, <1>6, <1>7 DEF Typed, TypeOK, UnderWay, Start

\* A step of the item of c: what it leaves alone, and where the item goes.
LEMMA StepTyped ==
  ASSUME Typed, NEW c \in Chunks, c \in Items, phase # "idle", NEW next \in Steps, Goto(c, next),
         UNCHANGED <<phase, result, skipped, struck, unseen>>, stale' \subseteq Files,
         target' \in [Files -> {"missing", "old", "laid", "tail", "new"}],
         written' \subseteq Slots \ OldSlots, zstd' \subseteq Chunks,
         disk_bits' \subseteq Slots, saved' \subseteq Chunks,
         bits' \subseteq Slots, dc' \subseteq dc \cup {c}, since' \in 0 .. Interval - 1,
         saving' \subseteq SUBSET Chunks, flags \subseteq flags', flags' \subseteq Files
  PROVE  Typed'
<1>1. Items' = Items
  BY SameItems
<1>2. step' = [step EXCEPT ![c] = next] /\ step' \in [Chunks -> Steps]
  BY DEF Goto, Typed, TypeOK
<1>3. TypeOK'
  BY <1>1, <1>2 DEF Typed, TypeOK
<1>4. UnderWay'
  BY <1>1, <1>2 DEF Typed, UnderWay, TypeOK
<1> QED
  BY <1>3, <1>4 DEF Typed

LEMMA ItemTyped ==
  ASSUME Typed, NEW c \in Chunks,
         \/ ItemFails(c) \/ Fetch(c) \/ EagerSkip(c) \/ EagerWrite(c)
         \/ Record(c) \/ SpawnSave(c) \/ SyncBits(c)
  PROVE  Typed'
<1>1. c \in Items /\ phase # "idle" /\ dc \subseteq Chunks
  BY ItemsAreChunks
     DEF Typed, TypeOK, UnderWay, Items, Fresh, ItemFails, Fetch, EagerSkip, EagerWrite, Record,
         SpawnSave, SyncBits
<1>2. flags \subseteq Notified(c) /\ Notified(c) \subseteq Files
  BY UsesAreFresh DEF Notified, Typed, TypeOK
<1>3. CASE ItemFails(c) \/ Fetch(c) \/ EagerSkip(c)
  BY <1>1, <1>2, <1>3, StepTyped
     DEF ItemFails, Fetch, EagerSkip, Typed, TypeOK, diskVars, runVars, history, Steps
<1>4. CASE EagerWrite(c)
  <2>1. target' \in [Files -> {"missing", "old", "laid", "tail", "new"}]
    BY <1>4 DEF EagerWrite, Laid, Typed, TypeOK
  <2>2. written' \subseteq Slots \ OldSlots
    BY <1>4, UsesAreFresh DEF EagerWrite, Unpacked, Typed, TypeOK
  <2> QED
    BY <1>1, <1>4, <2>1, <2>2, StepTyped DEF EagerWrite, Typed, TypeOK, runVars, history, Steps
<1>5. CASE Record(c)
  <2>1. bits' \subseteq Slots
    BY <1>5, UsesAreFresh DEF Record, Marked, Typed, TypeOK
  <2>2. since' \in 0 .. Interval - 1
    BY <1>5, ParametersAssumption DEF Record, Typed, TypeOK
  <2>3. (flags' = flags \/ flags' = Notified(c)) /\ \E next \in {"save", "done"} : Goto(c, next)
    BY <1>5 DEF Record
  <2> QED
    BY <1>1, <1>2, <1>5, <2>1, <2>2, <2>3, StepTyped
       DEF Record, Typed, TypeOK, diskVars, runVars, history, Steps
<1>6. CASE SpawnSave(c) \/ SyncBits(c)
  BY <1>1, <1>2, <1>6, StepTyped
     DEF SpawnSave, Spawn, SyncBits, Typed, TypeOK, diskVars, runVars, history, Steps
<1> QED
  BY <1>3, <1>4, <1>5, <1>6

\* Steps that leave the items alone.
LEMMA QuietTyped ==
  ASSUME Typed,
         \/ JoinSaves \/ ReadLate \/ WriteState \/ EndDownloads \/ FinalSync \/ Complete
         \/ (\E c \in Chunks : Discard(c)) \/ (\E f \in Files : Assemble(f)) \/ UNCHANGED vars
  PROVE  Typed'
<1>1. skipped' = skipped /\ step' = step /\ dc' = dc /\ (phase' = "idle" => phase = "idle")
  BY DEF JoinSaves, ReadLate, WriteState, EndDownloads, FinalSync, Complete, Discard, Assemble,
         vars, runVars, memVars
<1>2. Items' = Items /\ dc \subseteq Chunks
  BY <1>1, SameItems, ItemsAreChunks DEF Typed, TypeOK, Items
<1>3. TypeOK'
  <2>1. CASE JoinSaves \/ ReadLate \/ WriteState
    <3>1. saving' \subseteq SUBSET Chunks /\ saved' \subseteq Chunks
      BY <1>2, <2>1 DEF JoinSaves, Spawn, ReadLate, WriteState, Typed, TypeOK, diskVars
    <3> QED
      BY <1>2, <2>1, <3>1
         DEF JoinSaves, ReadLate, WriteState, Typed, TypeOK, diskVars, runVars, memVars, history
  <2>2. CASE EndDownloads \/ FinalSync \/ Complete
    BY <1>2, <2>2 DEF EndDownloads, FinalSync, Complete, Typed, TypeOK, diskVars, memVars, history
  <2>3. CASE \E c \in Chunks : Discard(c)
    BY <1>2, <2>3 DEF Discard, Typed, TypeOK, runVars, memVars, history
  <2>4. CASE \E f \in Files : Assemble(f)
    BY <1>2, <2>4 DEF Assemble, Typed, TypeOK, runVars, history
  <2>5. CASE UNCHANGED vars
    BY <1>2, <2>5 DEF Typed, TypeOK, vars, diskVars, runVars, memVars, history
  <2> QED
    BY <2>1, <2>2, <2>3, <2>4, <2>5
<1> QED
  BY <1>1, <1>2, <1>3 DEF Typed, UnderWay

LEMMA ForgetTyped ==
  ASSUME Typed, ReturnCancelled \/ ReturnError \/ ReturnOk \/ Crash
  PROVE  Typed'
<1>1. Forget
  BY DEF ReturnCancelled, ReturnError, ReturnOk, Crash
<1>2. since' \in 0 .. Interval - 1
  BY <1>1, ParametersAssumption DEF Forget
<1>3. /\ UNCHANGED <<target, written, struck, unseen>> /\ zstd' \subseteq zstd
      /\ disk_bits' \subseteq disk_bits /\ saved' \subseteq saved /\ stale' \subseteq stale
      /\ result' \in {"none", "ok", "cancelled", "failed"}
  BY DEF ReturnCancelled, ReturnError, ReturnOk, Crash, diskVars, history, Typed, TypeOK
<1>4. dc \subseteq Chunks
  BY ItemsAreChunks DEF Typed, TypeOK, Items
<1>5. saving' \subseteq SUBSET Chunks
  BY <1>4 DEF ReturnCancelled, ReturnError, ReturnOk, Crash, Typed, TypeOK
<1>6. TypeOK'
  BY <1>1, <1>2, <1>3, <1>5 DEF Forget, Typed, TypeOK, Steps
<1>7. UnderWay'
  BY <1>1 DEF Forget, UnderWay
<1> QED
  BY <1>6, <1>7 DEF Typed

(***************************************************************************)
(* Every variable keeps to its type, whatever the sizes: what the eager    *)
(* path wrote belongs to slots that are downloaded, and what counts as     *)
(* downloaded, and with it what any save may write, is an item of the      *)
(* session.                                                                *)
(***************************************************************************)
THEOREM TypeCorrect == Spec => []TypeOK
<1>1. Typed /\ [Next]_vars => Typed'
  BY StartTyped, ItemTyped, QuietTyped, ForgetTyped DEF Next
<1>2. Typed => TypeOK
  BY DEF Typed
<1> QED
  BY <1>1, <1>2, InitTyped, PTL DEF Spec

-----------------------------------------------------------------------------
(* The handle, for any sets of workers and controllers.                    *)

(***************************************************************************)
(* Every variable keeps its type.                                          *)
(***************************************************************************)
LEMMA HandleInitType == HandleInit => HandleTypeOK
  BY DEF HandleInit, HandleTypeOK, States, ControlSteps, WaitSteps

LEMMA HandleNextType == HandleTypeOK /\ [HandleNext]_handleVars => HandleTypeOK'
<1> SUFFICES ASSUME HandleTypeOK, [HandleNext]_handleVars PROVE HandleTypeOK'
  OBVIOUS
<1> USE DEF HandleTypeOK, States, ControlSteps, WaitSteps
<1>1. CASE UNCHANGED handleVars
  BY <1>1 DEF handleVars
<1>2. ASSUME NEW t \in Threads, ControlNext(t) PROVE HandleTypeOK'
  <2>1. CASE Pause(t)
    BY <2>1 DEF Pause
  <2>2. CASE ResumeLoad(t)
    BY <2>2 DEF ResumeLoad, Proceed
  <2>3. CASE ResumeCas(t)
    BY <2>3 DEF ResumeCas, Proceed
  <2>4. CASE ResumeNotify(t)
    BY <2>4 DEF ResumeNotify, NotifyWaiters, Proceed
  <2>5. CASE CancelStore(t)
    BY <2>5 DEF CancelStore, Proceed
  <2>6. CASE CancelToken(t)
    BY <2>6 DEF CancelToken, Proceed
  <2>7. CASE CancelNotify(t)
    BY <2>7 DEF CancelNotify, NotifyWaiters, Proceed
  <2> QED
    BY <1>2, <2>1, <2>2, <2>3, <2>4, <2>5, <2>6, <2>7 DEF ControlNext
<1>3. ASSUME NEW t \in Threads, WaitNext(t) PROVE HandleTypeOK'
  <2>1. CASE WaitCall(t)
    BY <2>1 DEF WaitCall
  <2>2. CASE Subscribe(t)
    BY <2>2 DEF Subscribe
  <2>3. CASE ReadState(t)
    BY <2>3 DEF ReadState, Return
  <2>4. CASE Await(t)
    BY <2>4 DEF Await
  <2>5. CASE Wake(t)
    BY <2>5 DEF Wake
  <2> QED
    BY <1>3, <2>1, <2>2, <2>3, <2>4, <2>5 DEF WaitNext
<1> QED
  BY <1>1, <1>2, <1>3 DEF HandleNext

\* Every variable of the handle keeps its type.
THEOREM HandleTypeCorrect == HandleSpec => []HandleTypeOK
  BY HandleInitType, HandleNextType, PTL DEF HandleSpec
-----------------------------------------------------------------------------
(***************************************************************************)
(* The state leaves PAUSED only through a step that owes a notification,   *)
(* and pays it to every future made before: no wake-up is lost.            *)
(***************************************************************************)
LEMMA NextNoLostWakeup ==
  HandleTypeOK /\ NoLostWakeup /\ [HandleNext]_handleVars => NoLostWakeup'
<1> SUFFICES ASSUME HandleTypeOK, NoLostWakeup, [HandleNext]_handleVars,
                    NEW w \in Workers,
                    wait'[w] \in {"callback", "await"},
                    ~notified'[w]
             PROVE  (state = "PAUSED" \/ WakePending)'
  BY DEF NoLostWakeup
<1> USE DEF HandleTypeOK, NoLostWakeup, WakePending, States, ControlSteps, WaitSteps, Threads
<1>1. CASE UNCHANGED handleVars
  BY <1>1 DEF handleVars
<1>2. ASSUME NEW t \in Threads, ControlNext(t) PROVE (state = "PAUSED" \/ WakePending)'
  <2>1. CASE Pause(t)
    BY <2>1 DEF Pause
  <2>2. CASE ResumeLoad(t)
    BY <2>2 DEF ResumeLoad, Proceed, MayCall
  <2>3. CASE ResumeCas(t)
    BY <2>3 DEF ResumeCas, Proceed
  <2>4. CASE ResumeNotify(t)
    <3>1. w \notin Listening
      BY <2>4 DEF ResumeNotify, NotifyWaiters
    <3> QED
      BY <2>4, <3>1 DEF ResumeNotify, Listening
  <2>5. CASE CancelStore(t)
    BY <2>5 DEF CancelStore, Proceed
  <2>6. CASE CancelToken(t)
    BY <2>6 DEF CancelToken, Proceed
  <2>7. CASE CancelNotify(t)
    <3>1. w \notin Listening
      BY <2>7 DEF CancelNotify, NotifyWaiters
    <3> QED
      BY <2>7, <3>1 DEF CancelNotify, Listening
  <2> QED
    BY <1>2, <2>1, <2>2, <2>3, <2>4, <2>5, <2>6, <2>7 DEF ControlNext
<1>3. ASSUME NEW t \in Threads, WaitNext(t) PROVE (state = "PAUSED" \/ WakePending)'
  <2>1. CASE WaitCall(t)
    BY <2>1 DEF WaitCall
  <2>2. CASE Subscribe(t)
    BY <2>2 DEF Subscribe
  <2>3. CASE ReadState(t)
    BY <2>3 DEF ReadState, Return
  <2>4. CASE Await(t)
    BY <2>4 DEF Await
  <2>5. CASE Wake(t)
    BY <2>5 DEF Wake
  <2> QED
    BY <1>3, <2>1, <2>2, <2>3, <2>4, <2>5 DEF WaitNext
<1> QED
  BY <1>1, <1>2, <1>3 DEF HandleNext

(***************************************************************************)
(* wait_if_paused never sleeps through the resume() or cancel() it waits   *)
(* for, whatever the threads and wherever the callback calls the handle.   *)
(***************************************************************************)
THEOREM NoLostWakeupHolds == HandleSpec => []NoLostWakeup
<1>1. HandleInit => NoLostWakeup
  BY DEF HandleInit, NoLostWakeup, Threads
<1> QED
  BY <1>1, HandleTypeCorrect, NextNoLostWakeup, PTL DEF HandleSpec
-----------------------------------------------------------------------------
(***************************************************************************)
(* No step leaves CANCELLED: pause() and resume() exchange, cancel() alone *)
(* stores.                                                                 *)
(***************************************************************************)
THEOREM CancelIsTerminalHolds == HandleSpec => CancelIsTerminal
<1>1. [HandleNext]_handleVars => [state = "CANCELLED" => state' = "CANCELLED"]_handleVars
  BY DEF HandleNext, handleVars, ControlNext, WaitNext, Pause, ResumeLoad, ResumeCas,
         ResumeNotify, CancelStore, CancelToken, CancelNotify, WaitCall,
         Subscribe, ReadState, Return, Await, Wake
<1> QED
  BY <1>1, PTL DEF HandleSpec, CancelIsTerminal
-----------------------------------------------------------------------------
(***************************************************************************)
(* Step simulation: seen through Gate, every step of the handle is a step  *)
(* of PauseGate or changes nothing.                                        *)
(***************************************************************************)
LEMMA GateUnchanged ==
  ASSUME UNCHANGED <<wait, outcome>>
  PROVE  Gate' = Gate
  BY DEF Gate

LEMMA GateStep == HandleTypeOK /\ [HandleNext]_handleVars => [PG!Next]_(PG!vars)
<1> SUFFICES ASSUME HandleTypeOK, [HandleNext]_handleVars PROVE [PG!Next]_(PG!vars)
  OBVIOUS
<1> USE DEF PG!Next, PG!vars
<1>1. CASE UNCHANGED handleVars
  BY <1>1, GateUnchanged DEF handleVars
<1>2. ASSUME NEW t \in Threads, ControlNext(t) PROVE [PG!Next]_(PG!vars)
  <2>1. Gate' = Gate
    BY <1>2, GateUnchanged DEF ControlNext, Pause, ResumeLoad, ResumeCas,
       ResumeNotify, CancelStore, CancelToken, CancelNotify
  <2>2. state' = state \/ PG!Pause \/ PG!Resume \/ PG!Cancel
    BY <1>2, <2>1 DEF ControlNext, Pause, ResumeLoad, ResumeCas, ResumeNotify,
       CancelStore, CancelToken, CancelNotify, PG!Pause, PG!Resume, PG!Cancel
  <2> QED
    BY <2>1, <2>2
<1>3. ASSUME NEW t \in Threads, WaitNext(t) PROVE [PG!Next]_(PG!vars)
  <2>1. state' = state
    BY <1>3 DEF WaitNext, WaitCall, Subscribe, ReadState, Await, Wake
  <2>2. CASE WaitCall(t)
    <3>1. t \in Workers /\ outcome[t] \in {"none", "ok", "cancelled"}
      BY <2>2 DEF WaitCall, HandleTypeOK
    <3>2. Gate[t] # "in"
      BY <2>2, <3>1 DEF WaitCall, Gate
    <3>3. Gate' = [Gate EXCEPT ![t] = "in"]
      BY <2>2, <3>1 DEF WaitCall, Gate, HandleTypeOK, Threads
    <3> QED
      BY <2>1, <3>1, <3>2, <3>3 DEF PG!Ask
  <2>3. CASE Subscribe(t) \/ Await(t) \/ Wake(t)
    <3>1. Gate' = Gate
      BY <2>3 DEF Subscribe, Await, Wake, Gate, HandleTypeOK, Threads
    <3> QED
      BY <2>1, <3>1
  <2>4. CASE ReadState(t)
    <3>1. CASE state = "PAUSED"
      <4>1. Gate' = Gate
        BY <2>4, <3>1 DEF ReadState, Gate, HandleTypeOK, Threads
      <4> QED
        BY <2>1, <4>1
    <3>2. CASE t \notin Workers
      <4>1. Gate' = Gate
        BY <2>4, <3>2 DEF ReadState, Return, Gate, HandleTypeOK, Threads
      <4> QED
        BY <2>1, <4>1
    <3>3. CASE t \in Workers /\ state = "RUNNING"
      <4>1. /\ wait[t] = "read"
            /\ wait' = [wait EXCEPT ![t] = "out"]
            /\ outcome' = [outcome EXCEPT ![t] = "ok"]
        BY <2>4, <3>3 DEF ReadState, Return
      <4>2. Gate[t] = "in"
        BY <3>3, <4>1 DEF Gate
      <4>3. Gate' = [Gate EXCEPT ![t] = "passed"]
        BY <3>3, <4>1 DEF Gate, HandleTypeOK, Threads
      <4> QED
        BY <2>1, <3>3, <4>2, <4>3 DEF PG!Pass
    <3>4. CASE t \in Workers /\ state = "CANCELLED"
      <4>1. /\ wait[t] = "read"
            /\ wait' = [wait EXCEPT ![t] = "out"]
            /\ outcome' = [outcome EXCEPT ![t] = "cancelled"]
        BY <2>4, <3>4 DEF ReadState, Return
      <4>2. Gate[t] = "in"
        BY <3>4, <4>1 DEF Gate
      <4>3. Gate' = [Gate EXCEPT ![t] = "refused"]
        BY <3>4, <4>1 DEF Gate, HandleTypeOK, Threads
      <4> QED
        BY <2>1, <3>4, <4>2, <4>3 DEF PG!Refuse
    <3> QED
      BY <3>1, <3>2, <3>3, <3>4 DEF HandleTypeOK, States
  <2> QED
    BY <1>3, <2>2, <2>3, <2>4 DEF WaitNext
<1> QED
  BY <1>1, <1>2, <1>3 DEF HandleNext

(***************************************************************************)
(* The handle implements the safety part of PauseGate: a worker is let     *)
(* through only while running and turned away only when cancelled.         *)
(***************************************************************************)
THEOREM HandleImplementsGate == HandleSpec => PG!SafeSpec
<1>1. HandleInit => PG!Init
  BY DEF HandleInit, PG!Init, Gate, Threads
<1> QED
  BY <1>1, HandleTypeCorrect, GateStep, PTL DEF HandleSpec, PG!SafeSpec
=============================================================================
