------------------------ MODULE UpdateSession_proofs ------------------------
(***************************************************************************)
(* What check_update announces and what an update downloads, where the     *)
(* old chunks are when a file is assembled, and what is installed when a   *)
(* session returns Ok: for all builds, any files on disk, any number of    *)
(* sessions and of edits.                                                  *)
(***************************************************************************)
EXTENDS UpdateSession, SequenceTheorems, FiniteSetTheorems, WellFoundedInduction, TLAPS

Shape ==
  /\ IsBuild(old) /\ IsBuild(new)
  /\ disk \in [Names -> Seq(Nat)]
  /\ pc \in {"idle", "scan", "run", "delete", "tag", "ok"}
  /\ plan.files \subseteq Wanted
  /\ bitmap = [hash |-> bitmap.hash, total |-> bitmap.total,
               bits |-> bitmap.bits, layouts |-> bitmap.layouts]
  /\ \A files \in bitmap.layouts : files \subseteq Wanted

\* Until the scan the plan is the one the disk calls for.
PlanIsCurrent == (pc = "scan" /\ plan.kind = "update") => plan = UpdatePlanned

(***************************************************************************)
(* The old chunks.  Eager files have none, so they may be written; what is *)
(* assembled is done with; the scan deletes eager files only.              *)
(***************************************************************************)
OldChunksInv ==
  /\ pc = "scan" => \A n \in plan.files : Readable(n) \/ n \in doubtful
  /\ pc = "run" => \A n \in plan.files \ done : Readable(n) \/ n \in doubtful

(***************************************************************************)
(* What the bits say.  The bitmap file is to be believed of files that are *)
(* not stale, if it served one choice of files; the bits in memory are so  *)
(* of the files a resuming scan has rejected, too, and those have no bit   *)
(* but of this session.                                                    *)
(***************************************************************************)
Good(n, i) == i \in DOMAIN disk[n] /\ disk[n][i] = Content(n)[i]

Right(n) == IsNew(n) \/ n \in struck

FileBitsInv ==
  \A files : bitmap.layouts = {files} =>
    \A n \in files \ stale : \A i \in DOMAIN Content(n) :
      BitIn(files, <<n, i>>) \in bitmap.bits => Good(n, i)

MemoryBitsInv ==
  pc = "run" =>
    /\ plan.files \in bitmap.layouts
    /\ \A n \in Cleared : \A i \in DOMAIN Content(n) :
         Bit(<<n, i>>) \in bits => Good(n, i) /\ <<n, i>> \in handled
    /\ bitmap.layouts = {plan.files} =>
         \A n \in plan.files \ stale : \A i \in DOMAIN Content(n) :
           Bit(<<n, i>>) \in bits => Good(n, i)

\* The files: those with all chunks handled, those done, those out of the plan.
FilesInv ==
  /\ pc \in {"idle", "scan"} => handled = {}
  /\ pc = "run" => handled \subseteq Slots /\ \A s \in handled :
       s[1] \in struck \/ (SizeIsNew(s[1]) /\ Good(s[1], s[2]))
  /\ pc = "run" => \A n \in done : n \in plan.files /\ Right(n)
  /\ pc \in {"scan", "run"} => \A n \in Wanted \ plan.files : Right(n)
  /\ pc \in {"delete", "tag", "ok"} => \A n \in Wanted : Right(n)

ResultInv ==
  /\ pc = "ok" => tag = "new"
  /\ result = "ok" => pc = "idle" /\ UpdatedIsNew

IInv == Shape /\ PlanIsCurrent /\ OldChunksInv /\ FileBitsInv /\ MemoryBitsInv /\ FilesInv /\ ResultInv
-----------------------------------------------------------------------------
(***************************************************************************)
(* The builds, and the bits.                                               *)
(***************************************************************************)

\* The field a name belongs to is the one it is found in.
LEMMA FieldIsItsOwn ==
  ASSUME IsBuild(new), NEW m \in DOMAIN new, NEW n \in DOMAIN new[m]
  PROVE  U!FieldOf(n) = m
<1>1. n \in DOMAIN new[U!FieldOf(n)] /\ U!FieldOf(n) \in DOMAIN new
  BY DEF U!FieldOf
<1> QED
  BY <1>1 DEF IsBuild

\* A file of the new build has a name of the order, and chunks.
LEMMA WantedIsKnown ==
  ASSUME IsBuild(new), NEW n \in Wanted
  PROVE  n \in Names /\ Content(n) \in Seq(Nat \ {0}) /\ Content(n) # << >>
<1>1. PICK m \in DOMAIN new : n \in DOMAIN new[m]
  BY DEF Wanted, U!AssetsOf
<1>2. Content(n) = new[m][n]
  BY <1>1, FieldIsItsOwn DEF Content, U!Content
<1> QED
  BY <1>1, <1>2 DEF IsBuild

\* The domain of a content is an interval of naturals.
LEMMA ContentIsSeq ==
  ASSUME IsBuild(new), NEW n \in Wanted
  PROVE  /\ n \in Names
         /\ Len(Content(n)) \in Nat /\ DOMAIN Content(n) = 1 .. Len(Content(n))
         /\ \A i \in DOMAIN Content(n) : Content(n)[i] \in Nat \ {0}
         /\ Content(n) = [i \in 1 .. Len(Content(n)) |-> Content(n)[i]]
BY WantedIsKnown, LenProperties, ElementOfSeq, Z3

\* While the builds stay, so do contents and the numbers of the bits.
LEMMA BuildsStay ==
  ASSUME new' = new
  PROVE  /\ Wanted' = Wanted
         /\ \A n : Content(n)' = Content(n)
         /\ \A files, s : BitIn(files, s)' = BitIn(files, s)
         /\ \A files : SlotsIn(files)' = SlotsIn(files)
<1>1. Wanted' = Wanted
  BY DEF Wanted, U!AssetsOf
<1>2. \A n : Content(n)' = Content(n)
  BY DEF Content, U!Content, U!FieldOf
<1>3. \A files : SlotsIn(files)' = SlotsIn(files)
  BY <1>2 DEF SlotsIn
<1>4. \A files, s : BitIn(files, s)' = BitIn(files, s)
  BY <1>3 DEF BitIn, NotAfter, Ahead
<1> QED
  BY <1>1, <1>2, <1>3, <1>4

LEMMA SlotOf ==
  ASSUME NEW files, NEW s
  PROVE  s \in SlotsIn(files) <=>
           \E n \in files : \E i \in DOMAIN Content(n) : s = <<n, i>>
BY DEF SlotsIn

LEMMA SlotIsPair ==
  ASSUME IsBuild(new), NEW files \in SUBSET Wanted, NEW s \in SlotsIn(files)
  PROVE  \E n \in files, i \in Nat : s = <<n, i>> /\ n \in Names
<1>1. PICK n \in files : \E i \in DOMAIN Content(n) : s = <<n, i>>
  BY SlotOf
<1>2. PICK i \in DOMAIN Content(n) : s = <<n, i>>
  BY <1>1
<1>3. n \in Names /\ Len(Content(n)) \in Nat /\ DOMAIN Content(n) = 1 .. Len(Content(n))
  BY ContentIsSeq
<1>4. i \in Nat
  BY <1>3
<1> QED
  BY <1>2, <1>3, <1>4

LEMMA NamesFinite == IsFiniteSet(Names)
<1>1. Len(Order) \in Int /\ 1 \in Int /\ DOMAIN Order = 1 .. Len(Order)
  BY UpdateAssumption, LenProperties
<1>2. IsFiniteSet(1 .. Len(Order))
  BY <1>1, FS_Interval
<1>3. IsFiniteSet(DOMAIN Order)
  BY <1>1, <1>2
<1>4. Order \in Surjection(DOMAIN Order, Names)
  BY UpdateAssumption DEF Surjection, Names
<1> QED
  BY <1>3, <1>4, FS_Surjection

LEMMA SlotsFinite ==
  ASSUME IsBuild(new), NEW files \in SUBSET Wanted
  PROVE  IsFiniteSet(SlotsIn(files))
<1>1. IsFiniteSet(files)
  BY NamesFinite, WantedIsKnown, FS_Subset
<1> DEFINE T == {{n} \X DOMAIN Content(n) : n \in files}
           f == [n \in files |-> {n} \X DOMAIN Content(n)]
<1>2. f \in Surjection(files, T)
  BY DEF Surjection
<1>3. IsFiniteSet(T)
  BY <1>1, <1>2, FS_Surjection
<1>4. ASSUME NEW n \in files PROVE IsFiniteSet({n} \X DOMAIN Content(n))
  <2>1. Len(Content(n)) \in Int /\ 1 \in Int /\ DOMAIN Content(n) = 1 .. Len(Content(n))
    BY ContentIsSeq
  <2>2. IsFiniteSet(1 .. Len(Content(n)))
    BY <2>1, FS_Interval
  <2>3. IsFiniteSet({n}) /\ IsFiniteSet(DOMAIN Content(n))
    BY <2>1, <2>2, FS_Singleton
  <2> QED
    BY <2>3, FS_Product
<1>5. \A t \in T : IsFiniteSet(t)
  BY <1>4
<1> QED
  BY <1>3, <1>5, FS_UNION DEF SlotsIn

\* The slots have an order: one of two comes first, and has fewer before it.
LEMMA AheadIsOrder ==
  ASSUME NEW n \in Names, NEW h \in Names
  PROVE  /\ n # h => Ahead(n, h) \/ Ahead(h, n)
         /\ ~(Ahead(n, h) /\ (Ahead(h, n) \/ n = h))
         /\ \A g : Ahead(g, n) /\ Ahead(n, h) => Ahead(g, h)
<1>1. DOMAIN Order \subseteq Int
  BY UpdateAssumption, LenProperties
<1>2. PICK j \in DOMAIN Order : Order[j] = n
  BY DEF Names
<1>3. PICK k \in DOMAIN Order : Order[k] = h
  BY DEF Names
<1>4. \A i \in DOMAIN Order : (Order[i] = n => i = j) /\ (Order[i] = h => i = k)
  BY <1>2, <1>3, UpdateAssumption
<1>5. n # h => j < k \/ k < j
  BY <1>1, <1>2, <1>3
<1>6. Ahead(n, h) => j < k
  BY <1>4 DEF Ahead
<1>7. Ahead(h, n) => k < j
  BY <1>4 DEF Ahead
<1>8. ASSUME NEW g, Ahead(g, n), Ahead(n, h) PROVE Ahead(g, h)
  <2>1. PICK i \in DOMAIN Order : Order[i] = g /\ i < j
    BY <1>4, <1>8 DEF Ahead
  <2>2. i < k
    BY <1>1, <1>6, <1>8, <2>1
  <2> QED
    BY <1>3, <2>1, <2>2 DEF Ahead
<1>9. n = h => j = k
  BY <1>2, <1>4
<1>10. n # h => Ahead(n, h) \/ Ahead(h, n)
  BY <1>2, <1>3, <1>5 DEF Ahead
<1> QED
  BY <1>1, <1>6, <1>7, <1>8, <1>9, <1>10

\* No two slots have the same bit.
LEMMA BitsAreApart ==
  ASSUME IsBuild(new), NEW files \in SUBSET Wanted,
         NEW s \in SlotsIn(files), NEW t \in SlotsIn(files), BitIn(files, s) = BitIn(files, t)
  PROVE  s = t
<1> DEFINE upto(x) == {y \in SlotsIn(files) : NotAfter(y, x)}
<1>1. ASSUME NEW x \in SlotsIn(files), NEW y \in SlotsIn(files), x # y, NotAfter(x, y)
      PROVE  BitIn(files, x) # BitIn(files, y)
  <2>1. PICK n \in files, i \in Nat : x = <<n, i>> /\ n \in Names
    BY SlotIsPair
  <2>2. PICK h \in files, j \in Nat : y = <<h, j>> /\ h \in Names
    BY SlotIsPair
  <2>3. upto(x) \subseteq upto(y)
    <3> SUFFICES ASSUME NEW z \in SlotsIn(files), NotAfter(z, x) PROVE NotAfter(z, y)
      OBVIOUS
    <3>1. PICK g \in files, k \in Nat : z = <<g, k>> /\ g \in Names
      BY SlotIsPair
    <3>2. Ahead(g, n) \/ (g = n /\ k <= i)
      BY <2>1, <3>1 DEF NotAfter
    <3>3. Ahead(n, h) \/ (n = h /\ i <= j)
      BY <1>1, <2>1, <2>2 DEF NotAfter
    <3>4. Ahead(g, n) /\ Ahead(n, h) => Ahead(g, h)
      BY <2>1, <2>2, AheadIsOrder
    <3>5. Ahead(g, h) \/ (g = h /\ k <= j)
      BY <3>2, <3>3, <3>4
    <3> QED
      BY <2>2, <3>1, <3>5 DEF NotAfter
  <2>4. y \in upto(y) /\ y \notin upto(x)
    <3>1. NotAfter(y, y)
      BY <2>2 DEF NotAfter
    <3>2. Ahead(n, h) \/ (n = h /\ i <= j)
      BY <1>1, <2>1, <2>2 DEF NotAfter
    <3>3. ~(Ahead(h, n) \/ (h = n /\ j <= i))
      BY <1>1, <2>1, <2>2, <3>2, AheadIsOrder
    <3>4. ~NotAfter(y, x)
      BY <2>1, <2>2, <3>3 DEF NotAfter
    <3> QED
      BY <3>1, <3>4
  <2>5. IsFiniteSet(upto(y))
    BY SlotsFinite, FS_Subset
  <2>6. Cardinality(upto(x)) # Cardinality(upto(y))
    BY <2>3, <2>4, <2>5, FS_Subset
  <2> QED
    BY <2>6 DEF BitIn
<1>2. NotAfter(s, t) \/ NotAfter(t, s)
  <2>1. PICK n \in files, i \in Nat : s = <<n, i>> /\ n \in Names
    BY SlotIsPair
  <2>2. PICK h \in files, j \in Nat : t = <<h, j>> /\ h \in Names
    BY SlotIsPair
  <2>3. n # h => Ahead(n, h) \/ Ahead(h, n)
    BY <2>1, <2>2, AheadIsOrder
  <2>4. i <= j \/ j <= i
    OBVIOUS
  <2> QED
    BY <2>1, <2>2, <2>3, <2>4 DEF NotAfter
<1> QED
  BY <1>1, <1>2
-----------------------------------------------------------------------------
(***************************************************************************)
(* The estimate.                                                           *)
(***************************************************************************)

\* A file the estimate counts is a file of the plan.
LEMMA ChangedIsPlanned ==
  ASSUME NEW m \in DOMAIN new
  PROVE  U!ChangedIn(m) \subseteq U!DiffIn(m)
<1> SUFFICES ASSUME NEW n \in U!ChangedIn(m), n \in U!Intact(m)
             PROVE  Installed[m][n] # new[m][n]
  BY DEF U!ChangedIn, U!DiffIn
<1>1. m \in DOMAIN Installed /\ n \in DOMAIN Installed[m]
  BY DEF U!Intact
<1> QED
  BY <1>1 DEF U!ChangedIn, U!Both

\* A chunk the estimate counts has no place in the old version of its file.
LEMMA CountedIsNowhere ==
  ASSUME NEW m \in DOMAIN new, NEW n, NEW c, c \notin U!HeldIn(m)
  PROVE  U!Places(m, n, c) = {}
<1> SUFFICES ASSUME n \in U!Intact(m),
                    NEW j \in DOMAIN Installed[m][n], Installed[m][n][j] = c
             PROVE  FALSE
  BY DEF U!Places
<1>1. m \in U!Both /\ n \in DOMAIN Installed[m]
  BY DEF U!Intact, U!Both
<1>2. c \in U!ChunksOf(Installed[m][n])
  BY DEF U!ChunksOf
<1> QED
  BY <1>1, <1>2 DEF U!HeldIn

\* The chunks announced are among those of the plan without an old offset.
LEMMA EstimateBelowPlan ==
  ASSUME IsBuild(new), PlanIsCurrent PROVE EstimateIsLowerBound
<1> SUFFICES ASSUME pc = "scan", plan.kind = "update", NEW c \in U!Announced
             PROVE  \E s \in Slots : /\ plan.offsets[s[1]][s[2]] = 0
                                     /\ c = Content(s[1])[s[2]]
  BY DEF EstimateIsLowerBound
<1>1. plan = UpdatePlanned
  BY DEF PlanIsCurrent
<1>2. c \in U!Estimated
  BY DEF U!Announced
<1>3a. PICK m \in DOMAIN new : \E n \in U!ChangedIn(m) : c \in U!ChunksOf(new[m][n]) \ U!HeldIn(m)
  BY <1>2 DEF U!Estimated
<1>3. PICK n \in U!ChangedIn(m) : c \in U!ChunksOf(new[m][n]) \ U!HeldIn(m)
  BY <1>3a
<1>4. n \in DOMAIN new[m] /\ n \in U!Diff
  BY <1>3, ChangedIsPlanned DEF U!ChangedIn, U!Diff
<1>5. U!FieldOf(n) = m /\ Content(n) = new[m][n]
  BY <1>4, FieldIsItsOwn DEF Content, U!Content
<1>6. PICK i \in DOMAIN Content(n) : Content(n)[i] = c
  BY <1>3, <1>5 DEF U!ChunksOf
<1>7. U!Offset(n, c) = 0
  BY <1>3, <1>5, CountedIsNowhere DEF U!Offset
<1>8. plan.files = U!Diff /\ plan.offsets = U!OldOffsets
  BY <1>1 DEF UpdatePlanned
<1>9. plan.offsets[n][i] = 0
  BY <1>4, <1>6, <1>7, <1>8 DEF U!OldOffsets, Content
<1>10. <<n, i>> \in Slots
  BY <1>4, <1>6, <1>8, SlotOf DEF Slots
<1> QED
  BY <1>6, <1>9, <1>10

\* What the disk calls for changes with the disk, the tag and the builds only.
LEMMA PlanFollows ==
  ASSUME UNCHANGED <<old, new, disk, tag>> PROVE UpdatePlanned' = UpdatePlanned
BY DEF UpdatePlanned, Installed, U!DiffFields, U!Diff, U!DiffIn, U!Intact, U!Deleted, U!Both,
       U!OldOffsets, U!Offset, U!Places, U!Content, U!FieldOf, U!Max

LEMMA PlanStep == PlanIsCurrent /\ [Next]_vars => PlanIsCurrent'
<1> SUFFICES ASSUME PlanIsCurrent, [Next]_vars PROVE PlanIsCurrent'
  OBVIOUS
<1>1. CASE UNCHANGED vars
  BY <1>1, PlanFollows DEF vars, buildVars, PlanIsCurrent
<1>2. CASE StartUpdate /\ UNCHANGED buildVars
  <2>1. UNCHANGED <<old, new, disk, tag>>
    BY <1>2 DEF StartUpdate, Start, buildVars
  <2>2. plan' = UpdatePlanned
    BY <1>2 DEF StartUpdate, Start
  <2> QED
    BY <2>1, <2>2, PlanFollows DEF PlanIsCurrent
<1>3. CASE StartDownload
  BY <1>3 DEF StartDownload, Start, FreshPlan, PlanIsCurrent
<1>4. CASE Next /\ ~StartUpdate /\ ~StartDownload
  <2>1. pc' # "scan"
    BY <1>4 DEF Next, Refuse, Scan, EagerWrite, EagerSkip, Handle, Assemble, Edit, ReturnError,
                Complete, Delete, WriteTag, ReturnOk, End, Crash
  <2> QED
    BY <2>1 DEF PlanIsCurrent
<1> QED
  BY <1>1, <1>2, <1>3, <1>4 DEF Next
-----------------------------------------------------------------------------
(***************************************************************************)
(* The old chunks.                                                         *)
(***************************************************************************)

\* A set of positions has a largest.
LEMMA LargestIsThere ==
  ASSUME NEW k \in Nat, NEW S \in SUBSET (1 .. k), S # {}
  PROVE  U!Max(S) \in S
<1> DEFINE T == {t \in Nat : \E x \in S : t = k - x}
           R == OpToRel(<, Nat)
<1>1. \A x \in S : k - x \in T
  OBVIOUS
<1>2. T \subseteq Nat /\ T # {}
  BY <1>1
<1>3a. \E t \in T : \A u \in T : ~(<<u, t>> \in R)
  <2> HIDE DEF T, R
  <2>1. IsWellFoundedOn(R, Nat)
    BY NatLessThanWellFounded, Zenon DEF R
  <2> QED
    BY <1>2, <2>1, WFMin
<1>3b. PICK t \in T : \A u \in T : ~(<<u, t>> \in R)
  BY <1>3a, Zenon
<1>3. \A u \in T : ~(u < t)
  BY <1>2, <1>3b DEF OpToRel
<1>4. PICK x \in S : t = k - x
  OBVIOUS
<1>5. \A y \in S : x >= y
  BY <1>1, <1>3, <1>4
<1> QED
  BY <1>4, <1>5 DEF U!Max

\* An offset the plan has is one in the installed version of an intact file.
LEMMA OffsetIsPlace ==
  ASSUME Shape, NEW n \in Wanted, NEW c, U!Offset(n, c) # 0
  PROVE  \E m \in DOMAIN Installed :
           /\ n \in DOMAIN Installed[m] /\ Len(disk[n]) = Len(Installed[m][n])
           /\ U!Offset(n, c) \in 1 .. Len(Installed[m][n])
           /\ Installed[m][n][U!Offset(n, c)] = c
<1> DEFINE m == U!FieldOf(n)
           places == U!Places(m, n, c)
<1>1. places # {} /\ U!Offset(n, c) = U!Max(places)
  BY DEF U!Offset
<1>2. n \in U!Intact(m) /\ places = {j \in DOMAIN Installed[m][n] : Installed[m][n][j] = c}
  BY <1>1 DEF U!Places
<1>3. m \in DOMAIN Installed /\ n \in DOMAIN Installed[m] /\ Len(disk[n]) = Len(Installed[m][n])
  BY <1>2 DEF U!Intact
<1>4. Installed[m][n] \in Seq(Nat \ {0})
  BY <1>3 DEF Installed, Shape, IsBuild
<1>5. DOMAIN Installed[m][n] = 1 .. Len(Installed[m][n]) /\ Len(Installed[m][n]) \in Nat
  BY <1>4, LenProperties
<1>6. U!Max(places) \in places
  BY <1>1, <1>2, <1>5, LargestIsThere
<1> QED
  BY <1>1, <1>2, <1>3, <1>5, <1>6

LEMMA PlanIsReadable ==
  ASSUME Shape, NEW n \in U!Diff, n \notin Unlike(UpdatePlanned), NEW i \in DOMAIN Content(n),
         NEW at, at = UpdatePlanned.offsets[n][i], at # 0
  PROVE  at <= Len(disk[n]) /\ disk[n][at] = Content(n)[i]
<1>1. n \in Wanted
  BY DEF U!Diff, U!DiffIn, Wanted, U!AssetsOf
<1>2. at = U!Offset(n, Content(n)[i])
  BY DEF UpdatePlanned, U!OldOffsets, Content
<1>3. PICK m \in DOMAIN Installed :
        /\ n \in DOMAIN Installed[m] /\ Len(disk[n]) = Len(Installed[m][n])
        /\ at \in 1 .. Len(Installed[m][n])
        /\ Installed[m][n][at] = Content(n)[i]
  BY <1>1, <1>2, OffsetIsPlace
<1>4. UpdatePlanned.offsets[n] # [j \in DOMAIN Content(n) |-> 0]
  OBVIOUS
<1>5. n \in UpdatePlanned.files
  BY DEF UpdatePlanned
<1>6. disk[n] = Installed[m][n]
  BY <1>3, <1>4, <1>5 DEF Unlike
<1> QED
  BY <1>3, <1>6

LEMMA PureIsReadable == ASSUME NEW n, Pure(n) PROVE Readable(n)
BY DEF Pure, Readable

\* What is eager was not skipped, is in the plan, and has no old chunk.
LEMMA EagerIsPure ==
  ASSUME NEW n \in Eager
  PROVE  n \in plan.files \ skipped /\ Pure(n)
<1>1. n \in plan.files \ skipped
  BY DEF Eager, M!EagerFiles
<1>2. ASSUME NEW i \in DOMAIN Content(n) PROVE plan.offsets[n][i] = 0
  <2>1. <<n, i>> \in Slots
    BY <1>1, SlotOf DEF Slots
  <2>2. <<n, i>> \in M!SlotsOf(n)
    BY <2>1 DEF M!SlotsOf
  <2> QED
    BY <2>1, <2>2 DEF Eager, M!EagerFiles
<1> QED
  BY <1>1, <1>2 DEF Pure

\* An eager slot is one of its file, at a position of its content.
LEMMA MissingIsSlot ==
  ASSUME Shape, NEW s \in Slots, Missing(s)
  PROVE  /\ s = <<s[1], s[2]>> /\ s[1] \in plan.files \ skipped /\ s[1] \in Wanted /\ s[1] \in Names
         /\ s[2] \in DOMAIN Content(s[1]) /\ Pure(s[1])
<1>1. \E n \in plan.files : \E i \in DOMAIN Content(n) : s = <<n, i>>
  BY SlotOf DEF Slots
<1>2. s[1] \in plan.files \ skipped /\ Pure(s[1])
  BY EagerIsPure DEF Missing
<1>3. s[1] \in Wanted /\ s[1] \in Names
  BY <1>2, ContentIsSeq DEF Shape
<1> QED
  BY <1>1, <1>2, <1>3

LEMMA OldChunksStep ==
  ASSUME Shape, OldChunksInv, [Next]_vars PROVE OldChunksInv'
<1> USE BuildsStay
<1>0. UNCHANGED <<old, new>>
  BY DEF Next, vars, buildVars
<1>1. CASE StartDownload
  BY <1>0, <1>1 DEF StartDownload, Start, FreshPlan, OldChunksInv, Readable
<1>2. CASE StartUpdate
  <2>1. pc' = "scan" /\ plan' = UpdatePlanned /\ disk' = disk /\ doubtful' = Unlike(UpdatePlanned)
    BY <1>2 DEF StartUpdate, Start
  <2>2. UpdatePlanned.files = U!Diff
    BY DEF UpdatePlanned
  <2>3. ASSUME NEW n \in U!Diff, n \notin Unlike(UpdatePlanned) PROVE Readable(n)'
    BY <1>0, <2>1, <2>3, PlanIsReadable DEF Readable
  <2> QED
    BY <2>1, <2>2, <2>3 DEF OldChunksInv
<1>3. CASE Scan
  <2>1. pc = "scan" /\ pc' = "run" /\ plan' = plan /\ doubtful' = doubtful
    BY <1>3 DEF Scan
  <2>2. ASSUME NEW n \in plan.files \ done' PROVE Readable(n)' \/ n \in doubtful
    <3>1. CASE Pure(n)
      BY <1>0, <2>1, <3>1 DEF Pure, Readable
    <3>2. CASE ~Pure(n)
      <4>1. n \in Names
        BY ContentIsSeq DEF Shape
      <4>2. disk'[n] = disk[n]
        BY <1>3, <3>2, <4>1 DEF Scan, Doomed
      <4> QED
        BY <1>0, <2>1, <4>2 DEF OldChunksInv, Readable
    <3> QED
      BY <3>1, <3>2
  <2> QED
    BY <2>1, <2>2 DEF OldChunksInv
<1>4. ASSUME NEW s \in Slots, EagerWrite(s) PROVE OldChunksInv'
  <2>1. /\ pc = "run" /\ pc' = "run" /\ plan' = plan /\ doubtful' = doubtful /\ done \subseteq done'
        /\ Missing(s) /\ \E c : disk' = [disk EXCEPT ![s[1]] = c]
    BY <1>4 DEF EagerWrite, Handle
  <2>2. Pure(s[1])
    BY <2>1, MissingIsSlot
  <2>3. ASSUME NEW n \in plan.files \ done PROVE Readable(n)' \/ n \in doubtful
    <3>1. CASE n = s[1]
      BY <1>0, <2>1, <2>2, <3>1 DEF Pure, Readable
    <3>2. CASE n # s[1]
      <4>1. disk'[n] = disk[n]
        BY <2>1, <3>2
      <4> QED
        BY <1>0, <2>1, <4>1 DEF OldChunksInv, Readable
    <3> QED
      BY <3>1, <3>2
  <2> QED
    BY <2>1, <2>3 DEF OldChunksInv
<1>5. ASSUME NEW s \in Slots, EagerSkip(s) PROVE OldChunksInv'
  <2>1. /\ pc = "run" /\ pc' = "run" /\ plan' = plan /\ doubtful' = doubtful /\ done \subseteq done'
        /\ disk' = disk
    BY <1>5 DEF EagerSkip, Handle
  <2> QED
    BY <1>0, <2>1 DEF OldChunksInv, Readable
<1>6. ASSUME NEW n \in Names, Assemble(n) PROVE OldChunksInv'
  <2>1. /\ pc = "run" /\ pc' = "run" /\ plan' = plan /\ doubtful' = doubtful /\ done' = done \cup {n}
        /\ disk' = [disk EXCEPT ![n] = Content(n)]
    BY <1>6 DEF Assemble, history
  <2>2. ASSUME NEW h \in plan.files \ done' PROVE Readable(h)' \/ h \in doubtful
    <3>1. disk'[h] = disk[h]
      BY <2>1
    <3> QED
      BY <1>0, <2>1, <3>1 DEF OldChunksInv, Readable
  <2> QED
    BY <2>1, <2>2 DEF OldChunksInv
<1>7. CASE Refuse \/ (\E n \in Names : Edit(n)) \/ ReturnError \/ Complete \/ Delete \/ WriteTag
           \/ ReturnOk \/ Crash
  <2>1. pc' \notin {"scan", "run"}
    BY <1>7 DEF Refuse, Edit, ReturnError, Complete, Delete, WriteTag, ReturnOk, Crash, End
  <2> QED
    BY <2>1 DEF OldChunksInv
<1>8. CASE UNCHANGED vars
  BY <1>0, <1>8 DEF vars, workVars, history, OldChunksInv, Readable
<1> QED
  BY <1>1, <1>2, <1>3, <1>4, <1>5, <1>6, <1>7, <1>8 DEF Next

LEMMA OldChunksFollow == OldChunksInv => OldChunksAreThere
BY DEF OldChunksInv, OldChunksAreThere, Assembled
-----------------------------------------------------------------------------
(***************************************************************************)
(* What a step does to the files.                                          *)
(***************************************************************************)

LEMMA LargerOfTwo ==
  ASSUME NEW a \in Nat, NEW b \in Nat
  PROVE  /\ Max({a, b}) \in Nat /\ Max({a, b}) >= a /\ Max({a, b}) >= b
         /\ Max({a, b}) = a \/ Max({a, b}) = b
<1>1. \E x \in {a, b} : \A y \in {a, b} : x >= y
  OBVIOUS
<1>2. Max({a, b}) \in {a, b} /\ \A y \in {a, b} : Max({a, b}) >= y
  BY <1>1, Zenon DEF Max
<1> QED
  BY <1>2

LEMMA LaidKeeps ==
  ASSUME Shape, NEW n \in Wanted
  PROVE  /\ Laid(n) \in Seq(Nat)
         /\ Len(Laid(n)) >= Len(Content(n))
         /\ Len(disk[n]) <= Len(Content(n)) => Len(Laid(n)) = Len(Content(n))
         /\ DOMAIN Laid(n) = 1 .. Len(Laid(n))
         /\ \A i \in DOMAIN disk[n] : i \in DOMAIN Laid(n) /\ Laid(n)[i] = disk[n][i]
<1> DEFINE a == Len(Content(n))
           b == Len(disk[n])
           k == Max({a, b})
<1>1. a \in Nat /\ n \in Names
  BY ContentIsSeq DEF Shape
<1>2. disk[n] \in Seq(Nat)
  BY <1>1 DEF Shape
<1>3. b \in Nat /\ DOMAIN disk[n] = 1 .. b /\ \A i \in 1 .. b : disk[n][i] \in Nat
  BY <1>2, LenProperties, ElementOfSeq
<1>4. k \in Nat /\ k >= a /\ k >= b /\ (k = a \/ k = b)
  BY <1>1, <1>3, LargerOfTwo
<1> HIDE DEF a, b, k
<1>5. Laid(n) = [i \in 1 .. k |-> IF i \in DOMAIN disk[n] THEN disk[n][i] ELSE 0]
  BY DEF Laid, a, b, k
<1>6. \A i \in 1 .. k : (IF i \in DOMAIN disk[n] THEN disk[n][i] ELSE 0) \in Nat
  BY <1>3
<1>7. Laid(n) \in Seq(Nat)
  BY <1>4, <1>5, <1>6, IsASeq
<1>8. Len(Laid(n)) = k /\ DOMAIN Laid(n) = 1 .. k
  BY <1>4, <1>5, <1>7, LenProperties
<1>9. \A i \in 1 .. b : i \in 1 .. k /\ Laid(n)[i] = disk[n][i]
  BY <1>3, <1>4, <1>5
<1>10. b <= a => k = a
  BY <1>1, <1>3, <1>4
<1> QED
  BY <1>3, <1>4, <1>7, <1>8, <1>9, <1>10 DEF a, b

\* A step may take nothing that is right from any file of the new build.
Keeps ==
  \A n \in Wanted :
    /\ \A i \in DOMAIN Content(n) : Good(n, i) => Good(n, i)'
    /\ IsNew(n) => IsNew(n)'
    /\ SizeIsNew(n) => SizeIsNew(n)'

LEMMA SameFilesKeep ==
  ASSUME UNCHANGED <<new, disk>> PROVE Keeps
BY BuildsStay DEF Keeps, Good, IsNew, SizeIsNew

LEMMA WriteKeeps ==
  ASSUME Shape, NEW s \in Slots, EagerWrite(s), new' = new
  PROVE  /\ Keeps
         /\ disk' \in [Names -> Seq(Nat)]
         /\ Good(s[1], s[2])'
         /\ SizeIsNew(s[1])' \/ s[1] \in struck'
<1> USE BuildsStay
<1> DEFINE n == s[1]
           i == s[2]
           x == [Laid(n) EXCEPT ![i] = Content(n)[i]]
<1>1. Missing(s) /\ disk' = [disk EXCEPT ![n] = x]
  BY DEF EagerWrite, Handle
<1>2. n \in Wanted /\ n \in Names /\ i \in DOMAIN Content(n)
  BY <1>1, MissingIsSlot
<1>3. /\ Content(n)[i] \in Nat /\ Len(Content(n)) \in Nat /\ DOMAIN Content(n) = 1 .. Len(Content(n))
      /\ Content(n) = [j \in 1 .. Len(Content(n)) |-> Content(n)[j]]
  BY <1>2, ContentIsSeq DEF Shape
<1>4. disk[n] \in Seq(Nat)
  BY <1>2 DEF Shape
<1>5. Len(disk[n]) \in Nat /\ DOMAIN disk[n] = 1 .. Len(disk[n])
  BY <1>4, LenProperties
<1>6. i \in 1 .. Len(Laid(n)) /\ Len(Laid(n)) \in Nat /\ Laid(n) \in Seq(Nat)
  <2>1. Laid(n) \in Seq(Nat) /\ Len(Laid(n)) >= Len(Content(n))
    BY <1>2, LaidKeeps
  <2>2. Len(Laid(n)) \in Nat
    BY <2>1, LenProperties
  <2> QED
    BY <1>2, <1>3, <2>1, <2>2
<1>7. x \in Seq(Nat) /\ Len(x) = Len(Laid(n))
  BY <1>3, <1>6, ExceptSeq
<1>8. DOMAIN x = 1 .. Len(Laid(n)) /\ x[i] = Content(n)[i] /\ \A j \in DOMAIN disk[n] : j # i => x[j] = disk[n][j]
  <2>1. DOMAIN Laid(n) = 1 .. Len(Laid(n)) /\ \A j \in DOMAIN disk[n] : j \in DOMAIN Laid(n) /\ Laid(n)[j] = disk[n][j]
    BY <1>2, LaidKeeps
  <2> QED
    BY <1>6, <2>1
<1> HIDE DEF x
<1>9. disk'[n] = x /\ \A h \in Names : h # n => disk'[h] = disk[h]
  BY <1>1, <1>2 DEF Shape
<1>10. disk' \in [Names -> Seq(Nat)]
  BY <1>1, <1>7 DEF Shape
<1>11. Good(n, i)'
  BY <1>6, <1>8, <1>9 DEF Good
<1>12. Len(disk[n]) <= Len(Content(n)) => Len(x) = Len(Content(n))
  BY <1>2, <1>7, LaidKeeps
<1>13. SizeIsNew(n)' \/ n \in struck'
  <2>1. CASE Len(disk[n]) <= Len(Content(n))
    BY <1>9, <1>12, <2>1 DEF SizeIsNew
  <2>2. CASE ~(Len(disk[n]) <= Len(Content(n)))
    <3>1. Len(disk[n]) > Len(Content(n))
      BY <1>3, <1>5, <2>2
    <3> QED
      BY <3>1 DEF EagerWrite
  <2> QED
    BY <2>1, <2>2
<1>14. ASSUME NEW h \in Wanted
       PROVE  /\ \A j \in DOMAIN Content(h) : Good(h, j) => Good(h, j)'
              /\ IsNew(h) => IsNew(h)'
              /\ SizeIsNew(h) => SizeIsNew(h)'
  <2>1. CASE h # n
    <3>1. h \in Names
      BY ContentIsSeq DEF Shape
    <3> QED
      BY <1>9, <2>1, <3>1 DEF Good, IsNew, SizeIsNew
  <2>2. CASE h = n
    <3>1. \A j \in DOMAIN Content(n) : Good(n, j) => Good(n, j)'
      <4> SUFFICES ASSUME NEW j \in DOMAIN Content(n), Good(n, j), j # i PROVE Good(n, j)'
        BY <1>11
      <4>1. j \in DOMAIN disk[n] /\ x[j] = Content(n)[j]
        BY <1>8 DEF Good
      <4>2. j \in DOMAIN x
        BY <1>2, <1>8, <4>1, LaidKeeps
      <4> QED
        BY <1>9, <4>1, <4>2 DEF Good
    <3>2. SizeIsNew(n) => SizeIsNew(n)'
      <4> SUFFICES ASSUME Len(disk[n]) = Len(Content(n)) PROVE Len(x) = Len(Content(n))
        BY <1>9 DEF SizeIsNew
      <4>1. Len(disk[n]) <= Len(Content(n))
        BY <1>5
      <4> QED
        BY <1>12, <4>1
    <3>3. IsNew(n) => IsNew(n)'
      <4> SUFFICES ASSUME disk[n] = Content(n) PROVE x = Content(n)
        BY <1>9 DEF IsNew
      <4>1. Len(disk[n]) <= Len(Content(n))
        BY <1>5
      <4>2. Len(x) = Len(Content(n)) /\ Len(Laid(n)) = Len(Content(n))
        BY <1>7, <1>12, <4>1
      <4>3. \A j \in 1 .. Len(Content(n)) : x[j] = Content(n)[j]
        BY <1>5, <1>8
      <4>4. x = [j \in 1 .. Len(Content(n)) |-> x[j]]
        BY <1>7, <1>8, <4>2, LenProperties, SeqEqual, Z3
      <4> QED
        BY <1>3, <4>3, <4>4
    <3> QED
      BY <2>2, <3>1, <3>2, <3>3
  <2> QED
    BY <2>1, <2>2
<1> QED
  BY <1>10, <1>11, <1>13, <1>14 DEF Keeps

LEMMA AssembleKeeps ==
  ASSUME Shape, NEW n \in Names, Assemble(n), new' = new
  PROVE  /\ Keeps
         /\ disk' \in [Names -> Seq(Nat)]
         /\ IsNew(n)' /\ n \in plan.files
<1> USE BuildsStay
<1>1. disk' = [disk EXCEPT ![n] = Content(n)] /\ n \in plan.files /\ n \in Wanted
  BY DEF Assemble, Assembled, Shape
<1>2. Content(n) \in Seq(Nat)
  BY <1>1, WantedIsKnown, SeqMonotonic DEF Shape
<1>3. disk' \in [Names -> Seq(Nat)]
  BY <1>1, <1>2 DEF Shape
<1>4. disk'[n] = Content(n)
  BY <1>1 DEF Shape
<1>5. IsNew(n)'
  BY <1>4 DEF IsNew
<1>6. Keeps
  <2> SUFFICES ASSUME NEW h \in Wanted
               PROVE  /\ \A j \in DOMAIN Content(h) : Good(h, j) => Good(h, j)'
                      /\ IsNew(h) => IsNew(h)'
                      /\ SizeIsNew(h) => SizeIsNew(h)'
    BY DEF Keeps
  <2>1. CASE h = n
    BY <1>4, <2>1 DEF Good, IsNew, SizeIsNew
  <2>2. CASE h # n
    <3>1. disk'[h] = disk[h]
      BY <1>1, <2>2
    <3> QED
      BY <3>1 DEF Good, IsNew, SizeIsNew
  <2> QED
    BY <2>1, <2>2
<1> QED
  BY <1>1, <1>3, <1>5, <1>6
-----------------------------------------------------------------------------
LEMMA SyncIs ==
  ASSUME Shape, NEW some, Sync(some)
  PROVE  /\ bitmap' = [hash |-> bitmap.hash, total |-> bitmap.total,
                       bits |-> some, layouts |-> bitmap.layouts]
         /\ stale' = stale \ Cleared
BY DEF Shape, Sync

Kept == Matching /\ bitmap.total = Total

LEMMA ScanIs ==
  ASSUME Shape, Scan
  PROVE  /\ bitmap' = [hash |-> bitmap'.hash, total |-> bitmap'.total,
                       bits |-> bitmap'.bits, layouts |-> bitmap'.layouts]
         /\ bitmap'.bits = IF Kept THEN bitmap.bits ELSE {}
         /\ bitmap'.layouts = (IF Kept THEN bitmap.layouts ELSE {}) \cup {plan.files}
         /\ bits' = bitmap'.bits \ UNION {BitsOf(n) : n \in IF is_resume THEN plan.files \ Accepted ELSE {}}
         /\ stale' = IF Kept THEN stale \cup (IF is_resume THEN Doomed ELSE {}) ELSE {}
         /\ skipped' = IF is_resume THEN Accepted ELSE {}
         /\ done' = skipped' /\ struck' = struck \cup (Misled \cap skipped')
         /\ disk' = [n \in Names |-> IF is_resume /\ n \in Doomed THEN << >> ELSE disk[n]]
         /\ pc = "scan" /\ pc' = "run"
         /\ UNCHANGED <<tag, saved, plan, is_resume, handled, result, doubtful>>
<1>1. Doomed \cap (plan.files \ Accepted) = Doomed /\ Doomed \cap {} = {}
  BY DEF Doomed
<1>2. /\ skipped' = IF is_resume THEN Accepted ELSE {}
      /\ done' = skipped' /\ struck' = struck \cup (Misled \cap skipped')
      /\ pc = "scan" /\ pc' = "run"
      /\ UNCHANGED <<tag, saved, plan, is_resume, handled, result, doubtful>>
  BY DEF Scan
<1>3. disk' = [n \in Names |-> IF is_resume /\ n \in Doomed THEN << >> ELSE disk[n]]
  BY DEF Scan
<1>4. CASE Kept
  <2>1. bitmap' = [bitmap EXCEPT !.layouts = bitmap.layouts \cup {plan.files}]
    BY <1>4 DEF Scan, Kept
  <2>2. bitmap' = [hash |-> bitmap.hash, total |-> bitmap.total,
                   bits |-> bitmap.bits, layouts |-> bitmap.layouts \cup {plan.files}]
    BY <2>1 DEF Shape
  <2>3. bits' = bitmap.bits \ UNION {BitsOf(n) : n \in IF is_resume THEN plan.files \ Accepted ELSE {}}
    BY <1>4 DEF Scan, Kept
  <2>4. stale' = stale \cup (IF is_resume THEN Doomed ELSE {})
    BY <1>1, <1>4 DEF Scan, Kept
  <2>5. bitmap'.bits = bitmap.bits /\ bitmap'.layouts = bitmap.layouts \cup {plan.files}
    BY <2>2
  <2>6. bitmap' = [hash |-> bitmap'.hash, total |-> bitmap'.total,
                   bits |-> bitmap'.bits, layouts |-> bitmap'.layouts]
    BY <2>2
  <2> QED
    BY <1>2, <1>3, <1>4, <2>3, <2>4, <2>5, <2>6
<1>5. CASE ~Kept
  <2>1. bitmap' = [hash |-> plan.hash, total |-> Total, bits |-> {}, layouts |-> {} \cup {plan.files}]
    BY <1>5 DEF Scan, Kept
  <2>2. bits' = {} \ UNION {BitsOf(n) : n \in IF is_resume THEN plan.files \ Accepted ELSE {}}
    BY <1>5 DEF Scan, Kept
  <2>3. stale' = {}
    BY <1>5 DEF Scan, Kept
  <2>4. bitmap'.bits = {} /\ bitmap'.layouts = {} \cup {plan.files}
    BY <2>1
  <2>5. bitmap' = [hash |-> bitmap'.hash, total |-> bitmap'.total,
                   bits |-> bitmap'.bits, layouts |-> bitmap'.layouts]
    BY <2>1
  <2> QED
    BY <1>2, <1>3, <1>5, <2>2, <2>3, <2>4, <2>5
<1> QED
  BY <1>4, <1>5

LEMMA ShapeStep ==
  ASSUME Shape, [Next]_vars PROVE Shape'
<1> USE BuildsStay
<1>0. UNCHANGED <<old, new>>
  BY DEF Next, vars, buildVars
<1>1. IsBuild(old)' /\ IsBuild(new)' /\ Wanted' = Wanted
  <2>1. IsBuild(old)' /\ IsBuild(new)'
    BY <1>0 DEF Shape, IsBuild
  <2> QED
    BY <1>0, <2>1
<1>2. << >> \in Seq(Nat)
  BY EmptySeq
<1>3. CASE UNCHANGED vars
  BY <1>1, <1>3 DEF Shape, vars
<1>4. CASE StartDownload
  <2>1. pc' = "scan" /\ plan'.files = Wanted /\ UNCHANGED <<disk, bitmap>>
    BY <1>4 DEF StartDownload, Start, FreshPlan
  <2> QED
    BY <1>1, <2>1 DEF Shape
<1>5. CASE StartUpdate
  <2>1. pc' = "scan" /\ plan'.files = U!Diff /\ UNCHANGED <<disk, bitmap>>
    BY <1>5 DEF StartUpdate, Start, UpdatePlanned
  <2>2. U!Diff \subseteq Wanted
    BY DEF U!Diff, U!DiffIn, Wanted, U!AssetsOf
  <2> QED
    BY <1>1, <2>1, <2>2 DEF Shape
<1>6. CASE Scan
  <2>1. disk' \in [Names -> Seq(Nat)]
    BY <1>2, <1>6, ScanIs DEF Shape
  <2>2. bitmap'.layouts \subseteq bitmap.layouts \cup {plan.files} /\ pc' = "run" /\ plan' = plan
    BY <1>6, ScanIs
  <2>3. \A files \in bitmap'.layouts : files \subseteq Wanted
    BY <2>2 DEF Shape
  <2>4. bitmap' = [hash |-> bitmap'.hash, total |-> bitmap'.total,
                   bits |-> bitmap'.bits, layouts |-> bitmap'.layouts]
    BY <1>6, ScanIs
  <2> QED
    BY <1>1, <2>1, <2>2, <2>3, <2>4 DEF Shape
<1>7. ASSUME NEW s \in Slots, EagerWrite(s) PROVE Shape'
  <2>1. disk' \in [Names -> Seq(Nat)]
    BY <1>0, <1>7, WriteKeeps
  <2>2. UNCHANGED <<pc, plan, bitmap>>
    BY <1>7 DEF EagerWrite, Handle
  <2> QED
    BY <1>1, <2>1, <2>2 DEF Shape
<1>8. ASSUME NEW s \in Slots, EagerSkip(s) PROVE Shape'
  <2>1. UNCHANGED <<disk, pc, plan, bitmap>>
    BY <1>8 DEF EagerSkip, Handle
  <2> QED
    BY <1>1, <2>1 DEF Shape
<1>9. ASSUME NEW n \in Names, Assemble(n) PROVE Shape'
  <2>1. disk' \in [Names -> Seq(Nat)]
    BY <1>0, <1>9, AssembleKeeps
  <2>2. UNCHANGED <<pc, plan, bitmap>>
    BY <1>9 DEF Assemble
  <2> QED
    BY <1>1, <2>1, <2>2 DEF Shape
<1>10. ASSUME NEW n \in Names, Edit(n) PROVE Shape'
  <2>1. PICK len \in {0, 1, Len(disk[n])} : disk' = [disk EXCEPT ![n] = [i \in 1 .. len |-> 0]]
    BY <1>10 DEF Edit
  <2>2. len \in Nat
    <3>1. Len(disk[n]) \in Nat
      BY LenProperties DEF Shape
    <3> QED
      BY <3>1
  <2>3. [i \in 1 .. len |-> 0] \in Seq(Nat)
    BY <2>2, IsASeq
  <2>4. disk' \in [Names -> Seq(Nat)]
    BY <2>1, <2>3 DEF Shape
  <2>5. UNCHANGED <<pc, plan, bitmap>>
    BY <1>10 DEF Edit
  <2> QED
    BY <1>1, <2>4, <2>5 DEF Shape
<1>11. CASE Delete
  <2>1. disk' \in [Names -> Seq(Nat)]
    BY <1>2, <1>11 DEF Delete, Shape
  <2>2. pc' = "tag" /\ UNCHANGED <<plan, bitmap>>
    BY <1>11 DEF Delete
  <2> QED
    BY <1>1, <2>1, <2>2 DEF Shape
<1>12. CASE ReturnError \/ Complete \/ Crash
  <2>1. disk' = disk /\ pc' \in {"idle", "delete"} /\ plan'.files \subseteq plan.files
    BY <1>12 DEF ReturnError, Complete, Crash, End, NoPlan
  <2>2. bitmap' = bitmap \/ \E some : Sync(some)
    BY <1>12 DEF ReturnError, Complete, Crash, Persisted
  <2>3. /\ bitmap' = [hash |-> bitmap'.hash, total |-> bitmap'.total,
                      bits |-> bitmap'.bits, layouts |-> bitmap'.layouts]
        /\ bitmap'.layouts = bitmap.layouts
    <3>1. CASE bitmap' = bitmap
      BY <3>1 DEF Shape
    <3>2. ASSUME NEW some, Sync(some)
          PROVE  /\ bitmap' = [hash |-> bitmap'.hash, total |-> bitmap'.total,
                               bits |-> bitmap'.bits, layouts |-> bitmap'.layouts]
                 /\ bitmap'.layouts = bitmap.layouts
      BY <3>2, SyncIs
    <3> QED
      BY <2>2, <3>1, <3>2
  <2> QED
    BY <1>1, <2>1, <2>3 DEF Shape
<1>13. CASE Refuse \/ WriteTag \/ ReturnOk
  <2>1. pc' \in {"idle", "ok"} /\ plan'.files \subseteq plan.files /\ UNCHANGED <<disk, bitmap>>
    BY <1>13 DEF Refuse, WriteTag, ReturnOk, End, NoPlan, Shape
  <2> QED
    BY <1>1, <2>1 DEF Shape
<1> QED
  BY <1>3, <1>4, <1>5, <1>6, <1>7, <1>8, <1>9, <1>10, <1>11, <1>12, <1>13 DEF Next
-----------------------------------------------------------------------------
(***************************************************************************)
(* What the bits say.                                                      *)
(***************************************************************************)

LEMMA FileBitsKeep ==
  ASSUME Shape, FileBitsInv, UNCHANGED <<new, bitmap>>, stale \subseteq stale',
         \A n \in Wanted \ stale' : \A i \in DOMAIN Content(n) : Good(n, i) => Good(n, i)'
  PROVE  FileBitsInv'
<1> USE BuildsStay
<1> SUFFICES ASSUME NEW files, bitmap.layouts = {files}, NEW n \in files \ stale',
                    NEW i \in DOMAIN Content(n), BitIn(files, <<n, i>>) \in bitmap.bits
             PROVE  Good(n, i)'
  BY DEF FileBitsInv
<1>1. Good(n, i)
  BY DEF FileBitsInv
<1>2. n \in Wanted
  BY DEF Shape
<1> QED
  BY <1>1, <1>2

LEMMA SameFile ==
  ASSUME new' = new, NEW n, disk'[n] = disk[n]
  PROVE  /\ \A i \in DOMAIN Content(n) : Good(n, i)' = Good(n, i)
         /\ IsNew(n)' = IsNew(n) /\ SizeIsNew(n)' = SizeIsNew(n)
BY BuildsStay DEF Good, IsNew, SizeIsNew

\* A save writes bits that may be believed.
LEMMA SyncIsRight ==
  ASSUME Shape, MemoryBitsInv, pc = "run", NEW some \in SUBSET bits, Sync(some),
         UNCHANGED <<new, disk>>
  PROVE  FileBitsInv'
<1> USE BuildsStay
<1>1. bitmap'.layouts = bitmap.layouts /\ bitmap'.bits = some /\ stale' = stale \ Cleared
  BY SyncIs
<1> SUFFICES ASSUME NEW files, bitmap.layouts = {files}, NEW n \in files \ stale',
                    NEW i \in DOMAIN Content(n), BitIn(files, <<n, i>>) \in some
             PROVE  Good(n, i)'
  BY <1>1 DEF FileBitsInv
<1>2. plan.files = files
  BY DEF MemoryBitsInv
<1>3. Bit(<<n, i>>) \in bits
  BY <1>2 DEF Bit
<1>4. Good(n, i)
  <2>1. CASE n \in Cleared
    BY <1>3, <2>1 DEF MemoryBitsInv
  <2>2. CASE n \notin stale
    BY <1>2, <1>3, <2>2 DEF MemoryBitsInv
  <2> QED
    BY <1>1, <2>1, <2>2
<1> QED
  BY <1>4, SameFile

LEMMA FileBitsStep ==
  ASSUME Shape, FileBitsInv, MemoryBitsInv, [Next]_vars PROVE FileBitsInv'
<1>0. new' = new
  BY DEF Next, vars, buildVars
<1>1. CASE UNCHANGED <<disk, bitmap, stale>>
  BY <1>0, <1>1, FileBitsKeep, SameFile
<1>2. CASE StartDownload \/ StartUpdate \/ Refuse \/ WriteTag \/ ReturnOk \/ UNCHANGED vars
  BY <1>1, <1>2 DEF StartDownload, StartUpdate, Start, Refuse, WriteTag, ReturnOk, End, vars, history
<1>3. CASE Scan
  <2> USE BuildsStay
  <2> SUFFICES ASSUME NEW files, bitmap'.layouts = {files}, NEW n \in files \ stale',
                      NEW i \in DOMAIN Content(n), BitIn(files, <<n, i>>) \in bitmap'.bits
               PROVE  Good(n, i)'
    BY <1>0 DEF FileBitsInv
  <2>1. Kept
    BY <1>3, ScanIs
  <2>2. plan.files \in bitmap'.layouts /\ bitmap.layouts \subseteq bitmap'.layouts /\ bitmap.layouts # {}
    BY <1>3, <2>1, ScanIs DEF Kept, Matching
  <2>3. bitmap.layouts = {files} /\ plan.files = files
    BY <2>2
  <2>4. n \notin stale /\ ~(is_resume /\ n \in Doomed) /\ bitmap'.bits = bitmap.bits
    BY <1>3, <2>1, ScanIs
  <2>5. Good(n, i)
    BY <2>3, <2>4 DEF FileBitsInv
  <2>6. n \in Names
    BY <2>3, ContentIsSeq DEF Shape
  <2>7. disk'[n] = disk[n]
    BY <1>3, <2>4, <2>6, ScanIs
  <2> QED
    BY <1>0, <2>5, <2>7, SameFile
<1>4. ASSUME NEW s \in Slots, EagerWrite(s) PROVE FileBitsInv'
  <2>1. Keeps
    BY <1>0, <1>4, WriteKeeps
  <2>2. UNCHANGED <<bitmap, stale>>
    BY <1>4 DEF EagerWrite, Handle
  <2> QED
    BY <1>0, <2>1, <2>2, FileBitsKeep DEF Keeps
<1>5. ASSUME NEW s \in Slots, EagerSkip(s) PROVE FileBitsInv'
  BY <1>1, <1>5 DEF EagerSkip, Handle
<1>6. ASSUME NEW n \in Names, Assemble(n) PROVE FileBitsInv'
  <2>1. Keeps
    BY <1>0, <1>6, AssembleKeeps
  <2>2. UNCHANGED <<bitmap, stale>>
    BY <1>6 DEF Assemble, history
  <2> QED
    BY <1>0, <2>1, <2>2, FileBitsKeep DEF Keeps
<1>7. ASSUME NEW n \in Names, Edit(n) PROVE FileBitsInv'
  <2>1. bitmap' = bitmap /\ stale' = stale \cup {n} /\ \A h : h # n => disk'[h] = disk[h]
    BY <1>7 DEF Edit
  <2> QED
    BY <1>0, <2>1, FileBitsKeep, SameFile
<1>8. CASE Delete
  <2>1. PICK gone \in SUBSET plan.deleted :
          disk' = [n \in Names |-> IF n \in gone THEN << >> ELSE disk[n]] /\ stale' = stale \cup gone
    BY <1>8 DEF Delete
  <2>2. bitmap' = bitmap
    BY <1>8 DEF Delete
  <2>3. \A n \in Wanted \ stale' : disk'[n] = disk[n]
    BY <2>1, ContentIsSeq DEF Shape
  <2> QED
    BY <1>0, <2>1, <2>2, <2>3, FileBitsKeep, SameFile
<1>9. CASE ReturnError \/ Complete
  <2>1. pc = "run" /\ disk' = disk /\ Sync(bits)
    BY <1>9 DEF ReturnError, Complete, End
  <2> QED
    BY <1>0, <2>1, SyncIsRight
<1>10. CASE Crash
  <2>1. disk' = disk
    BY <1>10 DEF Crash, End
  <2>2. \/ UNCHANGED <<bitmap, stale>>
        \/ pc = "run" /\ \E some \in SUBSET bits : Sync(some)
    BY <1>10 DEF Crash, Persisted
  <2> QED
    BY <1>0, <1>1, <2>1, <2>2, SyncIsRight
<1> QED
  BY <1>2, <1>3, <1>4, <1>5, <1>6, <1>7, <1>8, <1>9, <1>10 DEF Next

LEMMA MemoryBitsStep ==
  ASSUME Shape, FileBitsInv', MemoryBitsInv, [Next]_vars PROVE MemoryBitsInv'
<1> USE BuildsStay
<1>0. new' = new
  BY DEF Next, vars, buildVars
<1>1. CASE pc' # "run"
  BY <1>1 DEF MemoryBitsInv
<1>2. CASE UNCHANGED <<pc, plan, bitmap, is_resume, skipped, bits, handled, disk, stale>>
  BY <1>0, <1>2, SameFile DEF MemoryBitsInv, Cleared, Bit
<1>3. CASE Scan
  <2>1. /\ plan.files \in bitmap'.layouts /\ plan' = plan
        /\ Cleared' = IF is_resume THEN plan.files \ Accepted ELSE {}
    <3>1. /\ plan' = plan /\ is_resume' = is_resume
          /\ skipped' = IF is_resume THEN Accepted ELSE {}
          /\ bitmap'.layouts = (IF Kept THEN bitmap.layouts ELSE {}) \cup {plan.files}
      BY <1>3, ScanIs
    <3>2. Cleared' = IF is_resume THEN plan.files \ Accepted ELSE {}
      BY <3>1 DEF Cleared
    <3> QED
      BY <3>1, <3>2
  <2>2. bits' = bitmap'.bits \ UNION {BitsOf(n) : n \in Cleared'}
    BY <1>3, <2>1, ScanIs
  <2>3. ASSUME NEW n \in Cleared', NEW i \in DOMAIN Content(n) PROVE Bit(<<n, i>>) \notin bits'
    <3>1. n \in plan.files
      BY <2>1
    <3>2. <<n, i>> \in Slots
      BY <3>1, SlotOf DEF Slots
    <3>3. Bit(<<n, i>>) \in BitsOf(n)
      BY <3>2 DEF BitsOf
    <3> QED
      BY <2>2, <3>3
  <2>4. ASSUME bitmap'.layouts = {plan.files}, NEW n \in plan.files \ stale', NEW i \in DOMAIN Content(n),
               Bit(<<n, i>>) \in bits'
        PROVE  Good(n, i)'
    <3>1. BitIn(plan.files, <<n, i>>) \in bitmap'.bits
      <4>1. Bit(<<n, i>>) = BitIn(plan.files, <<n, i>>)
        BY DEF Bit
      <4> QED
        BY <2>2, <2>4, <4>1
    <3>2. \A files : bitmap'.layouts = {files} =>
            \A h \in files \ stale' : \A j \in DOMAIN Content(h) :
              BitIn(files, <<h, j>>) \in bitmap'.bits => Good(h, j)'
      BY <1>0 DEF FileBitsInv
    <3> QED
      BY <2>4, <3>1, <3>2
  <2>5. \A n, i : Bit(<<n, i>>)' = Bit(<<n, i>>)
    BY <1>0, <2>1 DEF Bit
  <2> QED
    BY <1>0, <2>1, <2>3, <2>4, <2>5 DEF MemoryBitsInv
<1>4. ASSUME NEW s \in Slots, EagerWrite(s) PROVE MemoryBitsInv'
  <2>1. /\ pc = "run" /\ bits' = bits \cup {Bit(s)} /\ handled' = handled \cup {s} /\ Missing(s)
        /\ UNCHANGED <<plan, bitmap, is_resume, skipped, stale>>
    BY <1>4 DEF EagerWrite, Handle
  <2>2. Keeps /\ Good(s[1], s[2])'
    BY <1>0, <1>4, WriteKeeps
  <2>3. Cleared' = Cleared /\ Cleared \subseteq plan.files /\ \A x : Bit(x)' = Bit(x)
    BY <1>0, <2>1 DEF Cleared, Bit
  <2>4. ASSUME NEW n \in plan.files, NEW i \in DOMAIN Content(n), Bit(<<n, i>>) \in bits',
               Bit(<<n, i>>) \in bits => Good(n, i)
        PROVE  Good(n, i)' /\ (Bit(<<n, i>>) \in bits \/ <<n, i>> = s)
    <3>1. CASE Bit(<<n, i>>) \in bits
      BY <2>2, <2>4, <3>1 DEF Keeps, Shape
    <3>2. CASE Bit(<<n, i>>) = Bit(s)
      <4>1. <<n, i>> \in Slots
        BY SlotOf DEF Slots
      <4>2. <<n, i>> = s
        BY <3>2, <4>1, BitsAreApart DEF Shape, Slots, Bit
      <4> QED
        BY <2>2, <4>2
    <3> QED
      BY <2>1, <2>4, <3>1, <3>2
  <2>5. ASSUME NEW n \in Cleared, NEW i \in DOMAIN Content(n), Bit(<<n, i>>) \in bits'
        PROVE  Good(n, i)' /\ <<n, i>> \in handled'
    BY <2>1, <2>3, <2>4, <2>5 DEF MemoryBitsInv
  <2>6. ASSUME bitmap.layouts = {plan.files}, NEW n \in plan.files \ stale, NEW i \in DOMAIN Content(n),
               Bit(<<n, i>>) \in bits'
        PROVE  Good(n, i)'
    BY <2>1, <2>4, <2>6 DEF MemoryBitsInv
  <2>7. plan.files \in bitmap.layouts
    BY <2>1 DEF MemoryBitsInv
  <2> QED
    BY <1>0, <2>1, <2>3, <2>5, <2>6, <2>7 DEF MemoryBitsInv
<1>5. ASSUME NEW s \in Slots, EagerSkip(s) PROVE MemoryBitsInv'
  <2>1. /\ pc = "run" /\ handled' = handled \cup {s}
        /\ UNCHANGED <<plan, bitmap, is_resume, skipped, stale, bits, disk>>
    BY <1>5 DEF EagerSkip, Handle
  <2>2. Cleared' = Cleared /\ \A x : Bit(x)' = Bit(x)
    BY <1>0, <2>1 DEF Cleared, Bit
  <2> QED
    BY <1>0, <2>1, <2>2, SameFile DEF MemoryBitsInv
<1>6. ASSUME NEW m \in Names, Assemble(m) PROVE MemoryBitsInv'
  <2>1. pc = "run" /\ UNCHANGED <<plan, bitmap, is_resume, skipped, stale, bits, handled>>
    BY <1>6 DEF Assemble, history
  <2>2. Cleared' = Cleared /\ Cleared \subseteq plan.files /\ \A x : Bit(x)' = Bit(x)
    BY <1>0, <2>1 DEF Cleared, Bit
  <2>3. \A n \in plan.files : \A i \in DOMAIN Content(n) : Good(n, i) => Good(n, i)'
    BY <1>0, <1>6, AssembleKeeps DEF Keeps, Shape
  <2> QED
    BY <1>0, <2>1, <2>2, <2>3 DEF MemoryBitsInv
<1>7. CASE StartDownload \/ StartUpdate \/ (\E n \in Names : Edit(n)) \/ ReturnError \/ Complete
           \/ Delete \/ WriteTag \/ ReturnOk \/ Crash \/ Refuse
  BY <1>1, <1>7 DEF StartDownload, StartUpdate, Start, Edit, ReturnError, Complete, Delete, WriteTag,
     ReturnOk, Crash, Refuse, End
<1>8. CASE UNCHANGED vars
  BY <1>2, <1>8 DEF vars, workVars, history
<1> QED
  BY <1>3, <1>4, <1>5, <1>6, <1>7, <1>8 DEF Next
-----------------------------------------------------------------------------
(***************************************************************************)
(* What is installed.                                                      *)
(***************************************************************************)

\* A file of the new size with every chunk in its place is the new one.
LEMMA SameChunksSame ==
  ASSUME NEW c \in Seq(Nat), NEW d \in Seq(Nat), Len(d) = Len(c), \A i \in DOMAIN c : d[i] = c[i]
  PROVE  d = c
<1>1. DOMAIN c = 1 .. Len(c)
  BY LenProperties
<1> QED
  BY <1>1, SeqEqual

LEMMA AllGoodIsNew ==
  ASSUME Shape, NEW n \in Wanted, SizeIsNew(n), \A i \in DOMAIN Content(n) : Good(n, i)
  PROVE  IsNew(n)
<1>1. Content(n) \in Seq(Nat) /\ disk[n] \in Seq(Nat)
  BY WantedIsKnown, SeqMonotonic DEF Shape
<1> QED
  BY <1>1, SameChunksSame DEF IsNew, SizeIsNew, Good

\* What no update has to install is there, or has its size only.
LEMMA NotPlannedIsThere ==
  ASSUME Shape, NEW n \in Wanted \ U!Diff
  PROVE  IsNew(n) \/ n \in LeftOut(UpdatePlanned)
<1>1. PICK m \in DOMAIN new : n \in DOMAIN new[m]
  BY DEF Wanted, U!AssetsOf
<1>2. Content(n) = new[m][n]
  BY <1>1, FieldIsItsOwn DEF Content, U!Content, Shape
<1>3. n \notin U!DiffIn(m)
  BY <1>1 DEF U!Diff
<1>4. n \in U!Intact(m) /\ Installed[m][n] = new[m][n]
  BY <1>1, <1>3 DEF U!DiffIn
<1>5. SizeIsNew(n)
  BY <1>2, <1>4 DEF U!Intact, SizeIsNew
<1>6. UpdatePlanned.files = U!Diff
  BY DEF UpdatePlanned
<1> QED
  BY <1>5, <1>6 DEF LeftOut

\* What the scan believes is installed, or the scan is misled.
LEMMA AcceptedIsRight ==
  ASSUME Shape, FileBitsInv, NEW n \in Accepted
  PROVE  IsNew(n) \/ n \in Misled
<1> SUFFICES ASSUME ~IsNew(n), n \notin Misled PROVE FALSE
  OBVIOUS
<1>1. n \in plan.files /\ n \in Wanted /\ SizeIsNew(n) /\ (Pure(n) => BitsOf(n) \subseteq ScanBits)
  BY DEF Accepted, Shape
<1>2. Pure(n) /\ n \notin stale /\ bitmap.layouts = {plan.files}
  BY DEF Misled
<1>3. ASSUME NEW i \in DOMAIN Content(n) PROVE Good(n, i)
  <2>1. <<n, i>> \in Slots
    BY <1>1, SlotOf DEF Slots
  <2>2. Bit(<<n, i>>) \in ScanBits
    BY <1>1, <1>2, <2>1 DEF BitsOf
  <2>3. BitIn(plan.files, <<n, i>>) \in bitmap.bits
    BY <2>2 DEF ScanBits, Bit
  <2> QED
    BY <1>1, <1>2, <2>3 DEF FileBitsInv
<1> QED
  BY <1>1, <1>3, AllGoodIsNew

\* A write or an assembly leaves right what was right.
LEMMA KeepsRight ==
  ASSUME Keeps, struck \subseteq struck', new' = new, NEW n \in Wanted, Right(n)
  PROVE  Right(n)'
BY DEF Keeps, Right

LEMMA KeepsHandled ==
  ASSUME Shape, FilesInv, pc = "run", Keeps, struck \subseteq struck', new' = new, NEW s \in handled
  PROVE  s[1] \in struck' \/ (SizeIsNew(s[1])' /\ Good(s[1], s[2])')
<1>1. s \in Slots /\ (s[1] \in struck \/ (SizeIsNew(s[1]) /\ Good(s[1], s[2])))
  BY DEF FilesInv
<1>2. s[1] \in Wanted /\ s[2] \in DOMAIN Content(s[1])
  BY <1>1, SlotOf DEF Slots, Shape
<1> QED
  BY <1>1, <1>2 DEF Keeps

\* An eager chunk was handled: its file and its place are right now.
LEMMA HandledStep ==
  ASSUME Shape, FilesInv, NEW s \in Slots, Handle(s), new' = new, Keeps, struck \subseteq struck',
         s[1] \in struck' \/ (SizeIsNew(s[1])' /\ Good(s[1], s[2])'), Shape'
  PROVE  FilesInv'
<1> USE BuildsStay
<1>1. /\ pc = "run" /\ pc' = "run" /\ Missing(s) /\ handled' = handled \cup {s}
      /\ done' = IF \E t \in Slots : t[1] = s[1] /\ t # s /\ t \notin handled THEN done ELSE done \cup {s[1]}
      /\ plan' = plan
  BY DEF Handle
<1>2. s[1] \in plan.files /\ s[1] \in Wanted /\ s = <<s[1], s[2]>> /\ s[2] \in DOMAIN Content(s[1])
  BY <1>1, MissingIsSlot DEF Shape
<1>3. \A t \in handled' : t[1] \in struck' \/ (SizeIsNew(t[1])' /\ Good(t[1], t[2])')
  BY <1>1, KeepsHandled
<1>4. ASSUME NEW n \in done' PROVE n \in plan.files /\ Right(n)'
  <2>1. CASE n \in done
    <3>1. n \in plan.files /\ Right(n) /\ n \in Wanted
      BY <1>1, <2>1 DEF FilesInv, Shape
    <3> QED
      BY <3>1, KeepsRight
  <2>2. CASE n \notin done
    <3>1. n = s[1] /\ \A t \in Slots : t[1] = n => t \in handled'
      BY <1>1, <1>4, <2>2
    <3>2. ASSUME n \notin struck' PROVE IsNew(n)'
      <4>1. SizeIsNew(n)'
        BY <3>1, <3>2
      <4>2. ASSUME NEW i \in DOMAIN Content(n) PROVE Good(n, i)'
        <5>1. <<n, i>> \in Slots
          BY <1>2, <3>1, SlotOf DEF Slots
        <5>2. <<n, i>> \in handled'
          BY <3>1, <5>1
        <5> QED
          BY <1>3, <3>2, <5>2
      <4>3. Content(n) \in Seq(Nat) /\ disk'[n] \in Seq(Nat)
        BY <1>2, <3>1, WantedIsKnown, SeqMonotonic DEF Shape
      <4>4. Len(disk'[n]) = Len(Content(n)) /\ \A i \in DOMAIN Content(n) : disk'[n][i] = Content(n)[i]
        BY <4>1, <4>2 DEF SizeIsNew, Good
      <4> QED
        BY <4>3, <4>4, SameChunksSame DEF IsNew
    <3> QED
      BY <1>2, <3>1, <3>2 DEF Right
  <2> QED
    BY <2>1, <2>2
<1>5. \A n \in Wanted \ plan.files : Right(n)'
  BY <1>1, KeepsRight DEF FilesInv
<1>6. handled' \subseteq Slots /\ Slots' = Slots /\ Wanted' = Wanted
  BY <1>1 DEF FilesInv, Slots
<1> QED
  BY <1>1, <1>3, <1>4, <1>5, <1>6 DEF FilesInv

LEMMA FilesStep ==
  ASSUME Shape, Shape', FileBitsInv, MemoryBitsInv, FilesInv, [Next]_vars PROVE FilesInv'
<1> USE BuildsStay
<1>0. new' = new /\ Wanted' = Wanted
  BY DEF Next, vars, buildVars
<1>1. CASE UNCHANGED <<pc, handled, struck, done, disk, plan>>
  <2>1. Slots' = Slots
    BY <1>0, <1>1 DEF Slots
  <2>2. \A n : Right(n)' = Right(n)
    BY <1>0, <1>1, SameFile DEF Right
  <2>3. pc = "run" => \A s \in handled : s \in Slots /\ s[2] \in DOMAIN Content(s[1])
    BY SlotOf DEF FilesInv, Slots
  <2>4. pc = "run" => \A s \in handled :
          s[1] \in struck' \/ (SizeIsNew(s[1])' /\ Good(s[1], s[2])')
    BY <1>0, <1>1, <2>3, SameFile DEF FilesInv
  <2> QED
    BY <1>0, <1>1, <2>1, <2>2, <2>3, <2>4 DEF FilesInv
<1>2. CASE StartDownload
  <2>1. pc = "idle" /\ pc' = "scan" /\ plan'.files = Wanted /\ handled' = handled
    BY <1>2 DEF StartDownload, Start, FreshPlan
  <2> QED
    BY <1>0, <2>1 DEF FilesInv
<1>3. CASE StartUpdate
  <2>1. pc = "idle" /\ pc' = "scan" /\ plan'.files = U!Diff /\ UNCHANGED <<handled, disk>>
        /\ struck' = LeftOut(UpdatePlanned)
    BY <1>3 DEF StartUpdate, Start, UpdatePlanned
  <2>2. ASSUME NEW n \in Wanted \ U!Diff PROVE Right(n)'
    BY <1>0, <2>1, NotPlannedIsThere, SameFile DEF Right
  <2> QED
    BY <1>0, <2>1, <2>2 DEF FilesInv
<1>4. CASE Scan
  <2>1. /\ pc = "scan" /\ pc' = "run" /\ handled' = handled /\ plan' = plan
        /\ done' = skipped' /\ struck' = struck \cup (Misled \cap skipped')
    BY <1>4, ScanIs
  <2>2. skipped' \subseteq Accepted
    BY <1>4, ScanIs
  <2>3. ASSUME NEW n \in Wanted, n \notin Doomed PROVE disk'[n] = disk[n]
    <3>1. disk' = [h \in Names |-> IF is_resume /\ h \in Doomed THEN << >> ELSE disk[h]]
      BY <1>4, ScanIs
    <3>2. n \in Names
      BY ContentIsSeq DEF Shape
    <3> QED
      BY <2>3, <3>1, <3>2
  <2>4. ASSUME NEW n \in done' PROVE n \in plan.files /\ Right(n)'
    <3>1. n \in Accepted /\ n \in plan.files /\ n \in Wanted /\ n \notin Doomed
      BY <2>1, <2>2 DEF Accepted, Doomed, Shape
    <3>2. IsNew(n) \/ n \in struck'
      BY <2>1, <3>1, AcceptedIsRight
    <3>3. disk'[n] = disk[n]
      BY <2>3, <3>1
    <3> QED
      BY <1>0, <3>1, <3>2, <3>3, SameFile DEF Right
  <2>5. ASSUME NEW n \in Wanted \ plan.files PROVE Right(n)'
    <3>1. n \notin Doomed
      BY DEF Doomed
    <3>2. disk'[n] = disk[n]
      BY <2>3, <3>1
    <3>3. Right(n)
      BY <2>1 DEF FilesInv
    <3> QED
      BY <1>0, <2>1, <3>2, <3>3, SameFile DEF Right
  <2>6. handled' = {}
    BY <2>1 DEF FilesInv
  <2> QED
    BY <1>0, <2>1, <2>4, <2>5, <2>6 DEF FilesInv
<1>5. ASSUME NEW s \in Slots, EagerWrite(s) PROVE FilesInv'
  <2>1. Handle(s) /\ struck \subseteq struck'
    BY <1>5 DEF EagerWrite
  <2>2. Keeps /\ Good(s[1], s[2])' /\ (SizeIsNew(s[1])' \/ s[1] \in struck')
    BY <1>0, <1>5, WriteKeeps
  <2> QED
    BY <1>0, <2>1, <2>2, HandledStep
<1>6. ASSUME NEW s \in Slots, EagerSkip(s) PROVE FilesInv'
  <2>1. Handle(s) /\ struck \subseteq struck' /\ disk' = disk /\ Bit(s) \in bits
    BY <1>6 DEF EagerSkip
  <2>2. pc = "run" /\ Missing(s)
    BY <2>1 DEF Handle
  <2>3. s = <<s[1], s[2]>> /\ s[1] \in plan.files \ skipped /\ s[1] \in Wanted /\ s[2] \in DOMAIN Content(s[1])
    BY <2>2, MissingIsSlot
  <2>4. ~is_resume
    <3> SUFFICES ASSUME is_resume PROVE FALSE
      OBVIOUS
    <3>1. s[1] \in Cleared
      BY <2>3 DEF Cleared
    <3>2. <<s[1], s[2]>> \in handled
      BY <2>1, <2>2, <2>3, <3>1 DEF MemoryBitsInv
    <3> QED
      BY <2>2, <2>3, <3>2 DEF Missing
  <2>5. IsNew(s[1]) \/ s[1] \in struck'
    BY <1>6, <2>4 DEF EagerSkip
  <2>6. IsNew(s[1]) => SizeIsNew(s[1]) /\ Good(s[1], s[2])
    BY <2>3 DEF IsNew, SizeIsNew, Good
  <2>7. Keeps
    BY <1>0, <2>1, SameFilesKeep
  <2>8. s[1] \in struck' \/ (SizeIsNew(s[1])' /\ Good(s[1], s[2])')
    BY <2>3, <2>5, <2>6, <2>7 DEF Keeps
  <2> QED
    BY <1>0, <2>1, <2>7, <2>8, HandledStep
<1>7. ASSUME NEW m \in Names, Assemble(m) PROVE FilesInv'
  <2>1. /\ pc = "run" /\ pc' = "run" /\ handled' = handled /\ plan' = plan /\ done' = done \cup {m}
        /\ struck' = struck
    BY <1>7 DEF Assemble, history
  <2>2. Keeps /\ IsNew(m)' /\ m \in plan.files
    BY <1>0, <1>7, AssembleKeeps
  <2>3. \A s \in handled : s[1] \in struck' \/ (SizeIsNew(s[1])' /\ Good(s[1], s[2])')
    BY <1>0, <2>1, <2>2, KeepsHandled
  <2>4. ASSUME NEW n \in done' PROVE n \in plan.files /\ Right(n)'
    <3>1. CASE n = m
      BY <2>2, <3>1 DEF Right
    <3>2. CASE n \in done
      <4>1. n \in plan.files /\ Right(n) /\ n \in Wanted
        BY <2>1, <3>2 DEF FilesInv, Shape
      <4> QED
        BY <1>0, <2>1, <2>2, <4>1, KeepsRight
    <3> QED
      BY <2>1, <3>1, <3>2
  <2>5. \A n \in Wanted \ plan.files : Right(n)'
    BY <1>0, <2>1, <2>2, KeepsRight DEF FilesInv
  <2>6. handled \subseteq Slots /\ Slots' = Slots
    BY <1>0, <2>1 DEF FilesInv, Slots
  <2> QED
    BY <1>0, <2>1, <2>3, <2>4, <2>5, <2>6 DEF FilesInv
<1>8. CASE Complete
  <2>1. pc = "run" /\ pc' = "delete" /\ done = plan.files /\ UNCHANGED <<disk, struck>>
    BY <1>8 DEF Complete
  <2>2. \A n \in Wanted : Right(n)
    BY <2>1 DEF FilesInv
  <2>3. \A n \in Wanted : Right(n)'
    BY <1>0, <2>1, <2>2, SameFile DEF Right
  <2> QED
    BY <1>0, <2>1, <2>3 DEF FilesInv
<1>9. CASE Delete
  <2>1. PICK gone \in SUBSET plan.deleted :
          /\ disk' = [n \in Names |-> IF n \in gone THEN << >> ELSE disk[n]]
          /\ struck' = struck \cup (gone \cap Wanted)
    BY <1>9 DEF Delete
  <2>2. pc = "delete" /\ pc' = "tag"
    BY <1>9 DEF Delete
  <2>3. ASSUME NEW n \in Wanted PROVE Right(n)'
    <3>1. CASE n \in gone
      BY <2>1, <3>1 DEF Right
    <3>2. CASE n \notin gone
      <4>1. disk'[n] = disk[n]
        BY <2>1, <3>2, ContentIsSeq DEF Shape
      <4>2. Right(n)
        BY <2>2 DEF FilesInv
      <4> QED
        BY <1>0, <2>1, <4>1, <4>2, SameFile DEF Right
    <3> QED
      BY <3>1, <3>2
  <2> QED
    BY <1>0, <2>2, <2>3 DEF FilesInv
<1>10. CASE WriteTag
  <2>1. pc = "tag" /\ pc' = "ok" /\ UNCHANGED <<disk, struck>>
    BY <1>10 DEF WriteTag, history
  <2>2. \A n \in Wanted : Right(n)
    BY <2>1 DEF FilesInv
  <2>3. \A n \in Wanted : Right(n)'
    BY <1>0, <2>1, <2>2, SameFile DEF Right
  <2> QED
    BY <1>0, <2>1, <2>3 DEF FilesInv
<1>11. CASE ReturnError \/ ReturnOk \/ Crash
  <2>1. pc' = "idle" /\ handled' = {}
    BY <1>11 DEF ReturnError, ReturnOk, Crash, End, ForgetWork
  <2> QED
    BY <2>1 DEF FilesInv
<1>12. CASE Refuse \/ \E n \in Names : Edit(n)
  <2>1. pc = "idle" /\ pc' = "idle" /\ handled' = handled
    BY <1>12 DEF Refuse, Edit, workVars
  <2> QED
    BY <2>1 DEF FilesInv
<1>13. CASE UNCHANGED vars
  BY <1>1, <1>13 DEF vars, workVars, history
<1> QED
  BY <1>2, <1>3, <1>4, <1>5, <1>6, <1>7, <1>8, <1>9, <1>10, <1>11, <1>12, <1>13 DEF Next

LEMMA ResultStep ==
  ASSUME FilesInv, ResultInv, [Next]_vars PROVE ResultInv'
<1> USE BuildsStay
<1>0. new' = new /\ Wanted' = Wanted
  BY DEF Next, vars, buildVars
<1>1. CASE UNCHANGED vars
  BY <1>0, <1>1, SameFile DEF vars, history, ResultInv, UpdatedIsNew
<1>2. CASE WriteTag
  <2>1. pc = "tag" /\ pc' = "ok" /\ tag' = "new" /\ result' = result
    BY <1>2 DEF WriteTag
  <2> QED
    BY <2>1 DEF ResultInv
<1>3. CASE ReturnOk
  <2>1. pc = "ok" /\ pc' = "idle" /\ UNCHANGED <<tag, disk, struck>>
    BY <1>3 DEF ReturnOk, End
  <2>2. tag = "new" /\ \A n \in Wanted : Right(n)
    BY <2>1 DEF ResultInv, FilesInv
  <2>3. UpdatedIsNew'
    BY <1>0, <2>1, <2>2, SameFile DEF UpdatedIsNew, Right
  <2> QED
    BY <2>1, <2>3 DEF ResultInv
<1>4. CASE StartDownload \/ StartUpdate \/ Refuse \/ ReturnError \/ Crash \/ \E n \in Names : Edit(n)
  <2>1. pc' # "ok" /\ result' # "ok"
    BY <1>4 DEF StartDownload, StartUpdate, Start, Refuse, ReturnError, Crash, Edit, End
  <2> QED
    BY <2>1 DEF ResultInv
<1>5. CASE Scan \/ (\E s \in Slots : EagerWrite(s) \/ EagerSkip(s)) \/ (\E n \in Names : Assemble(n))
           \/ Complete \/ Delete
  <2>1. pc # "idle" /\ pc' # "ok" /\ result' = result
    BY <1>5 DEF Scan, EagerWrite, EagerSkip, Handle, Assemble, Complete, Delete
  <2> QED
    BY <2>1 DEF ResultInv
<1> QED
  BY <1>1, <1>2, <1>3, <1>4, <1>5 DEF Next
-----------------------------------------------------------------------------
LEMMA InitInv == Init => IInv
<1> SUFFICES ASSUME Init PROVE IInv
  OBVIOUS
<1>1. IsBuild(old) /\ IsBuild(new)
  BY UpdateAssumption DEF Init
<1>2. disk \in [Names -> Seq(Nat)]
  <2> SUFFICES ASSUME NEW n \in Names, tag = "old", n \in U!AssetsOf(old),
                      NEW m, m = CHOOSE f \in DOMAIN old : n \in DOMAIN old[f]
               PROVE  old[m][n] \in Seq(Nat)
    BY EmptySeq DEF Init
  <2>1. m \in DOMAIN old /\ n \in DOMAIN old[m]
    BY DEF U!AssetsOf
  <2>2. old[m][n] \in Seq(Nat \ {0})
    BY <1>1, <2>1 DEF IsBuild
  <2> QED
    BY <2>2, SeqMonotonic
<1>3. Shape
  BY <1>1, <1>2 DEF Init, Shape, NoPlan, NoBitmap
<1>4. PlanIsCurrent /\ OldChunksInv /\ MemoryBitsInv /\ ResultInv
  BY DEF Init, PlanIsCurrent, OldChunksInv, MemoryBitsInv, ResultInv
<1>5. FileBitsInv
  BY DEF Init, NoBitmap, FileBitsInv
<1>6. FilesInv
  BY DEF Init, FilesInv
<1> QED
  BY <1>3, <1>4, <1>5, <1>6 DEF IInv

LEMMA NextInv == IInv /\ [Next]_vars => IInv'
<1> SUFFICES ASSUME IInv, [Next]_vars PROVE IInv'
  OBVIOUS
<1> USE DEF IInv
<1>1. Shape'
  BY ShapeStep
<1>2. PlanIsCurrent'
  BY PlanStep
<1>3. OldChunksInv'
  BY OldChunksStep
<1>4. FileBitsInv'
  BY FileBitsStep
<1>5. MemoryBitsInv'
  BY <1>4, MemoryBitsStep
<1>6. FilesInv'
  BY <1>1, FilesStep
<1>7. ResultInv'
  BY ResultStep
<1> QED
  BY <1>1, <1>2, <1>3, <1>4, <1>5, <1>6, <1>7

(***************************************************************************)
(* What check_update announces is no more than the update would download.  *)
(***************************************************************************)
THEOREM EstimateHolds == Spec => []EstimateIsLowerBound
<1>1. IInv => EstimateIsLowerBound
  BY EstimateBelowPlan DEF IInv, Shape
<1> QED
  BY <1>1, InitInv, NextInv, PTL DEF Spec

(***************************************************************************)
(* When a file is assembled its old chunks are where the plan says, unless *)
(* it had its old size and another content when the plan was made.         *)
(***************************************************************************)
THEOREM OldChunksHold == Spec => []OldChunksAreThere
<1>1. IInv => OldChunksAreThere
  BY OldChunksFollow DEF IInv
<1> QED
  BY <1>1, InitInv, NextInv, PTL DEF Spec

(***************************************************************************)
(* A session that returns Ok leaves the new build and its tag, except for  *)
(* the files struck by one of the defects listed with UpdatedIsNew.        *)
(***************************************************************************)
THEOREM UpdatedIsNewHolds == Spec => []UpdatedIsNew
<1>1. IInv => UpdatedIsNew
  BY DEF IInv, ResultInv, UpdatedIsNew
<1> QED
  BY <1>1, InitInv, NextInv, PTL DEF Spec
=============================================================================
