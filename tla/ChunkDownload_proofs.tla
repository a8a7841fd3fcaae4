------------------------ MODULE ChunkDownload_proofs ------------------------
(***************************************************************************)
(* Proofs about ChunkDownload, for every size of the chunk and every       *)
(* number of attempts and sessions, and about ChunkRegistration, for any   *)
(* manifest.                                                               *)
(***************************************************************************)
EXTENDS ChunkDownload, ChunkRegistration, FiniteSetTheorems, TLAPS

\* A session that runs has not returned.
RunningIsOpen == pc # "idle" => result = "none"

\* A size the caller gave is the size of the file as long as that is there.
GivenSize == (given /\ pc \in {"attempt", "fresh"} /\ dest.kind # "none") => dest.len = known

\* A chunk nothing can verify is trusted by that size at the first attempt.
TrustedSize ==
  (given /\ pc # "idle" /\ ~HasHash /\ ~HasPlainHash /\ known >= Size) =>
    pc = "attempt" /\ dest.kind # "none"

Parts == CountIsLength /\ OkIsWhole /\ RunningIsOpen /\ GivenSize /\ TrustedSize

\* While a session streams the file is there.
Streaming == pc = "stream" => dest.kind # "none"

\* The type invariant without its Booleans.
Shape ==
  /\ profile \subseteq {"hash", "plain", "skip"}
  /\ dest \in [kind : {"none", "right", "wrong"}, len : 0 .. Size + 1]
  /\ pc \in {"idle", "check", "attempt", "fresh", "stream"}
  /\ result \in {"none", "ok", "cancelled", "failed", "full"}
  /\ sessions \in 0 .. MaxSessions
  /\ known \in 0 .. Size + 1
  /\ network \in 0 .. MaxRetries - 1 /\ hashes \in 0 .. MaxHashRetries - 1
  /\ total \in 0 .. Size /\ digest \in Qualities
  /\ spoiled \in Nat

Core == Shape /\ Parts /\ Streaming

LEMMA FlagsInit == Init => FlagsOK
BY DEF Init, FlagsOK

LEMMA FlagsNext == FlagsOK /\ [Next]_vars => FlagsOK'
<1> SUFFICES ASSUME FlagsOK, [Next]_vars PROVE FlagsOK'
  OBVIOUS
<1> USE DEF FlagsOK, loopVars
<1>1. CASE UNCHANGED vars
  BY <1>1 DEF vars
<1>2. CASE Start
  BY <1>2 DEF Start, Clear
<1>3. CASE Cancel
  BY <1>3 DEF Cancel
<1>4. CASE Crash
  BY <1>4 DEF Crash, Clear
<1>5. CASE Damage
  BY <1>5 DEF Damage
<1>6. CASE Check
  BY <1>6 DEF Check, Return
<1>7. CASE AttemptCancelled
  BY <1>7 DEF AttemptCancelled, Return
<1>8. CASE AttemptComplete
  BY <1>8 DEF AttemptComplete, DigestRight, Goto, Again, Succeed, Return
<1>9. CASE RangeFails \/ RangeWrongLength \/ RangeHonoured
  BY <1>9 DEF RangeFails, RangeWrongLength, RangeHonoured, PrefixDigest, Again, Goto
<1>10. CASE RangeRefused \/ AttemptNothing \/ Fresh
  BY <1>10 DEF RangeRefused, AttemptNothing, Fresh, Goto
<1>11. CASE FreshFails \/ StreamFails
  BY <1>11 DEF FreshFails, StreamFails, Again
<1>12. ASSUME NEW piece \in Qualities, Receive(piece) PROVE FlagsOK'
  BY <1>12 DEF Receive, Again, Goto
<1>13. CASE StreamCancelled
  BY <1>13 DEF StreamCancelled, Return
<1>14. CASE StreamEnds
  BY <1>14 DEF StreamEnds, Again, AfterMismatch, Succeed, Return
<1>15. CASE RangeTooLarge \/ FreshTooLarge
  BY <1>15 DEF RangeTooLarge, FreshTooLarge, NoSpace, Return
<1> QED
  BY <1>1, <1>2, <1>3, <1>4, <1>5, <1>6, <1>7, <1>8, <1>9, <1>10, <1>11, <1>12, <1>13, <1>14,
     <1>15
     DEF Next, Step

LEMMA ExistingIsSize == ASSUME Shape PROVE Existing \in 0 .. Size + 1
BY DEF Shape, Existing

LEMMA InitInv == Init => Core
BY ChunkAssumption
   DEF Init, Core, Parts, Shape, CountIsLength, OkIsWhole, RunningIsOpen, GivenSize, TrustedSize,
       Streaming, Right, Qualities, NoFile

(***************************************************************************)
(* Every step preserves Core: one lemma an action.                         *)
(***************************************************************************)
\* What the end of an attempt preserves.
LEMMA AgainInv ==
  ASSUME Core, NEW fault, Again(fault), UNCHANGED profile,
         dest' = NoFile \/ (dest' = dest /\ pc \in {"attempt", "fresh"}),
         pc \in {"attempt", "fresh", "stream"},
         (given /\ known >= Size) => HasHash \/ HasPlainHash
  PROVE  Core'
BY ChunkAssumption
   DEF Core, Parts, Shape, CountIsLength, OkIsWhole, RunningIsOpen, GivenSize, TrustedSize,
       Streaming, Right, HasHash, HasPlainHash, SkipHash, Again, NoFile

LEMMA StartInv == ASSUME Core, Start, UNCHANGED profile PROVE Core'
BY ChunkAssumption
   DEF Core, Parts, Shape, CountIsLength, OkIsWhole, RunningIsOpen, GivenSize, TrustedSize,
       Streaming, Right, HasHash, HasPlainHash, SkipHash, Start, Clear, Qualities

LEMMA CancelInv == ASSUME Core, Cancel, UNCHANGED profile PROVE Core'
<1>1. UNCHANGED <<profile, dest, pc, result, sessions, given, known, network, hashes, total, digest, spoiled>>
  BY DEF Cancel, loopVars
<1> QED BY <1>1
   DEF Core, Parts, Shape, CountIsLength, OkIsWhole, RunningIsOpen, GivenSize, TrustedSize,
       Streaming, Right, HasHash, HasPlainHash, SkipHash

LEMMA CrashInv == ASSUME Core, Crash, UNCHANGED profile PROVE Core'
<1>1. PICK n \in 0 .. dest.len : dest' = [dest EXCEPT !.len = n]
  BY ChunkAssumption DEF Crash, Core, Shape
<1>2. dest' \in [kind : {"none", "right", "wrong"}, len : 0 .. Size + 1]
  BY <1>1, ChunkAssumption DEF Core, Shape
<1>3. pc' = "idle" /\ result' = "none" /\ UNCHANGED sessions /\ Clear
  BY DEF Crash
<1> QED BY <1>2, <1>3, ChunkAssumption
   DEF Core, Parts, Shape, CountIsLength, OkIsWhole, RunningIsOpen, GivenSize, TrustedSize,
       Streaming, Right, HasHash, HasPlainHash, SkipHash, Clear, Qualities

LEMMA DamageInv == ASSUME Core, Damage, UNCHANGED profile PROVE Core'
BY ChunkAssumption
   DEF Core, Parts, Shape, CountIsLength, OkIsWhole, RunningIsOpen, GivenSize, TrustedSize,
       Streaming, Right, HasHash, HasPlainHash, SkipHash, Damage, loopVars, NoFile, File,
       Absent, Qualities

LEMMA CheckInv == ASSUME Core, Check, UNCHANGED profile PROVE Core'
<1> USE ChunkAssumption
<1>1. CASE cancelled \/ (listed /\ Whole /\ HasHash)
  BY <1>1
     DEF Core, Parts, Shape, CountIsLength, OkIsWhole, RunningIsOpen, GivenSize, TrustedSize,
         Streaming, Right, HasHash, HasPlainHash, SkipHash, Check, Return, loopVars, Whole,
         File
<1>2. CASE ~cancelled /\ ~(listed /\ Whole /\ HasHash)
  <2>1. /\ pc = "check" /\ given' = (listed /\ ~Absent) /\ known' = dest.len /\ pc' = "attempt"
        /\ UNCHANGED <<dest, result, sessions, network, hashes, total, digest, spoiled>>
    BY <1>2 DEF Check
  <2>2. (given' => dest.kind # "none")
    BY <2>1, Zenon DEF Absent
  <2>3. Shape'
    BY <2>1 DEF Core, Shape
  <2> QED BY <2>1, <2>2, <2>3
     DEF Core, Parts, Shape, CountIsLength, OkIsWhole, RunningIsOpen, GivenSize, TrustedSize,
         Streaming, Right, HasHash, HasPlainHash, SkipHash
<1> QED BY <1>1, <1>2

LEMMA AttemptCancelledInv == ASSUME Core, AttemptCancelled, UNCHANGED profile PROVE Core'
BY ChunkAssumption
   DEF Core, Parts, Shape, CountIsLength, OkIsWhole, RunningIsOpen, GivenSize, TrustedSize,
       Streaming, Right, HasHash, HasPlainHash, SkipHash, AttemptCancelled, Return, loopVars

LEMMA NoSpaceInv ==
  ASSUME Core, RangeTooLarge \/ FreshTooLarge, UNCHANGED profile PROVE Core'
<1>1. NoSpace /\ UNCHANGED dest
  BY DEF RangeTooLarge, FreshTooLarge
<1> QED BY <1>1, ChunkAssumption
   DEF Core, Parts, Shape, CountIsLength, OkIsWhole, RunningIsOpen, GivenSize, TrustedSize,
       Streaming, Right, HasHash, HasPlainHash, SkipHash, NoSpace, Return, loopVars

LEMMA AttemptNothingInv == ASSUME Core, AttemptNothing, UNCHANGED profile PROVE Core'
BY ChunkAssumption
   DEF Core, Parts, Shape, CountIsLength, OkIsWhole, RunningIsOpen, GivenSize, TrustedSize,
       Streaming, Right, HasHash, HasPlainHash, SkipHash, AttemptNothing, Goto, Existing

LEMMA RangeRefusedInv == ASSUME Core, RangeRefused, UNCHANGED profile PROVE Core'
BY ChunkAssumption
   DEF Core, Parts, Shape, CountIsLength, OkIsWhole, RunningIsOpen, GivenSize, TrustedSize,
       Streaming, Right, HasHash, HasPlainHash, SkipHash, RangeRefused, Partial, Goto, NoFile,
       Existing

LEMMA FreshInv == ASSUME Core, Fresh, UNCHANGED profile PROVE Core'
BY ChunkAssumption
   DEF Core, Parts, Shape, CountIsLength, OkIsWhole, RunningIsOpen, GivenSize, TrustedSize,
       Streaming, Right, HasHash, HasPlainHash, SkipHash, Fresh, Goto, File, Qualities

LEMMA StreamCancelledInv == ASSUME Core, StreamCancelled, UNCHANGED profile PROVE Core'
BY ChunkAssumption
   DEF Core, Parts, Shape, CountIsLength, OkIsWhole, RunningIsOpen, GivenSize, TrustedSize,
       Streaming, Right, HasHash, HasPlainHash, SkipHash, StreamCancelled, Return, loopVars,
       NoFile

LEMMA PartialNotTrusted ==
  ASSUME Core, Partial PROVE pc = "attempt" /\ ~(given /\ known >= Size)
<1>1. pc = "attempt" /\ Existing \in 1 .. Size - 1
  BY DEF Partial
<1>2. given => Existing = known
  BY DEF Existing
<1> QED BY <1>1, <1>2, ChunkAssumption DEF Core, Shape

LEMMA RangeFailsInv ==
  ASSUME Core, RangeFails \/ RangeWrongLength, UNCHANGED profile PROVE Core'
<1>1. ~(given /\ known >= Size) /\ pc = "attempt"
  <2>1. Partial
    BY DEF RangeFails, RangeWrongLength
  <2> QED BY <2>1, PartialNotTrusted
<1> QED BY <1>1, AgainInv DEF RangeFails, RangeWrongLength

LEMMA RangeHonouredInv ==
  ASSUME Core, RangeHonoured, UNCHANGED profile PROVE Core'
<1>1. CASE Absent
  <2>1. Partial /\ Again(FALSE) /\ dest' = dest
    BY <1>1 DEF RangeHonoured, PrefixDigest
  <2> QED BY <2>1, AgainInv, PartialNotTrusted
<1>2. CASE ~Absent
  BY <1>2, ChunkAssumption
     DEF Core, Parts, Shape, CountIsLength, OkIsWhole, RunningIsOpen, GivenSize, TrustedSize,
         Streaming, Right, HasHash, HasPlainHash, SkipHash, RangeHonoured, PrefixDigest, Partial, Goto,
         Existing, Absent, Qualities
<1> QED BY <1>1, <1>2

LEMMA AttemptCompleteInv ==
  ASSUME Core, AttemptComplete, UNCHANGED profile PROVE Core'
<1> USE ChunkAssumption
<1>1. CASE Existing > Size /\ Absent
  BY <1>1
     DEF Core, Parts, Shape, CountIsLength, OkIsWhole, RunningIsOpen, GivenSize, TrustedSize,
         Streaming, Right, HasHash, HasPlainHash, SkipHash, AttemptComplete, DigestRight, Goto, Existing,
         Absent
<1>2. CASE ~(Existing > Size /\ Absent) /\ HasHash /\ Absent
  BY <1>2, AgainInv DEF AttemptComplete, DigestRight
<1>3. CASE ~(Existing > Size /\ Absent) /\ HasHash /\ ~Absent /\ Trimmed = File(Size, "right")
  BY <1>3
     DEF Core, Parts, Shape, CountIsLength, OkIsWhole, RunningIsOpen, GivenSize, TrustedSize,
         Streaming, Right, HasHash, HasPlainHash, SkipHash, AttemptComplete, DigestRight, Succeed, Return,
         loopVars, File
<1>4. CASE ~(Existing > Size /\ Absent) /\ ~HasHash /\ ~HasPlainHash
  <2>1. dest' = Trimmed /\ Succeed /\ pc = "attempt" /\ Existing >= Size
    BY <1>4 DEF AttemptComplete, DigestRight
  <2>2. given => dest.kind # "none"
    BY <2>1, <1>4
       DEF Core, Parts, Shape, CountIsLength, OkIsWhole, RunningIsOpen, GivenSize,
           TrustedSize, Streaming, Right, HasHash, HasPlainHash, SkipHash, Existing
  <2>3. Existing = dest.len
    BY <2>1, <2>2 DEF Existing, Core, Parts, GivenSize
  <2>4. dest.len >= Size => Cut = [kind |-> dest.kind, len |-> Size]
    BY DEF Cut, File
  <2>5. Trimmed.len = Size /\ Trimmed \in [kind : {"none", "right", "wrong"}, len : 0 .. Size + 1]
    <3>1. CASE Existing > Size
      <4>1. Trimmed = Cut
        BY <1>4, <3>1 DEF Trimmed
      <4> QED BY <2>1, <2>3, <2>4, <4>1 DEF Core, Shape
    <3>2. CASE ~(Existing > Size)
      <4>1. Trimmed = dest
        BY <3>2 DEF Trimmed
      <4> QED BY <2>1, <2>3, <3>2, <4>1 DEF Core, Shape
    <3> QED BY <3>1, <3>2
  <2> QED BY <1>4, <2>1, <2>5
     DEF Core, Parts, Shape, CountIsLength, OkIsWhole, RunningIsOpen, GivenSize, TrustedSize,
         Streaming, Right, HasHash, HasPlainHash, SkipHash, Succeed, Return, loopVars
<1>5. CASE /\ ~(Existing > Size /\ Absent) /\ ~(HasHash /\ Absent)
           /\ ~(HasHash /\ Trimmed = File(Size, "right")) /\ (HasHash \/ HasPlainHash)
  <2>1. dest' = NoFile /\ Goto("fresh") /\ UNCHANGED <<total, digest>> /\ pc = "attempt"
    BY <1>5 DEF AttemptComplete, DigestRight
  <2> QED BY <1>5, <2>1
     DEF Core, Parts, Shape, CountIsLength, OkIsWhole, RunningIsOpen, GivenSize, TrustedSize,
         Streaming, Right, HasHash, HasPlainHash, SkipHash, Goto, NoFile
<1> QED BY <1>1, <1>2, <1>3, <1>4, <1>5

LEMMA StreamingTrust ==
  ASSUME Core, pc \in {"fresh", "stream"}
  PROVE  (given /\ known >= Size) => HasHash \/ HasPlainHash
BY
   DEF Core, Parts, TrustedSize

LEMMA FailsInv ==
  ASSUME Core, FreshFails \/ StreamFails, UNCHANGED profile PROVE Core'
BY AgainInv, StreamingTrust DEF FreshFails, StreamFails

LEMMA ReceiveInv ==
  ASSUME Core, NEW piece \in Qualities, Receive(piece), UNCHANGED profile PROVE Core'
<1>1. CASE total + 1 > Size
  BY <1>1, AgainInv, StreamingTrust DEF Receive
<1>2. CASE ~(total + 1 > Size)
  BY <1>2, ChunkAssumption
     DEF Core, Parts, Shape, CountIsLength, OkIsWhole, RunningIsOpen, GivenSize, TrustedSize,
         Streaming, Right, HasHash, HasPlainHash, SkipHash, Receive, Goto, File, Both,
         Qualities
<1> QED BY <1>1, <1>2

LEMMA StreamEndsInv ==
  ASSUME Core, StreamEnds, UNCHANGED profile PROVE Core'
<1>1. CASE total # Size
  BY <1>1, AgainInv, StreamingTrust DEF StreamEnds
<1>2. CASE total = Size /\ HasHash /\ ~SkipHash /\ digest # "right"
  BY <1>2, ChunkAssumption
     DEF Core, Parts, Shape, CountIsLength, OkIsWhole, RunningIsOpen, GivenSize, TrustedSize,
         Streaming, Right, HasHash, HasPlainHash, SkipHash, StreamEnds, AfterMismatch, NoFile
<1>3. CASE total = Size /\ ~(HasHash /\ ~SkipHash /\ digest # "right")
  BY <1>3, ChunkAssumption
     DEF Core, Parts, Shape, CountIsLength, OkIsWhole, RunningIsOpen, GivenSize, TrustedSize,
         Streaming, Right, HasHash, HasPlainHash, SkipHash, StreamEnds, Succeed, Return,
         loopVars
<1> QED BY <1>1, <1>2, <1>3

LEMMA NextInv == Core /\ [Next]_vars => Core'
<1> SUFFICES ASSUME Core, [Next]_vars PROVE Core'
  OBVIOUS
<1>1. CASE UNCHANGED vars
  BY <1>1
     DEF Core, Parts, Shape, CountIsLength, OkIsWhole, RunningIsOpen, GivenSize, TrustedSize,
         Streaming, Right, HasHash, HasPlainHash, SkipHash, vars, loopVars
<1>2. CASE Next
  BY <1>2, StartInv, CancelInv, CrashInv, DamageInv, CheckInv, AttemptCancelledInv, NoSpaceInv,
     AttemptCompleteInv, RangeFailsInv, RangeRefusedInv, RangeHonouredInv, AttemptNothingInv,
     FailsInv, FreshInv, ReceiveInv, StreamCancelledInv, StreamEndsInv
     DEF Next, Step
<1> QED BY <1>1, <1>2
-----------------------------------------------------------------------------
(***************************************************************************)
(* The variables keep their types.                                         *)
(***************************************************************************)
THEOREM TypeCorrect == Spec => []TypeOK
<1>1. Core /\ FlagsOK => TypeOK
  BY DEF Core, Shape, TypeOK
<1> QED BY InitInv, NextInv, FlagsInit, FlagsNext, <1>1, PTL DEF Spec

(***************************************************************************)
(* The bytes counted are the bytes in the file, for a chunk of any size.   *)
(***************************************************************************)
THEOREM Counting == Spec => []CountIsLength
<1>1. Core => CountIsLength
  BY
     DEF Core, Parts
<1> QED BY InitInv, NextInv, <1>1, PTL DEF Spec

(***************************************************************************)
(* A chunk that was downloaded is whole, whatever was resumed, retried,    *)
(* interrupted and damaged before.                                         *)
(***************************************************************************)
THEOREM DownloadedIsWhole == Spec => []OkIsWhole
<1>1. Core => OkIsWhole
  BY
     DEF Core, Parts
<1> QED BY InitInv, NextInv, <1>1, PTL DEF Spec
-----------------------------------------------------------------------------
(***************************************************************************)
(* Without a size from the caller every attempt that does not come to its  *)
(* end was spoiled: the file it finds absent has no length to believe.     *)
(***************************************************************************)
NothingHasNoLength == Absent => dest.len = 0

Tally ==
  /\ ~given => spoiled >= network
  /\ pc = "check" => ~given
  /\ GivesUpWhenSpoiled

TallyInv == Core /\ NothingHasNoLength /\ Tally

LEMMA TallyInit == Init => TallyInv
BY InitInv
   DEF Init, TallyInv, NothingHasNoLength, Tally, GivesUpWhenSpoiled, NoFile

LEMMA AbsentNext == TallyInv /\ [Next]_vars => NothingHasNoLength'
<1> SUFFICES ASSUME TallyInv, [Next]_vars PROVE NothingHasNoLength'
  OBVIOUS
<1> USE ChunkAssumption DEF TallyInv, NothingHasNoLength, Absent
<1>1. CASE UNCHANGED dest
  BY <1>1
<1>2. CASE dest' = NoFile
  BY <1>2 DEF NoFile
<1>3. CASE Crash
  <2>1. CASE pc = "stream"
    BY <1>3, <2>1 DEF Crash, Core, Streaming, Shape
  <2>2. CASE pc # "stream"
    BY <1>3, <2>2 DEF Crash, Core, Shape
  <2> QED
    BY <2>1, <2>2
<1>4. CASE Damage
  BY <1>4 DEF Damage, NoFile, File, Qualities
<1>5. CASE AttemptComplete
  <2>1. dest' = dest \/ dest' = NoFile \/ (dest' = Trimmed /\ ~(Existing > Size /\ Absent))
    BY <1>5 DEF AttemptComplete
  <2>2. ASSUME Existing > Size, ~Absent PROVE Trimmed.kind # "none"
    BY <2>2 DEF Trimmed, Cut, File, Core, Shape
  <2>3. ASSUME ~(Existing > Size) PROVE Trimmed = dest
    BY <2>3 DEF Trimmed
  <2> QED
    BY <1>1, <1>2, <2>1, <2>2, <2>3
<1>6. CASE Fresh
  BY <1>6 DEF Fresh, File
<1>7. ASSUME NEW piece \in Qualities, Receive(piece), dest' # NoFile PROVE NothingHasNoLength'
  <2>1. dest' = [kind |-> Both(dest.kind, piece), len |-> dest.len + 1]
    BY <1>7 DEF Receive, File
  <2>2. Both(dest.kind, piece) # "none"
    BY DEF Both
  <2> QED
    BY <2>1, <2>2
<1>8. \/ UNCHANGED dest \/ dest' = NoFile \/ Crash \/ Damage \/ AttemptComplete \/ Fresh
      \/ \E piece \in Qualities : Receive(piece) /\ dest' # NoFile
  BY DEF Next, Step, vars, Start, Cancel, Check, AttemptCancelled, RangeFails, RangeRefused,
         RangeWrongLength, RangeTooLarge, RangeHonoured, AttemptNothing, FreshFails,
         FreshTooLarge, StreamFails, StreamCancelled, StreamEnds
<1> QED
  BY <1>1, <1>2, <1>3, <1>4, <1>5, <1>6, <1>7, <1>8

LEMMA AgainTally ==
  ASSUME TallyInv, NEW fault \in BOOLEAN, Again(fault), pc \in {"attempt", "fresh", "stream"},
         fault \/ given
  PROVE  Tally'
BY ChunkAssumption
   DEF TallyInv, Core, Shape, Parts, RunningIsOpen, Tally, GivesUpWhenSpoiled, Again

LEMMA TallyNext == TallyInv /\ [Next]_vars => Tally'
<1> SUFFICES ASSUME TallyInv, [Next]_vars PROVE Tally'
  OBVIOUS
<1> USE ChunkAssumption DEF TallyInv, Tally, GivesUpWhenSpoiled
<1>1. CASE UNCHANGED <<pc, result, loopVars>>
  BY <1>1 DEF loopVars
<1>2. CASE Start \/ Crash
  BY <1>2 DEF Start, Crash, Clear
<1>3. CASE Damage
  BY <1>3 DEF Damage, loopVars
<1>4. CASE Check
  <2>1. CASE cancelled \/ (listed /\ Whole /\ HasHash)
    BY <1>4, <2>1 DEF Check, Return, loopVars
  <2>2. CASE ~(cancelled \/ (listed /\ Whole /\ HasHash))
    BY <1>4, <2>2 DEF Check, Core, Parts, RunningIsOpen
  <2> QED
    BY <2>1, <2>2
<1>5. CASE \E how \in {"ok", "cancelled", "full"} : Return(how)
  BY <1>5 DEF Return, loopVars
<1>6. CASE \E where \in {"fresh", "stream"} : Goto(where)
  BY <1>6 DEF Goto
<1>7. CASE Again(TRUE) /\ pc \in {"attempt", "fresh", "stream"}
  BY <1>7, AgainTally
<1>8. CASE AfterMismatch /\ pc = "stream"
  BY <1>8 DEF AfterMismatch, Core, Shape, Parts, RunningIsOpen
<1>9. CASE Again(FALSE) /\ Absent /\ Existing > 0 /\ pc = "attempt"
  <2>1. given
    BY <1>9 DEF Existing, NothingHasNoLength
  <2> QED
    BY <1>9, <2>1, AgainTally
<1>10. CASE AttemptComplete
  <2>1. pc = "attempt" /\ Existing > 0
    <3>1. Existing \in Int /\ Existing >= Size /\ pc = "attempt"
      BY <1>10, ExistingIsSize DEF AttemptComplete, Core
    <3> QED
      BY <3>1
  <2>2. (Again(FALSE) /\ Absent) \/ Goto("fresh") \/ Return("ok")
    BY <1>10 DEF AttemptComplete, Succeed
  <2> QED
    BY <1>5, <1>6, <1>9, <2>1, <2>2
<1>11. CASE RangeHonoured
  <2>1. pc = "attempt" /\ Existing > 0
    BY <1>11 DEF RangeHonoured, Partial
  <2>2. (Again(FALSE) /\ Absent) \/ Goto("stream")
    BY <1>11 DEF RangeHonoured
  <2> QED
    BY <1>6, <1>9, <2>1, <2>2
<1>12. CASE RangeFails \/ RangeRefused \/ RangeWrongLength \/ AttemptCancelled \/ AttemptNothing
  BY <1>5, <1>6, <1>7, <1>12
     DEF RangeFails, RangeRefused, RangeWrongLength, AttemptCancelled, AttemptNothing, Partial
<1>13. CASE FreshFails \/ FreshTooLarge \/ RangeTooLarge \/ Fresh \/ StreamFails \/ StreamCancelled \/ StreamEnds
  BY <1>5, <1>6, <1>7, <1>8, <1>13
     DEF FreshFails, FreshTooLarge, RangeTooLarge, NoSpace, Fresh, StreamFails, StreamCancelled,
         StreamEnds, Succeed
<1>14. ASSUME NEW piece \in Qualities, Receive(piece) PROVE Tally'
  BY <1>6, <1>7, <1>14 DEF Receive
<1>15. CASE Cancel \/ UNCHANGED vars
  BY <1>1, <1>15 DEF Cancel, vars
<1> QED
  BY <1>2, <1>3, <1>4, <1>10, <1>11, <1>12, <1>13, <1>14, <1>15 DEF Next, Step

(***************************************************************************)
(* DownloadFailed is reported for faults, of which there were as many as   *)
(* attempts are allowed, unless a size was given: for any limits, in every *)
(* session, and whatever want of space ended other chunks with.            *)
(***************************************************************************)
THEOREM GivesUpHolds == Spec => []GivesUpWhenSpoiled
<1>1. TallyInv => GivesUpWhenSpoiled
  BY DEF TallyInv, Tally
<1>2. TallyInv /\ [Next]_vars => TallyInv'
  BY NextInv, AbsentNext, TallyNext DEF TallyInv
<1> QED
  BY <1>1, <1>2, TallyInit, PTL DEF Spec

-----------------------------------------------------------------------------
(***************************************************************************)
(* Registration.  What the vectors hold at any point of the loops is said  *)
(* of the chunks seen so far, a set that grows by one at a time.           *)
(***************************************************************************)
NameAt(s) == all_files[s[1]][s[2]].name

\* The chunks registered so far, and those of a name.
Seen == {s \in M!Downloads :
           s[1] < all_files_index \/ (s[1] = all_files_index /\ s[2] < ci)}
SeenOf(name) == {s \in Seen : NameAt(s) = name}

ItemType  == [file : Nat, name : Names, use_eager : BOOLEAN]
EntryType == [file : Nat, pending : Nat]

RegTypeOK ==
    /\ all_files \in Seq(Seq(ChunkRefs)) /\ \A f \in DOMAIN all_files : Len(all_files[f]) <= MaxSlots
    /\ completed \subseteq DOMAIN all_files
    /\ verify_mode \in {"Full", "Deferred"}
    /\ all_files_index \in 1 .. Len(all_files) + 1 /\ ci \in Nat \ {0}
    /\ pending_before \in Nat
    /\ download_items \in Seq(ItemType)
    /\ chunk_entries \in Seq(Seq(EntryType)) /\ chunk_refcounts \in Seq(Nat)
    /\ Len(chunk_entries) = Len(download_items) /\ Len(chunk_refcounts) = Len(download_items)
    /\ pending_counts \in Seq(Nat)
    /\ sent \in Seq(Nat)
    /\ flat \in Seq(EntryType) /\ offsets \in Seq(Nat)
    /\ phase \in {"files", "chunks", "flatten", "done"}

\* Where the loops are.
Looping ==
    /\ phase # "chunks" => ci = 1
    /\ phase = "chunks" =>
          /\ all_files_index \in DOMAIN all_files \ completed
          /\ ci <= Len(all_files[all_files_index]) + 1
          /\ Len(pending_counts) = pending_before + 1
    /\ phase \in {"flatten", "done"} => all_files_index = Len(all_files) + 1

\* One item for each name, found by it.
Indexed ==
    verify_mode = "Full" =>
        /\ DOMAIN download_items_index = {NameAt(s) : s \in Seen}
        /\ \A n \in DOMAIN download_items_index :
              /\ download_items_index[n] \in DOMAIN download_items
              /\ download_items[download_items_index[n]].name = n
        /\ \A i \in DOMAIN download_items, n \in Names :
              n = download_items[i].name =>
                  /\ n \in DOMAIN download_items_index /\ download_items_index[n] = i
                  /\ \E s \in SeenOf(n) : s[1] = download_items[i].file
                  /\ IsFiniteSet(SeenOf(n)) /\ chunk_refcounts[i] = Cardinality(SeenOf(n))

\* The entries that wait for an item.
Waiting == {x \in (DOMAIN chunk_entries) \X (Nat \ {0}) : x[2] \in DOMAIN chunk_entries[x[1]]}
Entry(x) == chunk_entries[x[1]][x[2]]
WaitingFor(p) == {x \in Waiting : Entry(x).pending = p}

\* A counter for a file: the last one is the current file's.
Counted ==
    /\ \A p \in DOMAIN pending_counts :
          IsFiniteSet(WaitingFor(p)) /\ pending_counts[p] = Cardinality(WaitingFor(p))
    /\ \A x \in Waiting :
          /\ Entry(x).pending \in DOMAIN pending_counts
          /\ Entry(x).file <= all_files_index
          /\ Entry(x).file = all_files_index <=>
                phase = "chunks" /\ Entry(x).pending = Len(pending_counts)
    /\ \A x, y \in Waiting : Entry(x).pending = Entry(y).pending <=> Entry(x).file = Entry(y).file

\* What is sent at once, and what the current file is to be.
Sending ==
    /\ ToSet(sent) = {f \in DOMAIN all_files \ completed :
                         f < all_files_index /\ \A s \in Seen : s[1] # f}
    /\ phase = "chunks" =>
          (pending_counts[Len(pending_counts)] = 0 <=> \A s \in Seen : s[1] # all_files_index)

\* A file is tainted when one of its chunks is found again.
Tainted == tainted = {f \in DOMAIN all_files :
                        \E s \in Seen, t \in Seen : s # t /\ NameAt(s) = NameAt(t) /\ s[1] = f}

Eager ==
    verify_mode = "Full" =>
        /\ Tainted
        /\ \A i \in DOMAIN download_items, f \in Nat :
              f = download_items[i].file =>
                  (download_items[i].use_eager <=>
                      Pure(f) /\ (phase \in {"flatten", "done"} => f \notin tainted))

\* The flat vector holds the entries of the items it has passed, in their order.
Flattened ==
    /\ Len(offsets) \in 1 .. Len(chunk_entries) + 1
    /\ offsets[1] = 0 /\ offsets[Len(offsets)] = Len(flat)
    /\ phase \in {"files", "chunks"} => Len(offsets) = 1
    /\ phase = "done" => Len(offsets) = Len(chunk_entries) + 1
    /\ \A j \in 1 .. Len(offsets) - 1 :
          /\ offsets[j + 1] = offsets[j] + Len(chunk_entries[j])
          /\ offsets[j + 1] <= Len(flat)
          /\ \A k \in 1 .. Len(chunk_entries[j]) : flat[offsets[j] + k] = chunk_entries[j][k]

LEMMA ListOfFile ==
  ASSUME NEW l \in FileLists
  PROVE  l \in Seq(ChunkRefs) /\ Len(l) <= MaxSlots
<1>1. PICK k \in 0 .. MaxSlots : l \in [1 .. k -> ChunkRefs]
  BY DEF FileLists
<1>2. k \in Nat /\ k <= MaxSlots
  BY <1>1, BoundsAssumption
<1>3. l \in Seq(ChunkRefs) /\ Len(l) = k
  BY <1>1, <1>2
<1> QED
  BY <1>2, <1>3

LEMMA RegInitType == RegInit => RegTypeOK /\ Looping
<1> SUFFICES ASSUME RegInit PROVE RegTypeOK /\ Looping
  OBVIOUS
<1>1. PICK n \in 0 .. MaxFiles : all_files \in [1 .. n -> FileLists]
  BY DEF RegInit
<1>2. n \in Nat
  BY <1>1, BoundsAssumption
<1>3. \A f \in 1 .. n : all_files[f] \in FileLists
  BY <1>1
<1>4. \A f \in 1 .. n : all_files[f] \in Seq(ChunkRefs) /\ Len(all_files[f]) <= MaxSlots
  BY <1>3, ListOfFile
<1>5. all_files \in [1 .. n -> Seq(ChunkRefs)]
  BY <1>1, <1>4
<1>6. all_files \in Seq(Seq(ChunkRefs)) /\ Len(all_files) = n
  BY <1>2, <1>5
<1>7. DOMAIN all_files = 1 .. n
  BY <1>1
<1>8. verify_mode \in {"Full", "Deferred"}
  BY ModesAssumption DEF RegInit
<1> QED
  BY <1>2, <1>4, <1>6, <1>7, <1>8 DEF RegInit, RegTypeOK, Looping

\* What the loop is at.
LEMMA AtChunkIs ==
  ASSUME RegTypeOK, AtChunk
  PROVE  /\ all_files_index \in Nat /\ ci \in Nat
         /\ all_files_index \in DOMAIN all_files => /\ ci <= Len(all_files[all_files_index])
                                                   /\ Chunk \in ChunkRefs
  BY DEF RegTypeOK, AtChunk, Chunk

\* A vector resized to hold index i at least.
LEMMA ResizedType ==
  ASSUME NEW S, NEW v \in Seq(S), NEW n \in Nat, NEW x \in S
  PROVE  /\ Resized(v, n, x) \in Seq(S)
         /\ n <= Len(Resized(v, n, x)) /\ Len(v) <= Len(Resized(v, n, x))
         /\ n <= Len(v) => Resized(v, n, x) = v
         /\ n > Len(v) => Len(Resized(v, n, x)) = n /\ \A k \in Len(v) + 1 .. n : Resized(v, n, x)[k] = x
         /\ \A k \in 1 .. Len(v) : Resized(v, n, x)[k] = v[k]
<1>1. CASE n <= Len(v)
  BY <1>1 DEF Resized
<1>2. CASE n > Len(v)
  <2> DEFINE w == [k \in 1 .. n |-> IF k <= Len(v) THEN v[k] ELSE x]
  <2>1. Resized(v, n, x) = w
    BY <1>2 DEF Resized
  <2>2. w \in [1 .. n -> S]
    OBVIOUS
  <2>3. w \in Seq(S) /\ Len(w) = n
    BY <2>2
  <2> QED
    BY <1>2, <2>1, <2>3
<1> QED
  BY <1>1, <1>2

\* What registering a chunk does to the vectors of the items.
Before(i) == IF i \in DOMAIN chunk_entries THEN chunk_entries[i] ELSE <<>>
RefsBefore(i) == IF i \in DOMAIN chunk_refcounts THEN chunk_refcounts[i] ELSE 0
NewEntry == [file |-> all_files_index, pending |-> Len(pending_counts)]

LEMMA ItemOfRange ==
  ASSUME RegTypeOK, Indexed, NEW name
  PROVE  /\ Shared(name) => ItemOf(name) \in DOMAIN download_items
         /\ ~Shared(name) => ItemOf(name) = Len(download_items) + 1
         /\ ItemOf(name) \in 1 .. Len(download_items) + 1
  BY DEF RegTypeOK, Indexed, Shared, ItemOf, force_eager

LEMMA FoundItem ==
  ASSUME RegTypeOK, Looping, Indexed, RegisterChunk
  PROVE  LET i == ItemOf(Chunk.name)
         IN  /\ download_items' \in Seq(ItemType)
             /\ Shared(Chunk.name) => UNCHANGED download_items
             /\ ~Shared(Chunk.name) =>
                  /\ Len(download_items') = Len(download_items) + 1
                  /\ download_items'[i] = [file |-> all_files_index, name |-> Chunk.name,
                                           use_eager |-> force_eager \/ Pure(all_files_index)]
                  /\ \A j \in DOMAIN download_items : download_items'[j] = download_items[j]
<1>1. Chunk.name \in Names /\ all_files_index \in Nat
  BY AtChunkIs DEF RegisterChunk, Looping, AtChunk, ChunkRefs
<1>2. CASE Shared(Chunk.name)
  BY <1>2 DEF RegisterChunk, FindItem, RegTypeOK
<1>3. CASE ~Shared(Chunk.name)
  <2> DEFINE new == [file |-> all_files_index, name |-> Chunk.name,
                     use_eager |-> force_eager \/ Pure(all_files_index)]
  <2>1. download_items' = Append(download_items, new)
    BY <1>3 DEF RegisterChunk, FindItem
  <2>2. (force_eager \/ Pure(all_files_index)) \in BOOLEAN
    OBVIOUS
  <2>3. new \in ItemType
    BY <1>1, <2>2 DEF ItemType
  <2> HIDE DEF new
  <2>4. download_items \in Seq(ItemType)
    BY DEF RegTypeOK
  <2> QED
    BY <1>3, <2>1, <2>3, <2>4, ItemOfRange DEF new
<1> QED
  BY <1>2, <1>3

LEMMA AddedEntry ==
  ASSUME RegTypeOK, Looping, Indexed, RegisterChunk
  PROVE  LET i == ItemOf(Chunk.name)
         IN  /\ chunk_entries' \in Seq(Seq(EntryType)) /\ chunk_refcounts' \in Seq(Nat)
             /\ Len(chunk_entries') = Len(download_items')
             /\ Len(chunk_refcounts') = Len(download_items')
             /\ i \in DOMAIN chunk_entries' /\ i \in DOMAIN download_items'
             /\ chunk_entries'[i] = Append(Before(i), NewEntry)
             /\ chunk_refcounts'[i] = RefsBefore(i) + 1
             /\ \A j \in DOMAIN chunk_entries' :
                   j # i => /\ j \in DOMAIN chunk_entries /\ j \in DOMAIN download_items
                            /\ chunk_entries'[j] = chunk_entries[j]
                            /\ chunk_refcounts'[j] = chunk_refcounts[j]
             /\ DOMAIN chunk_entries' = DOMAIN chunk_entries \cup {i}
<1> DEFINE i == ItemOf(Chunk.name)
           v == Resized(chunk_entries, i, <<>>)
           w == Resized(chunk_refcounts, i, 0)
           L == Len(download_items)
<1>1. /\ chunk_entries' = [v EXCEPT ![i] = Append(@, NewEntry)]
      /\ chunk_refcounts' = [w EXCEPT ![i] = @ + 1]
  BY DEF RegisterChunk, AddEntry, NewEntry
<1>2. i \in 1 .. L + 1 /\ (Shared(Chunk.name) => i <= L) /\ L \in Nat /\ i \in Nat
      /\ (~Shared(Chunk.name) => i = L + 1)
  BY ItemOfRange DEF RegTypeOK
<1>3. chunk_entries \in Seq(Seq(EntryType)) /\ chunk_refcounts \in Seq(Nat)
      /\ Len(chunk_entries) = L /\ Len(chunk_refcounts) = L
  BY DEF RegTypeOK
<1>4. NewEntry \in EntryType
  BY DEF NewEntry, EntryType, RegTypeOK
<1>5. <<>> \in Seq(EntryType)
  OBVIOUS
<1> HIDE DEF i
<1>6. /\ v \in Seq(Seq(EntryType)) /\ Len(v) = (IF Shared(Chunk.name) THEN L ELSE L + 1)
      /\ v[i] = Before(i) /\ \A j \in 1 .. L : v[j] = chunk_entries[j]
  <2>0. /\ v \in Seq(Seq(EntryType)) /\ i <= Len(v) /\ (i <= L => v = chunk_entries)
        /\ i > L => Len(v) = i /\ \A k \in L + 1 .. i : v[k] = <<>>
        /\ \A j \in 1 .. L : v[j] = chunk_entries[j]
    <3> DEFINE S == Seq(EntryType)
    <3>1. <<>> \in S /\ chunk_entries \in Seq(S)
      BY <1>3, <1>5
    <3> HIDE DEF S
    <3>2. v \in Seq(S) /\ i <= Len(v) /\ (i <= L => v = chunk_entries)
      BY <1>2, <1>3, <3>1, ResizedType
    <3>3. i > L => Len(v) = i /\ \A k \in L + 1 .. i : v[k] = <<>>
      BY <1>2, <1>3, <3>1, ResizedType
    <3>4. \A j \in 1 .. L : v[j] = chunk_entries[j]
      BY <1>2, <1>3, <3>1, ResizedType
    <3> QED
      BY <3>2, <3>3, <3>4 DEF S
  <2> HIDE DEF v
  <2>1. CASE i <= L
    BY <1>2, <1>3, <2>0, <2>1 DEF Before
  <2>2. CASE i = L + 1
    BY <1>2, <1>3, <2>0, <2>2 DEF Before
  <2> QED
    BY <1>2, <2>1, <2>2
<1>7. /\ w \in Seq(Nat) /\ Len(w) = (IF Shared(Chunk.name) THEN L ELSE L + 1)
      /\ w[i] = RefsBefore(i) /\ \A j \in 1 .. L : w[j] = chunk_refcounts[j]
  <2>0. /\ w \in Seq(Nat) /\ i <= Len(w) /\ (i <= L => w = chunk_refcounts)
        /\ i > L => Len(w) = i /\ \A k \in L + 1 .. i : w[k] = 0
        /\ \A j \in 1 .. L : w[j] = chunk_refcounts[j]
    <3> DEFINE S == Nat
    <3>1. 0 \in S /\ chunk_refcounts \in Seq(S)
      BY <1>3
    <3> HIDE DEF S
    <3>2. w \in Seq(S) /\ i <= Len(w) /\ (i <= L => w = chunk_refcounts)
      BY <1>2, <1>3, <3>1, ResizedType
    <3>3. i > L => Len(w) = i /\ \A k \in L + 1 .. i : w[k] = 0
      BY <1>2, <1>3, <3>1, ResizedType
    <3>4. \A j \in 1 .. L : w[j] = chunk_refcounts[j]
      BY <1>2, <1>3, <3>1, ResizedType
    <3> QED
      BY <3>2, <3>3, <3>4 DEF S
  <2> HIDE DEF w
  <2>1. CASE i <= L
    BY <1>2, <1>3, <2>0, <2>1 DEF RefsBefore
  <2>2. CASE i = L + 1
    BY <1>2, <1>3, <2>0, <2>2 DEF RefsBefore
  <2> QED
    BY <1>2, <2>1, <2>2
<1> HIDE DEF v, w
<1>8. Len(download_items') = (IF Shared(Chunk.name) THEN L ELSE L + 1)
      /\ download_items' \in Seq(ItemType)
  BY FoundItem
<1>9. i \in DOMAIN v /\ i \in DOMAIN w /\ DOMAIN download_items' = 1 .. Len(v)
  BY <1>2, <1>6, <1>7, <1>8
<1>10. v[i] \in Seq(EntryType) /\ w[i] \in Nat
  BY <1>6, <1>7, <1>9
<1>11. Append(v[i], NewEntry) \in Seq(EntryType) /\ w[i] + 1 \in Nat
  BY <1>4, <1>10
<1>12. /\ chunk_entries' \in Seq(Seq(EntryType)) /\ Len(chunk_entries') = Len(v)
       /\ chunk_refcounts' \in Seq(Nat) /\ Len(chunk_refcounts') = Len(w)
  BY <1>1, <1>6, <1>7, <1>9, <1>11
<1>13. DOMAIN chunk_entries' = 1 .. Len(v) /\ DOMAIN chunk_entries = 1 .. L
       /\ DOMAIN download_items = 1 .. L
  BY <1>3, <1>12 DEF RegTypeOK
<1>14. chunk_entries'[i] = Append(Before(i), NewEntry) /\ chunk_refcounts'[i] = RefsBefore(i) + 1
  BY <1>1, <1>6, <1>7, <1>9
<1>15. ASSUME NEW j \in DOMAIN chunk_entries', j # i
       PROVE  /\ j \in 1 .. L /\ chunk_entries'[j] = chunk_entries[j]
              /\ chunk_refcounts'[j] = chunk_refcounts[j]
  <2>1. j \in 1 .. L
    BY <1>2, <1>6, <1>13, <1>15
  <2>2. chunk_entries'[j] = v[j] /\ chunk_refcounts'[j] = w[j]
    BY <1>1, <1>6, <1>7, <1>13, <1>15
  <2> QED
    BY <1>6, <1>7, <2>1, <2>2
<1>16. DOMAIN chunk_entries' = DOMAIN chunk_entries \cup {i}
  BY <1>2, <1>6, <1>13
<1> QED
  BY <1>6, <1>7, <1>8, <1>9, <1>12, <1>13, <1>14, <1>15, <1>16 DEF i

LEMMA FlatGrows ==
  ASSUME RegTypeOK, Flattened, FlattenItem
  PROVE  LET n == Len(offsets)
         IN  /\ n \in DOMAIN chunk_entries /\ n \in Nat \ {0}
             /\ flat' \in Seq(EntryType) /\ offsets' \in Seq(Nat)
             /\ Len(offsets') = n + 1 /\ \A j \in 1 .. n : offsets'[j] = offsets[j]
             /\ offsets'[n + 1] = Len(flat')
             /\ Len(flat') = Len(flat) + Len(chunk_entries[n])
             /\ \A k \in 1 .. Len(flat) : flat'[k] = flat[k]
             /\ \A k \in 1 .. Len(chunk_entries[n]) : flat'[Len(flat) + k] = chunk_entries[n][k]
<1> DEFINE n == Len(offsets)
<1>1. n \in Nat /\ n >= 1 /\ n <= Len(chunk_entries) /\ offsets \in Seq(Nat)
  BY DEF Flattened, FlattenItem, RegTypeOK
<1>2. n \in DOMAIN chunk_entries /\ flat \in Seq(EntryType)
  BY <1>1 DEF RegTypeOK
<1>3. chunk_entries[n] \in Seq(EntryType)
  BY <1>2 DEF RegTypeOK
<1>4. flat' = flat \o chunk_entries[n] /\ offsets' = Append(offsets, Len(flat'))
  BY DEF FlattenItem
<1> HIDE DEF n
<1>5. /\ flat' \in Seq(EntryType) /\ Len(flat') = Len(flat) + Len(chunk_entries[n])
      /\ \A k \in 1 .. Len(flat) : flat'[k] = flat[k]
      /\ \A k \in 1 .. Len(chunk_entries[n]) : flat'[Len(flat) + k] = chunk_entries[n][k]
  BY <1>2, <1>3, <1>4
<1>6. Len(flat') \in Nat
  BY <1>5
<1>7. /\ offsets' \in Seq(Nat) /\ Len(offsets') = n + 1
      /\ \A j \in 1 .. n : offsets'[j] = offsets[j]
      /\ offsets'[n + 1] = Len(flat')
  BY <1>1, <1>4, <1>6 DEF n
<1> QED
  BY <1>1, <1>2, <1>5, <1>7 DEF n

\* The counter of the file at hand: it is there, and may go.
LEMMA PoppedCounts ==
  ASSUME RegTypeOK, Looping, EndFile
  PROVE  LET n == Len(pending_counts)
         IN  /\ n = pending_before + 1 /\ n \in Nat
             /\ pending_counts[n] = 0 =>
                   /\ pending_counts' = SubSeq(pending_counts, 1, n - 1)
                   /\ sent' = Append(sent, all_files_index)
             /\ pending_counts[n] # 0 => UNCHANGED <<pending_counts, sent>>
             /\ pending_counts' \in Seq(Nat) /\ sent' \in Seq(Nat)
<1> DEFINE n == Len(pending_counts)
<1>1. n = pending_before + 1 /\ n \in Nat /\ pending_before \in Nat /\ pending_counts \in Seq(Nat)
  BY DEF Looping, EndFile, RegTypeOK
<1>2. all_files_index \in Nat /\ sent \in Seq(Nat)
  BY DEF RegTypeOK
<1>3. CASE pending_counts[n] = 0
  <2>1. pending_counts' = SubSeq(pending_counts, 1, n - 1)
    BY <1>3 DEF EndFile, PopPending, Last, Front
  <2>2. pending_counts' \in Seq(Nat) /\ Len(pending_counts') = n - 1
    BY <1>1, <2>1
  <2>3. sent' = Append(sent, all_files_index)
    BY <1>1, <2>2 DEF EndFile
  <2> QED
    BY <1>1, <1>2, <1>3, <2>1, <2>2, <2>3
<1>4. CASE pending_counts[n] # 0
  <2>1. PopPending(pending_counts) = pending_counts
    BY <1>4 DEF PopPending, Last
  <2> QED
    BY <1>1, <1>2, <1>4, <2>1 DEF EndFile
<1> QED
  BY <1>3, <1>4

LEMMA NextRegType ==
  ASSUME RegTypeOK, Looping, Indexed, Flattened, [RegNext]_regVars
  PROVE  RegTypeOK' /\ Looping'
<1>1. CASE UNCHANGED regVars
  BY <1>1 DEF RegTypeOK, Looping, regVars, inputs, items
<1>2. CASE SkipCompleted
  BY <1>2 DEF SkipCompleted, RegTypeOK, Looping, inputs, items
<1>3. CASE BeginFile
  <2>1. pending_counts' \in Seq(Nat) /\ Len(pending_counts') = pending_before' + 1
        /\ pending_before' \in Nat
    BY <1>3 DEF BeginFile, RegTypeOK
  <2>2. all_files[all_files_index] \in Seq(ChunkRefs) /\ all_files_index \in DOMAIN all_files
    BY <1>3 DEF BeginFile, RegTypeOK
  <2> QED
    BY <1>3, <2>1, <2>2 DEF BeginFile, RegTypeOK, Looping, inputs, items
<1>4. CASE SkipOld
  BY <1>4, AtChunkIs, SMTT(30) DEF SkipOld, AtChunk, RegTypeOK, Looping, inputs, items
<1>5. CASE RegisterChunk
  <2>1. /\ download_items' \in Seq(ItemType)
        /\ chunk_entries' \in Seq(Seq(EntryType)) /\ chunk_refcounts' \in Seq(Nat)
        /\ Len(chunk_entries') = Len(download_items')
        /\ Len(chunk_refcounts') = Len(download_items')
    BY <1>5, FoundItem, AddedEntry
  <2>2. pending_counts' \in Seq(Nat) /\ Len(pending_counts') = Len(pending_counts)
    <3>1. pending_counts \in Seq(Nat) /\ Len(pending_counts) \in DOMAIN pending_counts
      BY <1>5, SMTT(30) DEF RegTypeOK, Looping, RegisterChunk, AtChunk
    <3>2. pending_counts' = [pending_counts EXCEPT ![Len(pending_counts)] = @ + 1]
      BY <1>5 DEF RegisterChunk, AddEntry
    <3> QED
      BY <3>1, <3>2
  <2>3. ci' \in Nat \ {0} /\ ci' <= Len(all_files[all_files_index]) + 1
    BY <1>5, AtChunkIs, SMTT(30) DEF RegisterChunk, AtChunk, RegTypeOK, Looping
  <2> QED
    BY <1>5, <2>1, <2>2, <2>3 DEF RegisterChunk, AtChunk, RegTypeOK, Looping, inputs
<1>6. CASE EndFile
  <2>1. pending_counts' \in Seq(Nat) /\ sent' \in Seq(Nat)
    BY <1>6, PoppedCounts
  <2>2. all_files_index' \in 1 .. Len(all_files) + 1
    BY <1>6 DEF EndFile, RegTypeOK, Looping
  <2> QED
    BY <1>6, <2>1, <2>2 DEF EndFile, RegTypeOK, Looping, inputs, items
<1>7. CASE Untaint
  <2>1. download_items' \in Seq(ItemType) /\ Len(download_items') = Len(download_items)
    <3>1. download_items \in Seq(ItemType)
      BY DEF RegTypeOK
    <3>2. CASE force_eager
      BY <1>7, <3>1, <3>2 DEF Untaint
    <3>3. CASE ~force_eager
      <4> DEFINE n == Len(download_items)
                 new(i) == [download_items[i] EXCEPT
                              !.use_eager = @ /\ download_items[i].file \notin tainted]
      <4>1. download_items' = [i \in 1 .. n |-> new(i)] /\ n \in Nat
        BY <1>7, <3>1, <3>3 DEF Untaint
      <4>2. ASSUME NEW i \in 1 .. n PROVE new(i) \in ItemType
        <5> DEFINE b == download_items[i].use_eager /\ download_items[i].file \notin tainted
        <5>1. download_items[i] \in ItemType /\ b \in BOOLEAN
          BY <3>1
        <5>2. new(i) = [download_items[i] EXCEPT !.use_eager = b]
          BY <5>1 DEF ItemType
        <5> HIDE DEF b, new
        <5> QED
          BY <5>1, <5>2 DEF ItemType
      <4> HIDE DEF new
      <4>3. download_items' \in [1 .. n -> ItemType]
        BY <4>1, <4>2
      <4> QED
        BY <4>1, <4>3
    <3> QED
      BY <3>2, <3>3
  <2>2. all_files_index = Len(all_files) + 1
    BY <1>7, SMTT(30) DEF Untaint, RegTypeOK
  <2> QED
    BY <1>7, <2>1, <2>2 DEF Untaint, RegTypeOK, Looping, inputs
<1>8. CASE FlattenItem
  <2>1. flat' \in Seq(EntryType) /\ offsets' \in Seq(Nat)
    BY <1>8, FlatGrows
  <2> QED
    BY <1>8, <2>1 DEF FlattenItem, RegTypeOK, Looping, inputs, items
<1>9. CASE HandOver
  BY <1>9 DEF HandOver, RegTypeOK, Looping, inputs, items
<1> QED
  BY <1>1, <1>2, <1>3, <1>4, <1>5, <1>6, <1>7, <1>8, <1>9 DEF RegNext, Done

-----------------------------------------------------------------------------
(* The chunks seen.                                                          *)
Slot == <<all_files_index, ci>>

LEMMA DownloadsAre ==
  ASSUME RegTypeOK
  PROVE  /\ M!Downloads = {s \in (DOMAIN all_files) \X (1 .. MaxSlots) :
                              /\ s[2] \in DOMAIN all_files[s[1]]
                              /\ ~all_files[s[1]][s[2]].old /\ s[1] \notin completed}
         /\ \A s \in M!Downloads :
               /\ s = <<s[1], s[2]>> /\ s \in SlotSet
               /\ s[1] \in DOMAIN all_files \ completed /\ s[1] \in Nat /\ s[2] \in Nat /\ s[2] >= 1
               /\ s[2] \in DOMAIN all_files[s[1]] /\ ~all_files[s[1]][s[2]].old
               /\ NameAt(s) \in Names
<1>1. M!Downloads = {s \in (DOMAIN all_files) \X (1 .. MaxSlots) :
                        /\ s[2] \in DOMAIN all_files[s[1]]
                        /\ ~all_files[s[1]][s[2]].old /\ s[1] \notin completed}
  BY DEF M!Downloads, SlotSet, AllSlots
<1>2. ASSUME NEW s \in M!Downloads
      PROVE  /\ s = <<s[1], s[2]>> /\ s \in SlotSet
             /\ s[1] \in DOMAIN all_files \ completed /\ s[1] \in Nat
             /\ s[2] \in DOMAIN all_files[s[1]] /\ ~all_files[s[1]][s[2]].old
  BY <1>1 DEF SlotSet, AllSlots, RegTypeOK
<1>3. ASSUME NEW s \in M!Downloads PROVE s[2] \in Nat /\ s[2] >= 1 /\ NameAt(s) \in Names
  <2>1. all_files[s[1]] \in Seq(ChunkRefs) /\ s[2] \in DOMAIN all_files[s[1]]
    BY <1>2 DEF RegTypeOK
  <2>2. all_files[s[1]][s[2]] \in ChunkRefs /\ s[2] \in Nat /\ s[2] >= 1
    BY <2>1
  <2> QED
    BY <2>2 DEF NameAt, ChunkRefs
<1> QED
  BY <1>1, <1>2, <1>3

LEMMA SlotIsDownload ==
  ASSUME RegTypeOK, Looping, RegisterChunk
  PROVE  /\ Slot \in M!Downloads /\ Slot \notin Seen
         /\ NameAt(Slot) = Chunk.name /\ Slot[1] = all_files_index
<1>1. all_files_index \in DOMAIN all_files \ completed /\ ci \in DOMAIN all_files[all_files_index]
      /\ ~Chunk.old
  BY DEF RegisterChunk, AtChunk, Looping
<1>2. ci \in 1 .. MaxSlots /\ ci \in Nat /\ all_files_index \in Nat
  <2>1. all_files[all_files_index] \in Seq(ChunkRefs) /\ Len(all_files[all_files_index]) <= MaxSlots
    BY <1>1 DEF RegTypeOK
  <2>2. ci \in 1 .. Len(all_files[all_files_index]) /\ Len(all_files[all_files_index]) \in Nat
    BY <1>1, <2>1
  <2> QED
    BY <2>1, <2>2, BoundsAssumption DEF RegTypeOK
<1>3. Slot \in (DOMAIN all_files) \X (1 .. MaxSlots) /\ Slot[1] = all_files_index /\ Slot[2] = ci
  BY <1>1, <1>2 DEF Slot
<1>4. Slot \in M!Downloads
  BY <1>1, <1>3, DownloadsAre DEF Chunk
<1>5. Slot \notin Seen
  BY <1>2, <1>3 DEF Seen
<1> QED
  BY <1>3, <1>4, <1>5 DEF NameAt, Chunk

\* A step sees one chunk more, the one it registers, or none.
LEMMA SeenGrows ==
  ASSUME RegTypeOK, Looping, [RegNext]_regVars
  PROVE  /\ UNCHANGED <<all_files, completed, verify_mode>>
         /\ \A s : NameAt(s)' = NameAt(s)
         /\ RegisterChunk => Seen' = Seen \cup {Slot}
         /\ ~RegisterChunk => Seen' = Seen
<1>1. UNCHANGED <<all_files, completed, verify_mode>>
  BY DEF RegNext, regVars, inputs, Done, SkipCompleted, BeginFile, SkipOld, RegisterChunk,
         EndFile, Untaint, FlattenItem, HandOver
<1>2. M!Downloads' = M!Downloads
  BY <1>1 DEF M!Downloads, SlotSet, AllSlots
<1>3. \A s : NameAt(s)' = NameAt(s)
  BY <1>1 DEF NameAt
<1>4. \A s \in M!Downloads : s = <<s[1], s[2]>> /\ s[1] \in Nat \ completed /\ s[2] \in Nat
                             /\ s[2] >= 1 /\ s[2] \in DOMAIN all_files[s[1]]
                             /\ ~all_files[s[1]][s[2]].old
  BY DownloadsAre
<1>5. all_files_index \in Nat /\ ci \in Nat
  BY DEF RegTypeOK
<1>6. CASE RegisterChunk
  <2>1. ci' = ci + 1 /\ all_files_index' = all_files_index
    BY <1>6 DEF RegisterChunk
  <2>2. Slot \in M!Downloads
    BY <1>6, SlotIsDownload
  <2>3. ASSUME NEW s \in M!Downloads
        PROVE  s \in Seen' <=> (s \in Seen \/ s = Slot)
    BY <1>2, <1>4, <1>5, <2>1, <2>3 DEF Seen, Slot
  <2>4. Seen' \subseteq M!Downloads /\ Seen \subseteq M!Downloads
    BY <1>2 DEF Seen
  <2> QED
    BY <1>1, <1>3, <1>6, <2>2, <2>3, <2>4
<1>7. ASSUME ~RegisterChunk PROVE Seen' = Seen
  <2>1. CASE UNCHANGED <<all_files_index, ci>>
    BY <1>2, <2>1 DEF Seen
  <2>2. CASE SkipCompleted
    <3>1. all_files_index' = all_files_index + 1 /\ ci' = 1 /\ ci = 1
      BY <2>2 DEF SkipCompleted, Looping
    <3>2. ASSUME NEW s \in M!Downloads PROVE s[1] # all_files_index
      BY <1>4, <2>2 DEF SkipCompleted
    <3>3. ASSUME NEW s \in M!Downloads
          PROVE  (s[1] < all_files_index' \/ (s[1] = all_files_index' /\ s[2] < ci'))
                 <=> (s[1] < all_files_index \/ (s[1] = all_files_index /\ s[2] < ci))
      BY <1>4, <1>5, <3>1, <3>2
    <3> QED
      BY <1>2, <3>3 DEF Seen
  <2>3. CASE EndFile
    <3>1. all_files_index' = all_files_index + 1 /\ ci' = 1
          /\ ci \notin DOMAIN all_files[all_files_index]
          /\ all_files[all_files_index] \in Seq(ChunkRefs)
      BY <2>3, SMTT(30) DEF EndFile, Looping, RegTypeOK
    <3>2. ci > Len(all_files[all_files_index]) /\ Len(all_files[all_files_index]) \in Nat
      BY <3>1 DEF RegTypeOK
    <3>3. ASSUME NEW s \in M!Downloads, s[1] = all_files_index PROVE s[2] < ci
      <4>1. s[2] \in 1 .. Len(all_files[all_files_index])
        BY <1>4, <3>1, <3>3
      <4> QED
        BY <1>5, <3>2, <4>1
    <3>4. ASSUME NEW s \in M!Downloads
          PROVE  (s[1] < all_files_index' \/ (s[1] = all_files_index' /\ s[2] < ci'))
                 <=> (s[1] < all_files_index \/ (s[1] = all_files_index /\ s[2] < ci))
      BY <1>4, <1>5, <3>1, <3>3
    <3> QED
      BY <1>2, <3>4 DEF Seen
  <2>4. CASE SkipOld
    <3>1. all_files_index' = all_files_index /\ ci' = ci + 1
          /\ all_files[all_files_index][ci].old
      BY <2>4 DEF SkipOld, Chunk
    <3>2. ASSUME NEW s \in M!Downloads, s[1] = all_files_index PROVE s[2] # ci
      BY <1>4, <3>1, <3>2
    <3>3. ASSUME NEW s \in M!Downloads
          PROVE  (s[1] < all_files_index' \/ (s[1] = all_files_index' /\ s[2] < ci'))
                 <=> (s[1] < all_files_index \/ (s[1] = all_files_index /\ s[2] < ci))
      BY <1>4, <1>5, <3>1, <3>2
    <3> QED
      BY <1>2, <3>3 DEF Seen
  <2>5. CASE BeginFile
    <3>1. UNCHANGED <<all_files_index, ci>>
      BY <2>5 DEF BeginFile, Looping
    <3> QED
      BY <2>1, <3>1
  <2>6. CASE \/ Untaint \/ FlattenItem \/ HandOver \/ Done \/ UNCHANGED regVars
    <3>1. UNCHANGED <<all_files_index, ci>>
      BY <2>6 DEF Untaint, FlattenItem, HandOver, Done, regVars
    <3> QED
      BY <2>1, <3>1
  <2> QED
    BY <1>7, <2>2, <2>3, <2>4, <2>5, <2>6 DEF RegNext
<1> QED
  BY <1>1, <1>3, <1>6, <1>7

LEMMA SeenOfGrows ==
  ASSUME RegTypeOK, Looping, [RegNext]_regVars, NEW n
  PROVE  /\ RegisterChunk /\ n = Chunk.name =>
               SeenOf(n)' = SeenOf(n) \cup {Slot} /\ Slot \notin SeenOf(n)
         /\ ~RegisterChunk \/ n # Chunk.name => SeenOf(n)' = SeenOf(n)
<1>1. \A s : NameAt(s)' = NameAt(s)
  BY SeenGrows
<1>2. CASE RegisterChunk
  <2>1. Seen' = Seen \cup {Slot} /\ Slot \notin Seen /\ NameAt(Slot) = Chunk.name
    BY <1>2, SeenGrows, SlotIsDownload
  <2> QED
    BY <1>1, <1>2, <2>1 DEF SeenOf
<1>3. CASE ~RegisterChunk
  <2>1. Seen' = Seen
    BY <1>3, SeenGrows
  <2> QED
    BY <1>1, <1>3, <2>1 DEF SeenOf
<1> QED
  BY <1>2, <1>3

LEMMA NextIndexed ==
  ASSUME RegTypeOK, Looping, Indexed, [RegNext]_regVars
  PROVE  Indexed'
<1>1. UNCHANGED verify_mode /\ \A s : NameAt(s)' = NameAt(s)
  BY SeenGrows
<1> SUFFICES ASSUME verify_mode = "Full" PROVE Indexed'
  BY <1>1 DEF Indexed
<1>2. ~force_eager
  BY DEF force_eager
<1>3. CASE RegisterChunk
  <2>0. Chunk.name \in Names
    BY <1>3, SlotIsDownload, DownloadsAre
  <2> PICK n \in Names : n = Chunk.name
    BY <2>0
  <2> DEFINE i == ItemOf(n)
  <2>1. /\ SeenOf(n)' = SeenOf(n) \cup {Slot} /\ Slot \notin SeenOf(n) /\ Slot \in SeenOf(n)'
        /\ \A m : m # n => SeenOf(m)' = SeenOf(m)
    BY <1>3, SeenOfGrows
  <2>2. {NameAt(s) : s \in Seen}' = {NameAt(s) : s \in Seen} \cup {n}
    <3>1. Seen' = Seen \cup {Slot} /\ NameAt(Slot) = n
      BY <1>3, SeenGrows, SlotIsDownload
    <3> QED
      BY <1>1, <3>1
  <2>3. Slot[1] = all_files_index
    BY DEF Slot
  <2>4. /\ DOMAIN chunk_entries' = DOMAIN chunk_entries \cup {i}
        /\ DOMAIN chunk_entries = DOMAIN download_items
        /\ DOMAIN chunk_entries' = DOMAIN download_items'
        /\ DOMAIN chunk_refcounts = DOMAIN download_items
        /\ chunk_refcounts'[i] = RefsBefore(i) + 1
        /\ \A j \in DOMAIN download_items' :
              j # i => j \in DOMAIN download_items /\ chunk_refcounts'[j] = chunk_refcounts[j]
    BY <1>3, AddedEntry DEF RegTypeOK
  <2>5. CASE Shared(n)
    <3>1. UNCHANGED <<download_items, download_items_index>> /\ i \in DOMAIN download_items
      BY <1>3, <2>5, ItemOfRange DEF RegisterChunk, FindItem
    <3>2. i = download_items_index[n] /\ n \in DOMAIN download_items_index
      BY <2>5 DEF Shared, ItemOf
    <3>3. download_items[i].name = n /\ chunk_refcounts[i] = Cardinality(SeenOf(n))
          /\ IsFiniteSet(SeenOf(n))
      BY <3>1, <3>2 DEF Indexed
    <3>4. IsFiniteSet(SeenOf(n)') /\ chunk_refcounts'[i] = Cardinality(SeenOf(n)')
      <4>1. RefsBefore(i) = chunk_refcounts[i]
        BY <2>4, <3>1 DEF RefsBefore
      <4> QED
        BY <2>1, <2>4, <3>3, <4>1, FS_AddElement
    <3>5. DOMAIN download_items_index' = {NameAt(s) : s \in Seen}'
      BY <2>2, <3>1, <3>2 DEF Indexed
    <3>6. ASSUME NEW m \in DOMAIN download_items_index'
          PROVE  /\ download_items_index'[m] \in DOMAIN download_items'
                 /\ download_items'[download_items_index'[m]].name = m
      BY <3>1, <3>6 DEF Indexed
    <3>7. ASSUME NEW j \in DOMAIN download_items', NEW m \in Names, m = download_items'[j].name
          PROVE  /\ m \in DOMAIN download_items_index' /\ download_items_index'[m] = j
                 /\ \E s \in SeenOf(m)' : s[1] = download_items'[j].file
                 /\ IsFiniteSet(SeenOf(m)') /\ chunk_refcounts'[j] = Cardinality(SeenOf(m)')
      <4>0. /\ j \in DOMAIN download_items /\ m = download_items[j].name
            /\ m \in DOMAIN download_items_index /\ download_items_index[m] = j
            /\ \E s \in SeenOf(m) : s[1] = download_items[j].file
            /\ IsFiniteSet(SeenOf(m)) /\ chunk_refcounts[j] = Cardinality(SeenOf(m))
        BY <3>1, <3>7 DEF Indexed
      <4>1. CASE j = i
        <5>1. m = n
          BY <3>3, <4>0, <4>1
        <5> QED
          BY <2>1, <3>1, <3>4, <4>0, <4>1, <5>1
      <4>2. CASE j # i
        <5>1. m # n
          BY <3>2, <4>0, <4>2
        <5> QED
          BY <2>1, <2>4, <3>1, <3>7, <4>0, <4>2, <5>1
      <4> QED
        BY <4>1, <4>2
    <3> QED
      BY <3>1, <3>5, <3>6, <3>7 DEF Indexed
  <2>6. CASE ~Shared(n)
    <3>1. n \notin DOMAIN download_items_index /\ i = Len(download_items) + 1
      BY <1>2, <2>6, ItemOfRange DEF Shared
    <3>2. /\ DOMAIN download_items_index' = DOMAIN download_items_index \cup {n}
          /\ download_items_index'[n] = i
          /\ \A m \in DOMAIN download_items_index :
                download_items_index'[m] = download_items_index[m]
      BY <1>2, <1>3, <2>6, <3>1 DEF RegisterChunk, FindItem
    <3>3. /\ download_items'[i].name = n /\ download_items'[i].file = all_files_index
          /\ \A j \in DOMAIN download_items : download_items'[j] = download_items[j]
          /\ i \in DOMAIN download_items' /\ i \notin DOMAIN download_items
      <4>1. i \notin DOMAIN download_items
        BY <3>1 DEF RegTypeOK
      <4> QED
        BY <1>3, <2>4, <2>6, <4>1, FoundItem
    <3>4. SeenOf(n) = {}
      BY <3>1 DEF Indexed, SeenOf
    <3>5. IsFiniteSet(SeenOf(n)') /\ chunk_refcounts'[i] = Cardinality(SeenOf(n)')
      <4>1. RefsBefore(i) = 0
        BY <2>4, <3>3 DEF RefsBefore
      <4>2. SeenOf(n)' = {Slot}
        BY <2>1, <3>4
      <4> DEFINE x == Slot
      <4> HIDE DEF x
      <4>3. IsFiniteSet({x}) /\ Cardinality({x}) = 1
        BY FS_Singleton
      <4> QED
        BY <2>4, <4>1, <4>2, <4>3 DEF x
    <3>6. DOMAIN download_items_index' = {NameAt(s) : s \in Seen}'
      BY <2>2, <3>2 DEF Indexed
    <3>7. ASSUME NEW m \in DOMAIN download_items_index'
          PROVE  /\ download_items_index'[m] \in DOMAIN download_items'
                 /\ download_items'[download_items_index'[m]].name = m
      <4>1. CASE m = n
        BY <3>2, <3>3, <4>1
      <4>2. CASE m # n
        <5>1. m \in DOMAIN download_items_index
          BY <3>2, <3>7, <4>2
        <5> QED
          BY <2>4, <3>2, <3>3, <5>1 DEF Indexed
      <4> QED
        BY <4>1, <4>2
    <3>8. ASSUME NEW j \in DOMAIN download_items', NEW m \in Names, m = download_items'[j].name
          PROVE  /\ m \in DOMAIN download_items_index' /\ download_items_index'[m] = j
                 /\ \E s \in SeenOf(m)' : s[1] = download_items'[j].file
                 /\ IsFiniteSet(SeenOf(m)') /\ chunk_refcounts'[j] = Cardinality(SeenOf(m)')
      <4>1. CASE j = i
        <5>1. m = n
          BY <3>3, <3>8, <4>1
        <5>2. Slot \in SeenOf(m)' /\ Slot[1] = download_items'[j].file
          BY <2>1, <2>3, <3>3, <4>1, <5>1
        <5>3. m \in DOMAIN download_items_index' /\ download_items_index'[m] = j
          BY <3>2, <4>1, <5>1
        <5> QED
          BY <3>5, <4>1, <5>1, <5>2, <5>3
      <4>2. CASE j # i
        <5>1. /\ j \in DOMAIN download_items /\ m = download_items[j].name
              /\ download_items'[j] = download_items[j]
          BY <2>4, <3>3, <3>8, <4>2
        <5>2. /\ m \in DOMAIN download_items_index /\ download_items_index[m] = j
              /\ \E s \in SeenOf(m) : s[1] = download_items[j].file
              /\ IsFiniteSet(SeenOf(m)) /\ chunk_refcounts[j] = Cardinality(SeenOf(m))
          BY <5>1 DEF Indexed
        <5>3. m # n
          BY <3>1, <5>2
        <5> QED
          BY <2>1, <2>4, <3>2, <3>8, <4>2, <5>1, <5>2, <5>3
      <4> QED
        BY <4>1, <4>2
    <3> QED
      BY <3>6, <3>7, <3>8 DEF Indexed
  <2> QED
    BY <2>5, <2>6
<1>4. CASE ~RegisterChunk
  <2>1. Seen' = Seen /\ \A n : SeenOf(n)' = SeenOf(n)
    BY <1>4, SeenGrows, SeenOfGrows
  <2>2. UNCHANGED <<download_items_index, chunk_refcounts>>
    BY <1>4 DEF RegNext, regVars, items, Done, SkipCompleted, BeginFile, SkipOld, EndFile, Untaint,
           FlattenItem, HandOver
  <2>3. DOMAIN download_items' = DOMAIN download_items
        /\ \A j \in DOMAIN download_items : /\ download_items'[j].name = download_items[j].name
                                            /\ download_items'[j].file = download_items[j].file
    <3>1. CASE Untaint
      <4>1. CASE force_eager
        BY <3>1, <4>1 DEF Untaint
      <4>2. CASE ~force_eager
        <5>1. /\ DOMAIN download_items' = DOMAIN download_items
              /\ \A j \in DOMAIN download_items :
                   download_items'[j] = [download_items[j] EXCEPT
                     !.use_eager = @ /\ download_items[j].file \notin tainted]
          BY <3>1, <4>2 DEF Untaint
        <5>2. \A j \in DOMAIN download_items : download_items[j] \in ItemType
          BY DEF RegTypeOK
        <5> QED
          BY <5>1, <5>2 DEF ItemType
      <4> QED
        BY <4>1, <4>2
    <3>2. CASE ~Untaint
      <4>1. UNCHANGED download_items
        BY <1>4, <3>2 DEF RegNext, regVars, items, Done, SkipCompleted, BeginFile, SkipOld,
               EndFile, FlattenItem, HandOver
      <4> QED
        BY <4>1
    <3> QED
      BY <3>1, <3>2
  <2>4. {NameAt(s) : s \in Seen}' = {NameAt(s) : s \in Seen}
    BY <1>1, <2>1
  <2> QED
    <3>1. ASSUME NEW j \in DOMAIN download_items', NEW m \in Names, m = download_items'[j].name
          PROVE  /\ m \in DOMAIN download_items_index' /\ download_items_index'[m] = j
                 /\ \E s \in SeenOf(m)' : s[1] = download_items'[j].file
                 /\ IsFiniteSet(SeenOf(m)') /\ chunk_refcounts'[j] = Cardinality(SeenOf(m)')
      <4>1. j \in DOMAIN download_items /\ m = download_items[j].name
        BY <2>3, <3>1
      <4>2. /\ m \in DOMAIN download_items_index /\ download_items_index[m] = j
            /\ \E s \in SeenOf(m) : s[1] = download_items[j].file
            /\ IsFiniteSet(SeenOf(m)) /\ chunk_refcounts[j] = Cardinality(SeenOf(m))
        BY <4>1 DEF Indexed
      <4> QED
        BY <2>1, <2>2, <2>3, <4>1, <4>2
    <3>2. ASSUME NEW m \in DOMAIN download_items_index'
          PROVE  /\ download_items_index'[m] \in DOMAIN download_items'
                 /\ download_items'[download_items_index'[m]].name = m
      BY <2>2, <2>3, <3>2 DEF Indexed
    <3>3. DOMAIN download_items_index' = {NameAt(s) : s \in Seen}'
      BY <2>2, <2>4 DEF Indexed
    <3> QED
      BY <3>1, <3>2, <3>3 DEF Indexed
<1> QED
  BY <1>3, <1>4

LEMMA NextFlattened ==
  ASSUME RegTypeOK, Looping, Indexed, Flattened, [RegNext]_regVars
  PROVE  Flattened'
<1>1. CASE FlattenItem
  <2> DEFINE n == Len(offsets)
  <2>1. /\ n \in DOMAIN chunk_entries /\ n \in Nat \ {0}
        /\ Len(offsets') = n + 1 /\ \A j \in 1 .. n : offsets'[j] = offsets[j]
        /\ offsets'[n + 1] = Len(flat') /\ Len(flat') = Len(flat) + Len(chunk_entries[n])
    BY <1>1, FlatGrows
  <2>2. /\ \A k \in 1 .. Len(flat) : flat'[k] = flat[k]
        /\ \A k \in 1 .. Len(chunk_entries[n]) : flat'[Len(flat) + k] = chunk_entries[n][k]
    BY <1>1, FlatGrows
  <2>3. UNCHANGED <<chunk_entries, phase>> /\ phase = "flatten" /\ n <= Len(chunk_entries)
    BY <1>1 DEF FlattenItem, items
  <2>4. Len(flat) \in Nat /\ Len(chunk_entries) \in Nat
        /\ \A j \in 1 .. n : Len(chunk_entries[j]) \in Nat /\ offsets[j] \in Nat
    <3>1. chunk_entries \in Seq(Seq(EntryType)) /\ offsets \in Seq(Nat) /\ flat \in Seq(EntryType)
      BY DEF RegTypeOK
    <3>2. \A j \in 1 .. n : j \in DOMAIN chunk_entries /\ j \in DOMAIN offsets
      BY <2>1, <2>3, <3>1
    <3>3. \A j \in 1 .. n : chunk_entries[j] \in Seq(EntryType) /\ offsets[j] \in Nat
      BY <3>1, <3>2
    <3> QED
      BY <3>1, <3>3
  <2>5. offsets[n] = Len(flat) /\ offsets[1] = 0
    BY DEF Flattened
  <2>8. \A j \in 1 .. n - 1 :
             /\ offsets[j + 1] = offsets[j] + Len(chunk_entries[j]) /\ offsets[j + 1] <= Len(flat)
             /\ \A k \in 1 .. Len(chunk_entries[j]) : flat[offsets[j] + k] = chunk_entries[j][k]
    BY DEF Flattened
  <2> HIDE DEF n
  <2>6. ASSUME NEW j \in 1 .. n
        PROVE  /\ offsets'[j + 1] = offsets'[j] + Len(chunk_entries[j])
               /\ offsets'[j + 1] <= Len(flat')
               /\ \A k \in 1 .. Len(chunk_entries[j]) : flat'[offsets'[j] + k] = chunk_entries[j][k]
    <3>1. CASE j = n
      <4>1. offsets'[n] = Len(flat) /\ offsets'[n + 1] = Len(flat) + Len(chunk_entries[n])
        BY <2>1, <2>5
      <4> QED
        BY <2>1, <2>2, <2>4, <3>1, <4>1
    <3>2. CASE j # n
      <4>1. j \in 1 .. n - 1 /\ j + 1 \in 1 .. n
        BY <2>1, <3>2
      <4>2. /\ offsets[j + 1] = offsets[j] + Len(chunk_entries[j]) /\ offsets[j + 1] <= Len(flat)
            /\ \A k \in 1 .. Len(chunk_entries[j]) : flat[offsets[j] + k] = chunk_entries[j][k]
        BY <2>8, <4>1
      <4>3. \A k \in 1 .. Len(chunk_entries[j]) : offsets[j] + k \in 1 .. Len(flat)
        BY <2>4, <4>1, <4>2
      <4>4. offsets'[j] = offsets[j] /\ offsets'[j + 1] = offsets[j + 1]
        BY <2>1, <4>1
      <4>5. Len(flat) <= Len(flat')
        BY <2>1, <2>4
      <4>6. offsets[j + 1] \in Nat /\ Len(flat') \in Nat
        BY <2>1, <2>4, <4>1
      <4>7. \A k \in 1 .. Len(chunk_entries[j]) : flat'[offsets'[j] + k] = chunk_entries[j][k]
        BY <2>2, <4>2, <4>3, <4>4
      <4> QED
        BY <2>4, <4>2, <4>4, <4>5, <4>6, <4>7
    <3> QED
      BY <3>1, <3>2
  <2>7. 1 \in 1 .. n /\ Len(offsets') - 1 = n /\ Len(offsets') \in 1 .. Len(chunk_entries) + 1
    BY <2>1, <2>3, <2>4
  <2> QED
    BY <2>1, <2>3, <2>5, <2>6, <2>7 DEF Flattened, n
<1>2. CASE RegisterChunk
  <2>1. Len(chunk_entries') >= Len(chunk_entries) /\ Len(chunk_entries') \in Nat
        /\ Len(chunk_entries) \in Nat
    <3>1. DOMAIN chunk_entries \subseteq DOMAIN chunk_entries'
          /\ chunk_entries' \in Seq(Seq(EntryType)) /\ chunk_entries \in Seq(Seq(EntryType))
      BY <1>2, AddedEntry DEF RegTypeOK
    <3> QED
      BY <3>1
  <2>2. UNCHANGED <<flat, offsets, phase>> /\ phase = "chunks"
    BY <1>2 DEF RegisterChunk, AtChunk
  <2>3. Len(offsets) = 1
    BY <2>2 DEF Flattened
  <2> QED
    BY <2>1, <2>2, <2>3 DEF Flattened
<1>3. CASE ~FlattenItem /\ ~RegisterChunk
  <2>1. UNCHANGED <<chunk_entries, flat, offsets>>
    BY <1>3 DEF RegNext, regVars, items, Done, SkipCompleted, BeginFile, SkipOld, EndFile,
           Untaint, HandOver
  <2>2. \/ phase' = phase \/ (phase \in {"files", "chunks"} /\ phase' # "done")
        \/ (phase' = "done" /\ Len(offsets) > Len(chunk_entries))
    BY <1>3 DEF RegNext, regVars, Done, SkipCompleted, BeginFile, SkipOld, EndFile,
           Untaint, HandOver, AtChunk
  <2>3. Len(offsets) \in Nat /\ Len(chunk_entries) \in Nat
    BY DEF RegTypeOK
  <2>4. phase' \in {"files", "chunks"} => phase \in {"files", "chunks"}
    BY <1>3 DEF RegNext, regVars, Done, SkipCompleted, BeginFile, SkipOld, EndFile,
           Untaint, HandOver, AtChunk
  <2> QED
    BY <2>1, <2>2, <2>3, <2>4 DEF Flattened
<1> QED
  BY <1>1, <1>2, <1>3

LEMMA NextSending ==
  ASSUME RegTypeOK, Looping, Indexed, Sending, [RegNext]_regVars
  PROVE  Sending'
<1> DEFINE Ready(i) == {f \in DOMAIN all_files \ completed : f < i /\ \A s \in Seen : s[1] # f}
<1>1. UNCHANGED <<all_files, completed>>
  BY SeenGrows
<1>2. \A s \in Seen : s[1] \in Nat /\ s[2] \in Nat /\ s[2] >= 1 /\ s[1] \notin completed
                      /\ s[1] <= all_files_index
  BY DownloadsAre, SMTT(30) DEF Seen, RegTypeOK
<1>3. all_files_index \in Nat /\ DOMAIN all_files \subseteq Nat /\ sent \in Seq(Nat)
  BY DEF RegTypeOK
<1>4. CASE SkipCompleted
  <2>1. Seen' = Seen /\ sent' = sent /\ all_files_index' = all_files_index + 1 /\ phase' = "files"
        /\ all_files_index \in completed
    BY <1>4, SeenGrows DEF SkipCompleted, RegisterChunk, AtChunk
  <2> QED
    BY <1>1, <1>3, <2>1, SMTT(30) DEF Sending
<1>5. CASE BeginFile
  <2>1. Seen' = Seen /\ sent' = sent /\ all_files_index' = all_files_index /\ ci = 1
    BY <1>5, SeenGrows DEF BeginFile, RegisterChunk, AtChunk, Looping
  <2>2. \A s \in Seen : s[1] # all_files_index
    BY <1>2, <1>3, <2>1 DEF Seen
  <2>3. pending_counts'[Len(pending_counts')] = 0
    BY <1>5 DEF BeginFile, RegTypeOK
  <2> QED
    BY <1>1, <2>1, <2>2, <2>3 DEF Sending
<1>6. CASE RegisterChunk
  <2>1. Seen' = Seen \cup {Slot} /\ Slot[1] = all_files_index
        /\ UNCHANGED <<sent, all_files_index>>
    BY <1>6, SeenGrows, SlotIsDownload DEF RegisterChunk
  <2>2. pending_counts'[Len(pending_counts')] # 0
    <3>1. pending_counts \in Seq(Nat) /\ Len(pending_counts) \in DOMAIN pending_counts
      BY <1>6, SMTT(30) DEF RegTypeOK, Looping, RegisterChunk, AtChunk
    <3>2. pending_counts' = [pending_counts EXCEPT ![Len(pending_counts)] = @ + 1]
      BY <1>6 DEF RegisterChunk, AddEntry
    <3> QED
      BY <3>1, <3>2
  <2> QED
    BY <1>1, <1>3, <2>1, <2>2 DEF Sending
<1>7. CASE EndFile
  <2> DEFINE n == Len(pending_counts)
  <2>1. Seen' = Seen /\ all_files_index' = all_files_index + 1 /\ phase' = "files"
        /\ all_files_index \in DOMAIN all_files \ completed
        /\ (pending_counts[n] = 0 <=> \A s \in Seen : s[1] # all_files_index)
    <3>1. phase = "chunks" /\ ~RegisterChunk
      BY <1>7 DEF EndFile, RegisterChunk, AtChunk
    <3> QED
      BY <1>7, <3>1, SeenGrows DEF EndFile, Looping, Sending
  <2>2. CASE pending_counts[n] = 0
    <3>1. sent' = Append(sent, all_files_index)
      BY <1>7, <2>2, PoppedCounts
    <3>2. ToSet(sent') = ToSet(sent) \cup {all_files_index}
      BY <1>3, <3>1, SMTT(30) DEF ToSet
    <3>3. ToSet(sent') = Ready(all_files_index + 1)
      BY <1>3, <2>1, <2>2, <3>2 DEF Sending
    <3> QED
      BY <1>1, <2>1, <3>3 DEF Sending
  <2>3. CASE pending_counts[n] # 0
    <3>1. sent' = sent
      BY <1>7, <2>3, PoppedCounts
    <3>2. ToSet(sent') = Ready(all_files_index + 1)
      BY <1>3, <2>1, <2>3, <3>1 DEF Sending
    <3> QED
      BY <1>1, <2>1, <3>2 DEF Sending
  <2> QED
    BY <2>2, <2>3
<1>8. CASE SkipOld \/ Untaint \/ FlattenItem \/ HandOver \/ Done \/ UNCHANGED regVars
  <2>1. UNCHANGED <<sent, all_files_index, pending_counts>> /\ (phase' = "chunks" => phase = "chunks")
        /\ (~RegisterChunk \/ UNCHANGED regVars)
    BY <1>8 DEF SkipOld, Untaint, FlattenItem, HandOver, Done, regVars, RegisterChunk, AtChunk
  <2>2. CASE UNCHANGED regVars
    BY <2>2 DEF Sending, Seen, regVars, inputs, M!Downloads, SlotSet, AllSlots
  <2>3. CASE ~RegisterChunk
    <3>1. Seen' = Seen
      BY <2>3, SeenGrows
    <3> QED
      BY <1>1, <2>1, <3>1 DEF Sending
  <2> QED
    BY <2>1, <2>2, <2>3
<1> QED
  BY <1>4, <1>5, <1>6, <1>7, <1>8 DEF RegNext

\* A file shares a chunk that was seen.
Shares(f) == \E s \in Seen, t \in Seen : s # t /\ NameAt(s) = NameAt(t) /\ s[1] = f

LEMMA NextTainted ==
  ASSUME RegTypeOK, Looping, Indexed, Tainted, verify_mode = "Full", [RegNext]_regVars
  PROVE  Tainted'
<1>1. UNCHANGED all_files /\ \A s : NameAt(s)' = NameAt(s)
  BY SeenGrows
<1>2. CASE ~RegisterChunk
  <2>1. Seen' = Seen
    BY <1>2, SeenGrows
  <2>2. tainted' = tainted
    BY <1>2 DEF RegNext, regVars, items, Done, SkipCompleted, BeginFile, SkipOld, EndFile,
           Untaint, FlattenItem, HandOver
  <2> QED
    BY <1>1, <2>1, <2>2 DEF Tainted
<1>3. CASE RegisterChunk
  <2>1. Slot \notin Seen /\ Seen' = Seen \cup {Slot} /\ Slot[1] = all_files_index
        /\ NameAt(Slot) = Chunk.name /\ all_files_index \in DOMAIN all_files
    BY <1>3, SeenGrows, SlotIsDownload DEF RegisterChunk, Looping, AtChunk
  <2>2. Chunk.name \in Names
    BY <1>3, <2>1, SlotIsDownload, DownloadsAre
  <2>3. tainted = {f \in DOMAIN all_files : Shares(f)}
    BY DEF Tainted, Shares
  <2>4. \A s \in Seen : s[1] \in DOMAIN all_files
    BY DownloadsAre DEF Seen
  <2>5. CASE Shared(Chunk.name)
    <3> DEFINE i == download_items_index[Chunk.name]
               file == download_items[i].file
    <3>1. tainted' = tainted \cup {all_files_index, file}
      BY <1>3, <2>5 DEF RegisterChunk, FindItem, Tainting
    <3>2. i \in DOMAIN download_items /\ Chunk.name = download_items[i].name
      BY <2>5 DEF Indexed, Shared
    <3>3. PICK w \in SeenOf(Chunk.name) : w[1] = file
      BY <2>2, <3>2 DEF Indexed
    <3>4. w \in Seen /\ NameAt(w) = Chunk.name /\ w # Slot
      BY <2>1, <3>3 DEF SeenOf
    <3> HIDE DEF file
    <3>5. ASSUME NEW f \in DOMAIN all_files
          PROVE  (\E s \in Seen', t \in Seen' : s # t /\ NameAt(s) = NameAt(t) /\ s[1] = f)
                 <=> f \in tainted'
      <4>1. ASSUME NEW s \in Seen', NEW t \in Seen', s # t, NameAt(s) = NameAt(t), s[1] = f
            PROVE  f \in tainted'
        <5>1. CASE s = Slot
          BY <2>1, <3>1, <4>1, <5>1
        <5>2. CASE s = w
          BY <3>1, <3>3, <4>1, <5>2
        <5>3. CASE s # Slot /\ s # w /\ t = Slot
          <6>1. s \in Seen /\ NameAt(s) = NameAt(w)
            BY <2>1, <3>4, <4>1, <5>3
          <6> QED
            BY <2>3, <3>1, <3>4, <4>1, <5>3, <6>1 DEF Shares
        <5>4. CASE s # Slot /\ t # Slot
          <6>1. s \in Seen /\ t \in Seen
            BY <2>1, <5>4
          <6> QED
            BY <2>3, <3>1, <4>1, <6>1 DEF Shares
        <5> QED
          BY <5>1, <5>2, <5>3, <5>4
      <4>2. ASSUME f \in tainted'
            PROVE  \E s \in Seen', t \in Seen' : s # t /\ NameAt(s) = NameAt(t) /\ s[1] = f
        <5>1. CASE f \in tainted
          BY <2>1, <2>3, <5>1 DEF Shares
        <5>2. CASE f = all_files_index
          BY <2>1, <3>4, <5>2
        <5>3. CASE f = file
          BY <2>1, <3>3, <3>4, <5>3
        <5> QED
          BY <3>1, <4>2, <5>1, <5>2, <5>3
      <4> QED
        BY <4>1, <4>2
    <3>6. tainted' \subseteq DOMAIN all_files
      BY <2>1, <2>3, <2>4, <3>1, <3>3, <3>4
    <3> QED
      BY <1>1, <3>5, <3>6 DEF Tainted
  <2>6. CASE ~Shared(Chunk.name)
    <3>1. tainted' = tainted /\ Chunk.name \notin DOMAIN download_items_index
      BY <1>3, <2>6 DEF RegisterChunk, FindItem, Shared, force_eager
    <3>2. \A s \in Seen : NameAt(s) # Chunk.name
      BY <3>1 DEF Indexed
    <3>3. ASSUME NEW f
          PROVE  (\E s \in Seen', t \in Seen' : s # t /\ NameAt(s) = NameAt(t) /\ s[1] = f)
                 <=> Shares(f)
      BY <2>1, <3>2 DEF Shares
    <3> QED
      BY <1>1, <2>3, <3>1, <3>3 DEF Tainted
  <2> QED
    BY <2>5, <2>6
<1> QED
  BY <1>2, <1>3

LEMMA NextEager ==
  ASSUME RegTypeOK, Looping, Indexed, Eager, [RegNext]_regVars
  PROVE  Eager'
<1>1. UNCHANGED <<all_files, verify_mode>>
  BY SeenGrows
<1> SUFFICES ASSUME verify_mode = "Full" PROVE Eager'
  BY <1>1 DEF Eager
<1>2. Tainted' /\ ~force_eager
  BY NextTainted DEF Eager, force_eager
<1>3. \A f : Pure(f)' = Pure(f)
  BY <1>1 DEF Pure
<1>4. \A j \in DOMAIN download_items : download_items[j] \in ItemType
  BY DEF RegTypeOK
<1>5. CASE RegisterChunk
  <2>1. phase = "chunks" /\ phase' = "chunks"
    BY <1>5 DEF RegisterChunk, AtChunk
  <2>2. ASSUME NEW j \in DOMAIN download_items'
        PROVE  \A f \in Nat : f = download_items'[j].file =>
                  (download_items'[j].use_eager <=> Pure(f))
    <3>1. CASE j \in DOMAIN download_items /\ download_items'[j] = download_items[j]
      BY <2>1, <3>1 DEF Eager
    <3>2. CASE ~Shared(Chunk.name) /\ j = ItemOf(Chunk.name)
      <4>1. download_items'[j].use_eager = (force_eager \/ Pure(all_files_index))
            /\ download_items'[j].file = all_files_index
        BY <1>5, <3>2, FoundItem
      <4> QED
        BY <1>2, <4>1
    <3> QED
      <4>1. Shared(Chunk.name) => download_items' = download_items
        BY <1>5, FoundItem
      <4>2. ~Shared(Chunk.name) /\ j # ItemOf(Chunk.name) =>
              j \in DOMAIN download_items /\ download_items'[j] = download_items[j]
        <5>1. DOMAIN download_items' = DOMAIN chunk_entries'
          <6>1. Len(chunk_entries') = Len(download_items') /\ chunk_entries' \in Seq(Seq(EntryType))
                /\ download_items' \in Seq(ItemType)
            BY <1>5, AddedEntry, FoundItem
          <6> QED
            BY <6>1
        <5> QED
          BY <1>5, <5>1, AddedEntry, FoundItem
      <4> QED
        BY <2>2, <3>1, <3>2, <4>1, <4>2
  <2> QED
    BY <1>2, <1>3, <2>1, <2>2 DEF Eager
<1>6. CASE Untaint
  <2>1. /\ DOMAIN download_items' = DOMAIN download_items
        /\ \A j \in DOMAIN download_items :
             download_items'[j] = [download_items[j] EXCEPT
               !.use_eager = @ /\ download_items[j].file \notin tainted]
    BY <1>2, <1>6 DEF Untaint
  <2>2. \A j \in DOMAIN download_items :
          /\ download_items'[j].file = download_items[j].file
          /\ download_items'[j].use_eager =
               (download_items[j].use_eager /\ download_items[j].file \notin tainted)
    BY <1>4, <2>1 DEF ItemType
  <2>3. tainted' = tainted /\ phase' = "flatten" /\ phase = "files"
    BY <1>6 DEF Untaint
  <2>4. \A j \in DOMAIN download_items, f \in Nat :
          f = download_items[j].file => (download_items[j].use_eager <=> Pure(f))
    BY <2>3 DEF Eager
  <2>5. \A j \in DOMAIN download_items', f \in Nat :
          f = download_items'[j].file =>
             (download_items'[j].use_eager <=> Pure(f)' /\ f \notin tainted')
    <3> SUFFICES ASSUME NEW j \in DOMAIN download_items', NEW f \in Nat, f = download_items'[j].file
                 PROVE  download_items'[j].use_eager <=> Pure(f)' /\ f \notin tainted'
      OBVIOUS
    <3>1. j \in DOMAIN download_items
      BY <2>1
    <3>2. f = download_items[j].file
      BY <2>2, <3>1
    <3>3. download_items'[j].use_eager = (download_items[j].use_eager /\ f \notin tainted)
      BY <2>2, <3>1, <3>2
    <3>4. download_items[j].use_eager <=> Pure(f)
      BY <2>4, <3>1, <3>2
    <3> QED
      BY <1>3, <2>3, <3>3, <3>4
  <2> QED
    BY <1>2, <2>3, <2>5 DEF Eager
<1>7. CASE ~RegisterChunk /\ ~Untaint
  <2>1. UNCHANGED <<download_items, tainted>>
    BY <1>7 DEF RegNext, regVars, items, Done, SkipCompleted, BeginFile, SkipOld, EndFile,
           FlattenItem, HandOver
  <2>2. phase' \in {"flatten", "done"} <=> phase \in {"flatten", "done"}
    BY <1>7 DEF RegNext, regVars, items, Done, SkipCompleted, BeginFile, SkipOld, EndFile,
           FlattenItem, HandOver, AtChunk
  <2> QED
    BY <1>2, <1>3, <2>1, <2>2 DEF Eager
<1> QED
  BY <1>5, <1>6, <1>7

\* Registering a chunk adds one entry; nothing else touches them.
LEMMA WaitingGrows ==
  ASSUME RegTypeOK, Looping, Indexed, [RegNext]_regVars
  PROVE  /\ ~RegisterChunk => Waiting' = Waiting /\ \A y : Entry(y)' = Entry(y)
         /\ RegisterChunk =>
               \E x : /\ x \notin Waiting /\ Waiting' = Waiting \cup {x}
                      /\ Entry(x)' = NewEntry /\ \A y \in Waiting : Entry(y)' = Entry(y)
<1>1. CASE ~RegisterChunk
  <2>1. chunk_entries' = chunk_entries
    BY <1>1 DEF RegNext, regVars, items, Done, SkipCompleted, BeginFile, SkipOld, EndFile,
           Untaint, FlattenItem, HandOver
  <2> QED
    BY <1>1, <2>1 DEF Waiting, Entry
<1>2. CASE RegisterChunk
  <2> PICK i, n : i = ItemOf(Chunk.name) /\ n = Len(Before(i))
    OBVIOUS
  <2> DEFINE x == <<i, n + 1>>
  <2>1. /\ DOMAIN chunk_entries' = DOMAIN chunk_entries \cup {i}
        /\ chunk_entries'[i] = Append(Before(i), NewEntry)
        /\ \A j \in DOMAIN chunk_entries' : j # i => chunk_entries'[j] = chunk_entries[j]
    BY <1>2, AddedEntry
  <2>2. /\ Before(i) \in Seq(EntryType)
        /\ i \in DOMAIN chunk_entries => Before(i) = chunk_entries[i]
        /\ i \notin DOMAIN chunk_entries => Before(i) = <<>>
    BY DEF Before, RegTypeOK
  <2>3. n \in Nat /\ DOMAIN Before(i) = 1 .. n
    BY <2>2
  <2>4. /\ DOMAIN chunk_entries'[i] = 1 .. n + 1 /\ chunk_entries'[i][n + 1] = NewEntry
        /\ \A k \in 1 .. n : chunk_entries'[i][k] = Before(i)[k]
    BY <2>1, <2>2
  <2>5. x \notin Waiting
    <3>1. ASSUME i \in DOMAIN chunk_entries PROVE n + 1 \notin DOMAIN chunk_entries[i]
      BY <2>2, <2>3, <3>1
    <3> QED
      BY <3>1 DEF Waiting
  <2>6. Entry(x)' = NewEntry
    BY <2>4 DEF Entry
  <2>7. ASSUME NEW y \in Waiting PROVE Entry(y)' = Entry(y) /\ y \in Waiting'
    <3>1. y[1] \in DOMAIN chunk_entries /\ y[2] \in DOMAIN chunk_entries[y[1]]
          /\ y = <<y[1], y[2]>> /\ y[2] \in Nat \ {0}
      BY DEF Waiting
    <3>2. CASE y[1] = i
      <4>1. y[2] \in 1 .. n /\ y[2] \in 1 .. n + 1
        BY <2>2, <2>3, <3>1, <3>2
      <4> QED
        BY <2>1, <2>2, <2>4, <3>1, <3>2, <4>1 DEF Entry, Waiting
    <3>3. CASE y[1] # i
      BY <2>1, <3>1, <3>3 DEF Entry, Waiting
    <3> QED
      BY <3>2, <3>3
  <2>8. x \in Waiting'
    BY <2>1, <2>3, <2>4 DEF Waiting
  <2>9. ASSUME NEW y \in Waiting', y # x PROVE y \in Waiting
    <3>1. y[1] \in DOMAIN chunk_entries' /\ y[2] \in DOMAIN chunk_entries'[y[1]]
          /\ y = <<y[1], y[2]>> /\ y[2] \in Nat \ {0}
      BY DEF Waiting
    <3>2. CASE y[1] = i
      <4>1. y[2] \in 1 .. n
        BY <2>3, <2>4, <2>9, <3>1, <3>2
      <4>2. i \in DOMAIN chunk_entries
        BY <2>2, <2>3, <4>1
      <4> QED
        BY <2>2, <2>3, <3>1, <3>2, <4>1, <4>2 DEF Waiting
    <3>3. CASE y[1] # i
      BY <2>1, <3>1, <3>3 DEF Waiting
    <3> QED
      BY <3>2, <3>3
  <2>10. Waiting' = Waiting \cup {x}
    BY <2>7, <2>8, <2>9
  <2> QED
    BY <1>2, <2>5, <2>6, <2>7, <2>10
<1> QED
  BY <1>1, <1>2

LEMMA NextCounted ==
  ASSUME RegTypeOK, Looping, Indexed, Counted, [RegNext]_regVars
  PROVE  Counted'
<1> PICK L : L = Len(pending_counts)
  OBVIOUS
<1>1. all_files_index \in Nat /\ pending_counts \in Seq(Nat) /\ L \in Nat
      /\ DOMAIN pending_counts = 1 .. L
  BY DEF RegTypeOK
<1>2. ASSUME NEW x \in Waiting
      PROVE  /\ Entry(x).pending \in 1 .. L /\ Entry(x).file \in Nat /\ Entry(x).file <= all_files_index
             /\ Entry(x).file = all_files_index <=> phase = "chunks" /\ Entry(x).pending = L
  <2>1. x[1] \in DOMAIN chunk_entries /\ x[2] \in DOMAIN chunk_entries[x[1]]
    BY DEF Waiting
  <2>2. chunk_entries[x[1]] \in Seq(EntryType)
    BY <2>1 DEF RegTypeOK
  <2>3. Entry(x) \in EntryType
    BY <2>1, <2>2 DEF Entry
  <2> QED
    BY <1>1, <2>3 DEF Counted, EntryType
<1>3. CASE RegisterChunk
  <2>1. PICK x : /\ x \notin Waiting /\ Waiting' = Waiting \cup {x}
                 /\ Entry(x)' = NewEntry /\ \A y \in Waiting : Entry(y)' = Entry(y)
    BY <1>3, WaitingGrows
  <2>2. NewEntry.pending = L /\ NewEntry.file = all_files_index
    BY DEF NewEntry
  <2>3. phase = "chunks" /\ phase' = "chunks" /\ all_files_index' = all_files_index
        /\ L \in 1 .. L
    BY <1>1, <1>3 DEF RegisterChunk, AtChunk, Looping, RegTypeOK
  <2>4. /\ DOMAIN pending_counts' = 1 .. L /\ Len(pending_counts') = L
        /\ pending_counts'[L] = pending_counts[L] + 1
        /\ \A p \in 1 .. L : p # L => pending_counts'[p] = pending_counts[p]
    <3>1. pending_counts' = [pending_counts EXCEPT ![L] = @ + 1]
      BY <1>3 DEF RegisterChunk, AddEntry
    <3> QED
      BY <1>1, <2>3, <3>1
  <2>5. ASSUME NEW p \in 1 .. L
        PROVE  IsFiniteSet(WaitingFor(p)') /\ pending_counts'[p] = Cardinality(WaitingFor(p)')
    <3>1. IsFiniteSet(WaitingFor(p)) /\ pending_counts[p] = Cardinality(WaitingFor(p))
      BY <1>1 DEF Counted
    <3>2. CASE p = L
      <4>1. WaitingFor(p)' = WaitingFor(p) \cup {x} /\ x \notin WaitingFor(p)
        BY <2>1, <2>2, <3>2 DEF WaitingFor
      <4> QED
        BY <2>4, <3>1, <3>2, <4>1, FS_AddElement
    <3>3. CASE p # L
      <4>1. WaitingFor(p)' = WaitingFor(p)
        BY <2>1, <2>2, <3>3 DEF WaitingFor
      <4> QED
        BY <2>4, <3>1, <3>3, <4>1
    <3> QED
      BY <3>2, <3>3
  <2>6. ASSUME NEW y \in Waiting'
        PROVE  /\ Entry(y)'.pending \in DOMAIN pending_counts' /\ Entry(y)'.file <= all_files_index'
               /\ Entry(y)'.file = all_files_index' <=>
                    phase' = "chunks" /\ Entry(y)'.pending = Len(pending_counts')
    <3>1. CASE y = x
      BY <1>1, <2>1, <2>2, <2>3, <2>4, <3>1
    <3>2. CASE y \in Waiting
      BY <1>2, <2>1, <2>3, <2>4, <3>2
    <3> QED
      BY <2>1, <3>1, <3>2
  <2>7. ASSUME NEW y \in Waiting', NEW z \in Waiting'
        PROVE  Entry(y)'.pending = Entry(z)'.pending <=> Entry(y)'.file = Entry(z)'.file
    <3>1. CASE y = x /\ z = x
      BY <3>1
    <3>2. CASE y \in Waiting /\ z \in Waiting
      BY <2>1, <3>2 DEF Counted
    <3>3. CASE y = x /\ z \in Waiting
      BY <1>2, <2>1, <2>2, <2>3, <3>3
    <3>4. CASE y \in Waiting /\ z = x
      BY <1>2, <2>1, <2>2, <2>3, <3>4
    <3> QED
      BY <2>1, <3>1, <3>2, <3>3, <3>4
  <2> QED
    BY <2>4, <2>5, <2>6, <2>7 DEF Counted
<1>4. CASE ~RegisterChunk
  <2>1. Waiting' = Waiting /\ (\A y : Entry(y)' = Entry(y)) /\ \A p : WaitingFor(p)' = WaitingFor(p)
    BY <1>4, WaitingGrows DEF WaitingFor
  <2>2. \A x, y \in Waiting : Entry(x)'.pending = Entry(y)'.pending <=> Entry(x)'.file = Entry(y)'.file
    BY <2>1 DEF Counted
  <2>3. CASE BeginFile
    <3>1. /\ phase = "files" /\ phase' = "chunks" /\ all_files_index' = all_files_index
          /\ pending_counts' = Append(pending_counts, 0)
      BY <2>3 DEF BeginFile
    <3>2. /\ DOMAIN pending_counts' = 1 .. L + 1 /\ Len(pending_counts') = L + 1
          /\ pending_counts'[L + 1] = 0 /\ \A p \in 1 .. L : pending_counts'[p] = pending_counts[p]
      BY <1>1, <3>1
    <3>3. ASSUME NEW p \in 1 .. L + 1
          PROVE  IsFiniteSet(WaitingFor(p)') /\ pending_counts'[p] = Cardinality(WaitingFor(p)')
      <4>1. CASE p = L + 1
        <5>1. \A x \in Waiting : Entry(x).pending # p
          BY <1>1, <1>2, <4>1
        <5>2. WaitingFor(p) = {}
          BY <5>1 DEF WaitingFor
        <5> QED
          BY <2>1, <3>2, <4>1, <5>2, FS_EmptySet
      <4>2. CASE p # L + 1
        <5>1. p \in 1 .. L
          BY <1>1, <4>2
        <5> QED
          BY <1>1, <2>1, <3>2, <5>1 DEF Counted
      <4> QED
        BY <4>1, <4>2
    <3>4. ASSUME NEW x \in Waiting
          PROVE  /\ Entry(x).pending \in 1 .. L + 1 /\ Entry(x).file <= all_files_index
                 /\ Entry(x).file # all_files_index /\ Entry(x).pending # L + 1
      BY <1>1, <1>2, <3>1
    <3> QED
      BY <2>1, <2>2, <3>1, <3>2, <3>3, <3>4 DEF Counted
  <2>4. CASE EndFile
    <3>1. phase = "chunks" /\ phase' = "files" /\ all_files_index' = all_files_index + 1
          /\ L \in 1 .. L
      BY <1>1, <2>4, PoppedCounts DEF EndFile, RegTypeOK
    <3>2. CASE pending_counts[L] = 0
      <4>1. pending_counts' = SubSeq(pending_counts, 1, L - 1)
        BY <2>4, <3>2, PoppedCounts
      <4>2. /\ DOMAIN pending_counts' = 1 .. L - 1
            /\ \A p \in 1 .. L - 1 : pending_counts'[p] = pending_counts[p]
        BY <1>1, <3>1, <4>1
      <4>3. WaitingFor(L) = {}
        BY <1>1, <3>1, <3>2, FS_EmptySet DEF Counted
      <4>4. ASSUME NEW x \in Waiting
            PROVE  Entry(x).pending \in 1 .. L - 1 /\ Entry(x).file <= all_files_index + 1
                   /\ Entry(x).file # all_files_index + 1
        <5>1. Entry(x).pending # L
          BY <4>3 DEF WaitingFor
        <5> QED
          BY <1>1, <1>2, <5>1
      <4>5. \A p \in 1 .. L - 1 : p \in 1 .. L
        BY <1>1
      <4> QED
        BY <1>1, <2>1, <2>2, <3>1, <4>2, <4>4, <4>5 DEF Counted
    <3>3. CASE pending_counts[L] # 0
      <4>1. pending_counts' = pending_counts
        BY <2>4, <3>3, PoppedCounts
      <4>2. ASSUME NEW x \in Waiting
            PROVE  Entry(x).pending \in 1 .. L /\ Entry(x).file <= all_files_index + 1
                   /\ Entry(x).file # all_files_index + 1
        BY <1>1, <1>2
      <4> QED
        BY <1>1, <2>1, <2>2, <3>1, <4>1, <4>2 DEF Counted
    <3> QED
      BY <3>2, <3>3
  <2>5. CASE SkipCompleted
    <3>1. phase' = "files" /\ all_files_index' = all_files_index + 1 /\ pending_counts' = pending_counts
      BY <2>5 DEF SkipCompleted
    <3>2. ASSUME NEW x \in Waiting
          PROVE  Entry(x).pending \in 1 .. L /\ Entry(x).file <= all_files_index + 1
                 /\ Entry(x).file # all_files_index + 1
      BY <1>1, <1>2
    <3> QED
      BY <1>1, <2>1, <2>2, <3>1, <3>2 DEF Counted
  <2>6. CASE SkipOld \/ Untaint \/ FlattenItem \/ HandOver \/ Done \/ UNCHANGED regVars
    <3>1. UNCHANGED <<pending_counts, all_files_index>> /\ (phase' = "chunks" <=> phase = "chunks")
      BY <2>6 DEF SkipOld, Untaint, FlattenItem, HandOver, Done, regVars, AtChunk
    <3> QED
      BY <2>1, <2>2, <3>1 DEF Counted
  <2> QED
    BY <1>4, <2>3, <2>4, <2>5, <2>6 DEF RegNext
<1> QED
  BY <1>3, <1>4

RegInv == Looping /\ Indexed /\ Counted /\ Sending /\ Eager /\ Flattened

LEMMA RegInitInv == RegInit => RegTypeOK /\ RegInv
<1> SUFFICES ASSUME RegInit PROVE RegTypeOK /\ RegInv
  OBVIOUS
<1>1. RegTypeOK /\ Looping
  BY RegInitType
<1>2. /\ all_files_index = 1 /\ ci = 1 /\ download_items = <<>> /\ download_items_index = <<>>
      /\ chunk_entries = <<>> /\ pending_counts = <<>> /\ tainted = {} /\ sent = <<>>
      /\ flat = <<>> /\ offsets = <<0>> /\ phase = "files"
  BY DEF RegInit
<1>3. Seen = {}
  BY <1>1, <1>2, DownloadsAre DEF Seen, RegTypeOK
<1>4. Waiting = {}
  BY <1>2 DEF Waiting
<1>5. Indexed
  BY <1>2, <1>3 DEF Indexed
<1>6. Counted
  BY <1>2, <1>4 DEF Counted
<1>7. Sending
  BY <1>1, <1>2 DEF Sending, ToSet, RegTypeOK
<1>8. Eager
  BY <1>2, <1>3 DEF Eager, Tainted
<1>9. Flattened
  BY <1>2 DEF Flattened
<1> QED
  BY <1>1, <1>5, <1>6, <1>7, <1>8, <1>9 DEF RegInv

LEMMA RegInvHolds == RegSpec => [](RegTypeOK /\ RegInv)
<1>1. RegTypeOK /\ RegInv /\ [RegNext]_regVars => (RegTypeOK /\ RegInv)'
  <2> SUFFICES ASSUME RegTypeOK, RegInv, [RegNext]_regVars PROVE (RegTypeOK /\ RegInv)'
    OBVIOUS
  <2>1. Looping /\ Indexed /\ Counted /\ Sending /\ Eager /\ Flattened
    BY DEF RegInv
  <2>2. RegTypeOK' /\ Looping'
    BY <2>1, NextRegType
  <2>3. Indexed'
    BY <2>1, NextIndexed
  <2>4. Counted'
    BY <2>1, NextCounted
  <2>5. Sending'
    BY <2>1, NextSending
  <2>6. Eager'
    BY <2>1, NextEager
  <2>7. Flattened'
    BY <2>1, NextFlattened
  <2> QED
    BY <2>2, <2>3, <2>4, <2>5, <2>6, <2>7 DEF RegInv
<1> QED
  BY <1>1, RegInitInv, PTL DEF RegSpec

\* When all is done all downloads were seen.
LEMMA AllSeen ==
  ASSUME RegTypeOK, Looping, phase = "done"
  PROVE  /\ Seen = M!Downloads
         /\ M!Items = {NameAt(s) : s \in Seen}
         /\ \A n : M!Uses(n) = SeenOf(n)
         /\ M!ReadyFiles = {f \in DOMAIN all_files \ completed : \A s \in Seen : s[1] # f}
<1>1. all_files_index = Len(all_files) + 1
  BY DEF Looping
<1>2. DOMAIN all_files = 1 .. Len(all_files) /\ Len(all_files) \in Nat
  BY DEF RegTypeOK
<1>3. Seen = M!Downloads
  BY <1>1, <1>2, DownloadsAre DEF Seen
<1>4. \A s \in M!Downloads : s \in SlotSet
  BY DownloadsAre
<1>5. M!Items = {NameAt(s) : s \in Seen}
  BY <1>3, <1>4 DEF M!Items, NameAt
<1>6. \A n : M!Uses(n) = SeenOf(n)
  BY <1>3, <1>4 DEF M!Uses, SeenOf, NameAt
<1>7. ASSUME NEW f PROVE M!SlotsOf(f) \cap M!Downloads = {} <=> \A s \in Seen : s[1] # f
  BY <1>3, <1>4 DEF M!SlotsOf
<1>8. M!ReadyFiles = {f \in DOMAIN all_files \ completed : \A s \in Seen : s[1] # f}
  BY <1>7 DEF M!ReadyFiles
<1> QED
  BY <1>3, <1>5, <1>6, <1>8

LEMMA PartOf ==
  ASSUME NEW S, NEW s \in Seq(S), NEW a \in Nat, NEW b \in Nat, a <= b, b <= Len(s)
  PROVE  /\ Len(SubSeq(s, a + 1, b)) = b - a
         /\ \A k \in 1 .. b - a : SubSeq(s, a + 1, b)[k] = s[a + k]
  OBVIOUS

\* The entries of an item, found through the offsets.
LEMMA WaitersAre ==
  ASSUME RegTypeOK, Flattened, phase = "done", NEW i \in DOMAIN download_items
  PROVE  /\ Len(WaitersOf(i)) = Len(chunk_entries[i]) /\ Len(chunk_entries[i]) \in Nat
         /\ Len(chunk_entries[i]) <= Len(flat)
         /\ i \in DOMAIN chunk_entries
         /\ \A k \in 1 .. Len(chunk_entries[i]) : WaitersOf(i)[k] = chunk_entries[i][k]
<1>0. /\ download_items \in Seq(ItemType) /\ chunk_entries \in Seq(Seq(EntryType))
      /\ Len(chunk_entries) = Len(download_items) /\ offsets \in Seq(Nat) /\ flat \in Seq(EntryType)
      /\ Len(offsets) = Len(chunk_entries) + 1
  BY DEF Flattened, RegTypeOK
<1>1. i \in 1 .. Len(offsets) - 1 /\ i \in DOMAIN chunk_entries /\ Len(offsets) \in Nat
  BY <1>0
<1>2. offsets[i] \in Nat /\ offsets[i + 1] \in Nat /\ Len(flat) \in Nat
  <2>1. i \in DOMAIN offsets /\ i + 1 \in DOMAIN offsets
    BY <1>0, <1>1
  <2> QED
    BY <1>0, <2>1
<1>3. chunk_entries[i] \in Seq(EntryType)
  BY <1>0, <1>1
<1>4. PICK a, b, n : a = offsets[i] /\ b = offsets[i + 1] /\ n = Len(chunk_entries[i])
  OBVIOUS
<1>5. b = a + n /\ b <= Len(flat) /\ a \in Nat /\ b \in Nat /\ n \in Nat
      /\ \A k \in 1 .. n : flat[a + k] = chunk_entries[i][k]
  <2>1. /\ offsets[i + 1] = offsets[i] + Len(chunk_entries[i]) /\ offsets[i + 1] <= Len(flat)
        /\ \A k \in 1 .. Len(chunk_entries[i]) : flat[offsets[i] + k] = chunk_entries[i][k]
    BY <1>1 DEF Flattened
  <2>2. n \in Nat
    BY <1>3, <1>4
  <2> QED
    BY <1>2, <1>4, <2>1, <2>2
<1>6. WaitersOf(i) = SubSeq(flat, a + 1, b)
  BY <1>4 DEF WaitersOf
<1>7. Len(WaitersOf(i)) = n /\ \A k \in 1 .. n : WaitersOf(i)[k] = flat[a + k]
  <2>1. a + 1 \in Nat /\ a <= b /\ b - a = n
    BY <1>5
  <2> QED
    BY <1>0, <1>2, <1>5, <1>6, <2>1, PartOf, SMTT(30)
<1> QED
  BY <1>1, <1>2, <1>4, <1>5, <1>7

LEMMA DoneBalances ==
  ASSUME RegTypeOK, Counted, Flattened
  PROVE  CountdownsBalance
<1> SUFFICES ASSUME phase = "done" PROVE CountdownsBalance
  BY DEF CountdownsBalance
<1> DEFINE waits == {x \in ItemIndices \X (1 .. Len(flat)) : x[2] \in 1 .. Len(WaitersOf(x[1]))}
           entry(x) == WaitersOf(x[1])[x[2]]
<1>1. DOMAIN chunk_entries = ItemIndices
  BY DEF RegTypeOK, ItemIndices
<1>2. \A i \in ItemIndices :
         /\ Len(WaitersOf(i)) = Len(chunk_entries[i]) /\ Len(chunk_entries[i]) \in Nat
         /\ Len(chunk_entries[i]) <= Len(flat)
         /\ \A k \in 1 .. Len(chunk_entries[i]) : WaitersOf(i)[k] = chunk_entries[i][k]
  BY WaitersAre DEF ItemIndices
<1>3. \A i \in ItemIndices : DOMAIN chunk_entries[i] = 1 .. Len(chunk_entries[i])
  <2>1. \A i \in ItemIndices : chunk_entries[i] \in Seq(EntryType)
    BY <1>1 DEF RegTypeOK
  <2> QED
    BY <2>1
<1>4. Len(flat) \in Nat
  BY DEF RegTypeOK
<1>5. ASSUME NEW x PROVE x \in waits <=> x \in Waiting
  <2>1. ASSUME x \in waits PROVE x \in Waiting
    <3>1. x[1] \in ItemIndices /\ x[2] \in 1 .. Len(chunk_entries[x[1]]) /\ x = <<x[1], x[2]>>
          /\ x[2] \in Nat \ {0}
      BY <1>2, <1>4, <2>1
    <3> QED
      BY <1>1, <1>3, <3>1 DEF Waiting
  <2>2. ASSUME x \in Waiting PROVE x \in waits
    <3>1. x[1] \in ItemIndices /\ x[2] \in 1 .. Len(chunk_entries[x[1]]) /\ x = <<x[1], x[2]>>
      BY <1>1, <1>3, <2>2 DEF Waiting
    <3>2. x[2] \in 1 .. Len(flat) /\ x[2] \in 1 .. Len(WaitersOf(x[1]))
      BY <1>2, <1>4, <3>1
    <3> QED
      BY <3>1, <3>2
  <2> QED
    BY <2>1, <2>2
<1>6. ASSUME NEW x \in Waiting PROVE entry(x) = Entry(x)
  <2>1. x[1] \in ItemIndices /\ x[2] \in 1 .. Len(chunk_entries[x[1]])
    BY <1>1, <1>3 DEF Waiting
  <2> QED
    BY <1>2, <2>1 DEF Entry
<1>7. waits = Waiting
  BY <1>5
<1> HIDE DEF waits, entry
<1>8. ASSUME NEW p \in DOMAIN pending_counts
      PROVE  pending_counts[p] = Cardinality({x \in waits : entry(x).pending = p})
  <2>1. {x \in waits : entry(x).pending = p} = WaitingFor(p)
    BY <1>6, <1>7 DEF WaitingFor
  <2> QED
    BY <2>1 DEF Counted
<1>9. \A x, y \in waits : entry(x).pending = entry(y).pending <=> entry(x).file = entry(y).file
  BY <1>6, <1>7 DEF Counted
<1> QED
  BY <1>8, <1>9 DEF CountdownsBalance, waits, entry

LEMMA DoneMatches ==
  ASSUME RegTypeOK, Looping, Indexed, Sending
  PROVE  ItemsMatchManifest
<1> SUFFICES ASSUME phase = "done", verify_mode = "Full" PROVE ItemsMatchManifest
  BY DEF ItemsMatchManifest
<1>1. /\ M!Items = {NameAt(s) : s \in Seen} /\ \A n : M!Uses(n) = SeenOf(n)
      /\ M!ReadyFiles = {f \in DOMAIN all_files \ completed : \A s \in Seen : s[1] # f}
  BY AllSeen
<1>2. \A i \in ItemIndices : download_items[i].name \in Names
  <2>1. \A i \in ItemIndices : download_items[i] \in ItemType
    BY DEF RegTypeOK, ItemIndices
  <2> QED
    BY <2>1 DEF ItemType
<1>3. \A i \in ItemIndices :
         LET n == download_items[i].name
         IN  /\ n \in DOMAIN download_items_index /\ download_items_index[n] = i
             /\ chunk_refcounts[i] = Cardinality(SeenOf(n))
  BY <1>2 DEF Indexed, ItemIndices
<1>4. DOMAIN download_items_index = M!Items
      /\ \A n \in M!Items : download_items_index[n] \in ItemIndices
                            /\ download_items[download_items_index[n]].name = n
  BY <1>1 DEF Indexed, ItemIndices
<1>5. {download_items[i].name : i \in ItemIndices} = M!Items
  BY <1>3, <1>4
<1>6. Len(download_items) = Cardinality(M!Items)
  <2> DEFINE name == [i \in ItemIndices |-> download_items[i].name]
  <2>1. ItemIndices = 1 .. Len(download_items) /\ Len(download_items) \in Nat
    BY DEF ItemIndices, RegTypeOK
  <2>2. IsFiniteSet(ItemIndices) /\ Cardinality(ItemIndices) = Len(download_items)
    <3>1. PICK n \in Nat : n = Len(download_items)
      BY <2>1
    <3>2. IsFiniteSet(1 .. n) /\ Cardinality(1 .. n) = n
      BY FS_Interval
    <3> QED
      BY <2>1, <3>1, <3>2
  <2>3. name \in Bijection(ItemIndices, M!Items)
    <3>1. name \in [ItemIndices -> M!Items]
      BY <1>5
    <3>2. \A i, j \in ItemIndices : name[i] = name[j] => i = j
      BY <1>3
    <3>3. \A n \in M!Items : \E i \in ItemIndices : name[i] = n
      BY <1>4
    <3> QED
      BY <3>1, <3>2, <3>3 DEF Bijection, Injection, Surjection, IsInjective
  <2>4. ExistsBijection(ItemIndices, M!Items)
    BY <2>3 DEF ExistsBijection
  <2> QED
    BY <2>2, <2>4, FS_Bijection
<1>7. ToSet(sent) = M!ReadyFiles
  <2>1. all_files_index = Len(all_files) + 1 /\ DOMAIN all_files = 1 .. Len(all_files)
        /\ Len(all_files) \in Nat
    BY DEF Looping, RegTypeOK
  <2>2. \A f \in DOMAIN all_files : f < all_files_index
    BY <2>1
  <2> QED
    BY <1>1, <2>2 DEF Sending
<1> QED
  BY <1>1, <1>3, <1>5, <1>6, <1>7 DEF ItemsMatchManifest

LEMMA DoneEager ==
  ASSUME RegTypeOK, Looping, Indexed, Eager
  PROVE  EagerMatchesManifest
<1> SUFFICES ASSUME phase = "done", verify_mode = "Full", NEW i \in ItemIndices
             PROVE  download_items[i].use_eager <=> download_items[i].name \in M!EagerItems
  BY DEF EagerMatchesManifest
<1>1. download_items[i] \in ItemType
  BY DEF RegTypeOK, ItemIndices
<1>2. PICK n \in Names, f \in Nat : n = download_items[i].name /\ f = download_items[i].file
  BY <1>1 DEF ItemType
<1>3. PICK w \in SeenOf(n) : w[1] = f
  BY <1>2 DEF Indexed, ItemIndices
<1>4. Seen = M!Downloads /\ \A m : M!Uses(m) = SeenOf(m)
  BY AllSeen
<1>5. w \in M!Downloads /\ NameAt(w) = n
  BY <1>3, <1>4 DEF SeenOf
<1>6. download_items[i].use_eager <=> Pure(f) /\ f \notin tainted
  BY <1>2 DEF Eager, ItemIndices
<1>7. f \in DOMAIN all_files \ completed
  BY <1>3, <1>5, DownloadsAre
<1>8. f \in tainted <=> \E s \in Seen, t \in Seen : s # t /\ NameAt(s) = NameAt(t) /\ s[1] = f
  BY <1>7 DEF Eager, Tainted
<1>9. \A s \in M!Downloads : s \in SlotSet
  BY DownloadsAre
<1>10. M!EagerItems = {NameAt(s) : s \in {d \in M!Downloads : d[1] \in M!EagerFiles}}
  BY <1>9 DEF M!EagerItems, NameAt
<1>11. \A s \in SlotSet : s[1] \in DOMAIN all_files /\ s[2] \in DOMAIN all_files[s[1]]
                          /\ s \in (DOMAIN all_files) \X (1 .. MaxSlots)
  BY DEF SlotSet, AllSlots
<1>12. ASSUME NEW g
       PROVE  g \in M!EagerFiles <=>
                /\ g \in DOMAIN all_files \ completed
                /\ \E s \in SlotSet : s[1] = g
                /\ \A s \in SlotSet : s[1] = g =>
                     ~all_files[s[1]][s[2]].old /\ SeenOf(NameAt(s)) = {s}
  <2>1. M!SlotsOf(g) = {s \in SlotSet : s[1] = g}
    BY DEF M!SlotsOf
  <2>2. \A s \in SlotSet : M!Uses([t \in SlotSet |-> all_files[t[1]][t[2]].name][s]) = SeenOf(NameAt(s))
    BY <1>4 DEF NameAt
  <2> QED
    BY <2>1, <2>2 DEF M!EagerFiles
<1>13. ASSUME Pure(f), f \notin tainted PROVE n \in M!EagerItems
  <2>1. ASSUME NEW s \in SlotSet, s[1] = f
        PROVE  ~all_files[s[1]][s[2]].old /\ SeenOf(NameAt(s)) = {s}
    <3>1. ~all_files[s[1]][s[2]].old
      BY <1>11, <1>13, <2>1 DEF Pure
    <3>2. s \in Seen
      BY <1>4, <1>7, <1>11, <2>1, <3>1, DownloadsAre
    <3>3. \A t \in Seen : NameAt(t) = NameAt(s) => t = s
      BY <1>8, <1>13, <2>1, <3>2
    <3> QED
      BY <3>1, <3>2, <3>3 DEF SeenOf
  <2>2. f \in M!EagerFiles
    BY <1>3, <1>5, <1>7, <1>9, <1>12, <2>1
  <2> QED
    BY <1>3, <1>5, <1>10, <2>2
<1>14. ASSUME n \in M!EagerItems PROVE Pure(f) /\ f \notin tainted
  <2>1. PICK d \in M!Downloads : d[1] \in M!EagerFiles /\ NameAt(d) = n
    BY <1>10, <1>14
  <2>2. SeenOf(n) = {d}
    BY <1>9, <1>12, <2>1
  <2>3. f \in M!EagerFiles
    BY <1>3, <2>1, <2>2
  <2>4. Pure(f)
    <3>1. ASSUME NEW k \in DOMAIN all_files[f] PROVE ~all_files[f][k].old
      <4>1. all_files[f] \in Seq(ChunkRefs) /\ Len(all_files[f]) <= MaxSlots
        BY <1>7 DEF RegTypeOK
      <4>2. k \in 1 .. MaxSlots
        <5>1. k \in 1 .. Len(all_files[f]) /\ Len(all_files[f]) \in Nat
          BY <3>1, <4>1
        <5> QED
          BY <4>1, <5>1, BoundsAssumption
      <4>3. <<f, k>> \in SlotSet /\ <<f, k>>[1] = f /\ <<f, k>>[2] = k
        BY <1>7, <3>1, <4>2 DEF SlotSet, AllSlots
      <4> QED
        BY <1>12, <2>3, <4>3
    <3> QED
      BY <3>1 DEF Pure
  <2>5. f \notin tainted
    <3>1. ASSUME NEW s \in Seen, NEW t \in Seen, s # t, NameAt(s) = NameAt(t), s[1] = f PROVE FALSE
      <4>1. SeenOf(NameAt(s)) = {s}
        BY <1>4, <1>9, <1>12, <2>3, <3>1
      <4> QED
        BY <3>1, <4>1 DEF SeenOf
    <3> QED
      BY <1>8, <3>1
  <2> QED
    BY <2>4, <2>5
<1> QED
  BY <1>2, <1>6, <1>13, <1>14

\* Every vector of the registration keeps its type, and those of the items
\* keep one length.
THEOREM RegTypeCorrect == RegSpec => []RegTypeOK
  BY RegInvHolds, PTL

(***************************************************************************)
(* In Full mode the vectors describe the manifest that InstallPipeline     *)
(* starts from, for any manifest: an item per name, found by it, counting  *)
(* its slots, and the files that download nothing sent at once.            *)
(***************************************************************************)
THEOREM ItemsMatchManifestHolds == RegSpec => []ItemsMatchManifest
<1>1. RegTypeOK /\ RegInv => ItemsMatchManifest
  BY DoneMatches DEF RegInv
<1> QED
  BY <1>1, RegInvHolds, PTL

(***************************************************************************)
(* Found through the offsets, the entries of a file are as many as its     *)
(* pending count says, and no two files share a counter, for any manifest. *)
(***************************************************************************)
THEOREM CountdownsBalanceHolds == RegSpec => []CountdownsBalance
<1>1. RegTypeOK /\ RegInv => CountdownsBalance
  BY DoneBalances DEF RegInv
<1> QED
  BY <1>1, RegInvHolds, PTL

(***************************************************************************)
(* In Full mode a file goes entirely through eager or entirely through     *)
(* assembly: its items are eager when it shares and reuses no chunk.       *)
(***************************************************************************)
THEOREM EagerMatchesManifestHolds == RegSpec => []EagerMatchesManifest
<1>1. RegTypeOK /\ RegInv => EagerMatchesManifest
  BY DoneEager DEF RegInv
<1> QED
  BY <1>1, RegInvHolds, PTL
=============================================================================
