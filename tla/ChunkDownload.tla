---------------------------- MODULE ChunkDownload ----------------------------
(***************************************************************************)
(* One chunk file, from check_needs_download through the retries of        *)
(* download_chunk_with_retry_policy (installer.rs) to the attempts of      *)
(* do_download_chunk (download.rs): what is on disk may be resumed with a  *)
(* Range request, and every byte is counted and hashed as it arrives.      *)
(*                                                                         *)
(* The server and the network may spoil any attempt; the session may be    *)
(* cancelled or crash, and be followed by another; the file may be damaged *)
(* in between.                                                             *)
(***************************************************************************)
EXTENDS Integers

CONSTANTS
  Size,           \* chunk_size, in blocks
  MaxRetries, MaxHashRetries,
  MaxSessions     \* bound

ASSUME ChunkAssumption ==
  /\ Size \in Nat \ {0}
  /\ MaxRetries \in Nat \ {0} /\ MaxHashRetries \in Nat \ {0}
  /\ MaxSessions \in Nat

VARIABLES
  profile,        \* what is known of the chunk; it does not change
  dest,           \* the chunk file
  listed,         \* the state file has the chunk: is_pre_downloaded
  pc, result,     \* where the session is; how the last one ended: "failed" is
                  \* DownloadFailed, "full" NoSpaceAvailable
  sessions,
  cancelled,
  given, known,   \* existing_size of the caller, Some(known) if it is given
  network, hashes,\* network_attempts, hash_failures
  total, digest,  \* total_len, and what the hasher says of what it has seen
  spoiled         \* history: attempts of this session that a fault spoiled

loopVars == <<given, known, network, hashes, total, digest, spoiled>>
vars == <<profile, dest, listed, pc, result, sessions, cancelled, loopVars>>

\* The manifest has the hash of the compressed chunk, of the decompressed
\* one; VerifyMode is not Full.
HasHash == "hash" \in profile
HasPlainHash == "plain" \in profile
SkipHash == "skip" \in profile

(***************************************************************************)
(* A file has a length, and it is "right" if it is a prefix of the chunk,  *)
(* or the chunk with something behind it, and "wrong" if it is neither.    *)
(***************************************************************************)
NoFile == [kind |-> "none", len |-> 0]
File(n, k) == [kind |-> k, len |-> n]
Absent == dest.kind = "none"
Right == dest.kind = "right"

Qualities == {"right", "wrong"}
Both(k, l) == IF k = "right" /\ l = "right" THEN "right" ELSE "wrong"

Whole == dest = File(Size, "right")

FlagsOK == listed \in BOOLEAN /\ cancelled \in BOOLEAN /\ given \in BOOLEAN

TypeOK ==
  /\ profile \subseteq {"hash", "plain", "skip"}
  /\ dest \in [kind : {"none", "right", "wrong"}, len : 0 .. Size + 1]
  /\ FlagsOK
  /\ pc \in {"idle", "check", "attempt", "fresh", "stream"}
  /\ result \in {"none", "ok", "cancelled", "failed", "full"}
  /\ sessions \in 0 .. MaxSessions
  /\ known \in 0 .. Size + 1
  /\ network \in 0 .. MaxRetries - 1 /\ hashes \in 0 .. MaxHashRetries - 1
  /\ total \in 0 .. Size /\ digest \in Qualities
  /\ spoiled \in Nat

Clear ==
  given' = FALSE /\ known' = 0 /\ network' = 0 /\ hashes' = 0 /\ total' = 0 /\ digest' = "right" /\ spoiled' = 0

Init ==
  /\ profile \in SUBSET {"hash", "plain", "skip"}
  /\ dest = NoFile /\ listed = FALSE
  /\ pc = "idle" /\ result = "none" /\ sessions = 0 /\ cancelled = FALSE
  /\ given = FALSE /\ known = 0 /\ network = 0 /\ hashes = 0 /\ total = 0 /\ digest = "right" /\ spoiled = 0

Return(how) ==
  /\ pc' = "idle" /\ result' = how
  /\ UNCHANGED <<sessions, cancelled, loopVars>>

Goto(where) ==
  /\ pc' = where
  /\ UNCHANGED <<listed, result, sessions, cancelled, given, known, network, hashes, spoiled>>
-----------------------------------------------------------------------------
(***************************************************************************)
(* Around the session.                                                     *)
(***************************************************************************)
Start ==
  /\ pc = "idle" /\ sessions < MaxSessions
  /\ sessions' = sessions + 1
  /\ pc' = "check" /\ result' = "none" /\ cancelled' = FALSE
  /\ Clear
  /\ UNCHANGED <<dest, listed>>

Cancel ==
  /\ pc # "idle" /\ ~cancelled
  /\ cancelled' = TRUE
  /\ UNCHANGED <<dest, listed, pc, result, sessions, loopVars>>

\* What was written last may not have left the writer's buffer.
Crash ==
  /\ pc # "idle"
  /\ \E n \in IF pc = "stream" THEN 0 .. dest.len ELSE {dest.len} :
       dest' = [dest EXCEPT !.len = n]
  /\ pc' = "idle" /\ result' = "none"
  /\ Clear
  /\ UNCHANGED <<listed, sessions, cancelled>>

\* The file is lost, cut, or no longer what was written.
Damage ==
  /\ pc = "idle" /\ ~Absent
  /\ dest' \in {NoFile} \cup {File(n, k) : n \in 0 .. Size + 1, k \in Qualities}
  /\ result' = "none"
  /\ UNCHANGED <<listed, pc, sessions, cancelled, loopVars>>
-----------------------------------------------------------------------------
(***************************************************************************)
(* process_download_item: a chunk of an earlier session is hashed (or its  *)
(* hash is cached), and downloaded again if that fails; the caller then    *)
(* passes on the size it has seen.                                         *)
(***************************************************************************)
Check ==
  /\ pc = "check"
  /\ IF cancelled THEN Return("cancelled") /\ UNCHANGED listed
     ELSE IF listed /\ Whole /\ HasHash THEN Return("ok") /\ UNCHANGED listed
     ELSE /\ given' = (listed /\ ~Absent)
          /\ known' = dest.len
          /\ pc' = "attempt"
          /\ UNCHANGED <<listed, result, sessions, cancelled, network, hashes, total, digest, spoiled>>
  /\ UNCHANGED dest

\* The size the attempt believes the file has.
Existing == IF given THEN known ELSE dest.len
-----------------------------------------------------------------------------
(***************************************************************************)
(* The retries.  fault: the attempt was spoiled from outside.              *)
(***************************************************************************)
\* The last attempt that is allowed is not made.
Again_TooFew(fault) ==
  /\ spoiled' = spoiled + (IF fault THEN 1 ELSE 0)
  /\ IF network + 2 < MaxRetries
       THEN network' = network + 1 /\ pc' = "attempt" /\ UNCHANGED result
       ELSE pc' = "idle" /\ result' = "failed" /\ UNCHANGED network
  /\ UNCHANGED <<listed, sessions, cancelled, given, known, hashes, total, digest>>

Again(fault) ==
  /\ spoiled' = spoiled + (IF fault THEN 1 ELSE 0)
  /\ IF network + 1 < MaxRetries
       THEN network' = network + 1 /\ pc' = "attempt" /\ UNCHANGED result
       ELSE pc' = "idle" /\ result' = "failed" /\ UNCHANGED network
  /\ UNCHANGED <<listed, sessions, cancelled, given, known, hashes, total, digest>>

AfterMismatch ==
  /\ spoiled' = spoiled + 1
  /\ IF hashes + 1 < MaxHashRetries
       THEN hashes' = hashes + 1 /\ pc' = "attempt" /\ UNCHANGED result
       ELSE pc' = "idle" /\ result' = "failed" /\ UNCHANGED hashes
  /\ UNCHANGED <<listed, sessions, cancelled, given, known, network, total, digest>>

\* An error that is not retryable is returned at once, whatever the attempts left:
\* there is too little space for what is to come (check_available_space).
NoSpace ==
  /\ Return("full")
  /\ UNCHANGED listed

\* At the top of the loop, or in the sleep before it.
AttemptCancelled ==
  /\ pc = "attempt" /\ cancelled
  /\ Return("cancelled")
  /\ UNCHANGED <<dest, listed>>

Succeed ==
  /\ listed' \in {listed, TRUE}
  /\ Return("ok")

(***************************************************************************)
(* A file at least as long as the chunk is cut to its size and hashed.     *)
(***************************************************************************)
Cut == File(Size, IF dest.len >= Size THEN dest.kind ELSE "wrong")

\* What is left to verify: a file that is not there cannot be cut.
Trimmed == IF Existing > Size /\ ~Absent THEN Cut ELSE dest

\* Its digest: all of the file is read.  The caller's length only advises
\* the kernel.
DigestRight == Trimmed = File(Size, "right")

AttemptComplete ==
  /\ pc = "attempt" /\ ~cancelled
  /\ Existing >= Size
  /\ IF Existing > Size /\ Absent THEN dest' = dest /\ Goto("fresh") /\ UNCHANGED <<total, digest>>
     ELSE IF HasHash /\ Absent THEN dest' = dest /\ Again(FALSE)
     ELSE IF HasHash /\ DigestRight THEN dest' = Trimmed /\ Succeed
     ELSE IF ~HasHash /\ ~HasPlainHash THEN dest' = Trimmed /\ Succeed
     ELSE dest' = NoFile /\ Goto("fresh") /\ UNCHANGED <<total, digest>>

(***************************************************************************)
(* A shorter one is resumed.  The server may honour the range, refuse it   *)
(* or ignore it, or answer for another length.                             *)
(***************************************************************************)
Partial == pc = "attempt" /\ ~cancelled /\ Existing \in 1 .. Size - 1

RangeFails == Partial /\ Again(TRUE) /\ UNCHANGED dest

RangeRefused ==
  /\ Partial
  /\ dest' = NoFile
  /\ Goto("fresh") /\ UNCHANGED <<total, digest>>

RangeWrongLength == Partial /\ dest' = NoFile /\ Again(TRUE)

\* The first bytes of the file go through the hasher, as many as it is
\* believed to have; that and appending to it need the file.
PrefixDigest == dest.kind

RangeHonoured ==
  /\ Partial
  /\ IF Absent THEN Again(FALSE)
     ELSE /\ total' = Existing /\ digest' = PrefixDigest
          /\ Goto("stream")
  /\ UNCHANGED dest

RangeTooLarge == Partial /\ NoSpace /\ UNCHANGED dest

AttemptNothing ==
  /\ pc = "attempt" /\ ~cancelled
  /\ Existing = 0
  /\ Goto("fresh")
  /\ UNCHANGED <<dest, total, digest>>

(***************************************************************************)
(* A fresh download creates the file; preallocate keeps its size.          *)
(***************************************************************************)
FreshFails == pc = "fresh" /\ Again(TRUE) /\ UNCHANGED dest

FreshTooLarge == pc = "fresh" /\ NoSpace /\ UNCHANGED dest

\* The file is opened as it is, and not created anew.
Fresh_Kept ==
  /\ pc = "fresh"
  /\ dest' = IF Absent THEN File(0, "right") ELSE dest
  /\ total' = 0 /\ digest' = "right"
  /\ Goto("stream")

Fresh ==
  /\ pc = "fresh"
  /\ dest' = File(0, "right")
  /\ total' = 0 /\ digest' = "right"
  /\ Goto("stream")
-----------------------------------------------------------------------------
(***************************************************************************)
(* stream_and_verify.  Whatever goes wrong removes the file.               *)
(***************************************************************************)
Receive(piece) ==
  /\ pc = "stream" /\ ~cancelled
  /\ IF total + 1 > Size
       THEN dest' = NoFile /\ Again(TRUE)
       ELSE /\ total' = total + 1 /\ digest' = Both(digest, piece)
            /\ dest' = File(dest.len + 1, Both(dest.kind, piece))
            /\ Goto("stream")

StreamFails ==
  /\ pc = "stream" /\ ~cancelled
  /\ dest' = NoFile
  /\ Again(TRUE)

StreamCancelled ==
  /\ pc = "stream" /\ cancelled
  /\ dest' = NoFile
  /\ Return("cancelled")
  /\ UNCHANGED listed

\* A stream that may end early.
StreamEnds_AnyLength ==
  /\ pc = "stream"
  /\ IF HasHash /\ ~SkipHash /\ digest # "right" THEN dest' = NoFile /\ AfterMismatch
     ELSE dest' = dest /\ Succeed

StreamEnds ==
  /\ pc = "stream"
  /\ IF total # Size THEN dest' = NoFile /\ Again(TRUE)
     ELSE IF HasHash /\ ~SkipHash /\ digest # "right" THEN dest' = NoFile /\ AfterMismatch
     ELSE dest' = dest /\ Succeed

Step ==
  \/ Check \/ AttemptCancelled \/ AttemptComplete
  \/ RangeFails \/ RangeRefused \/ RangeWrongLength \/ RangeTooLarge \/ RangeHonoured
  \/ AttemptNothing \/ FreshFails \/ FreshTooLarge \/ Fresh
  \/ (\E piece \in Qualities : Receive(piece))
  \/ StreamFails \/ StreamCancelled \/ StreamEnds

Next ==
  /\ Start \/ Step \/ Cancel \/ Crash \/ Damage
  /\ UNCHANGED profile

Spec == Init /\ [][Next]_vars
-----------------------------------------------------------------------------
(***************************************************************************)
(* A chunk that counts as downloaded has its full length, however many     *)
(* attempts, resumed or fresh, of however many sessions it took; and with  *)
(* a hash to check it is the right one.                                    *)
(***************************************************************************)
OkIsWhole ==
  result = "ok" => /\ dest.len = Size
                   /\ (HasHash /\ ~SkipHash) => Right

(***************************************************************************)
(* The count of stream_and_verify is the length of the file: it resumes    *)
(* where the file ends, also when the caller's size is an old one.         *)
(***************************************************************************)
CountIsLength == pc = "stream" => total = dest.len /\ (digest = "right" => Right)

(***************************************************************************)
(* A session reports DownloadFailed only when the network, the server or a *)
(* wrong hash spoiled every attempt the policy allows ("Chunk failed       *)
(* (attempt n/5)", installer.rs), or when it was given a size: that is     *)
(* read once, and the attempts after the first fail because the file is    *)
(* gone.  It does not report it for want of space, which ends the chunk at *)
(* whatever attempt finds it so, with an error of its own.                 *)
(***************************************************************************)
GivesUpWhenSpoiled ==
  result = "failed" => spoiled >= MaxRetries \/ hashes = MaxHashRetries - 1 \/ given
=============================================================================
