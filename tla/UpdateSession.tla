--------------------------- MODULE UpdateSession ---------------------------
(***************************************************************************)
(* Sophon::download and Sophon::update (sophon.rs) one after the other     *)
(* over one game directory, with crashes, failures and files that change   *)
(* in between: the plan is made anew from the disk each time, while the    *)
(* state file and the bitmap of the session before are found again by a    *)
(* hash over the manifests (VerifyMode::Full).                             *)
(*                                                                         *)
(* A file is installed in one of two ways (build_download_state): eagerly, *)
(* in place, chunk by chunk, with a bit for each; or assembled into a      *)
(* temporary file, partly out of its own old version, and renamed.         *)
(***************************************************************************)
EXTENDS Naturals, Sequences, FiniteSetsExt

CONSTANTS
  Cases,          \* pairs of builds [old, new]; a name has one field in each
  Order,          \* all names, in the order the manifests have them
  MaxSessions, MaxEdits   \* bounds

Names == {Order[k] : k \in DOMAIN Order}

\* In a build a name has one field, and a file some chunks.
IsBuild(build) ==
  /\ \A m \in DOMAIN build : \A n \in DOMAIN build[m] :
       n \in Names /\ build[m][n] \in Seq(Nat \ {0}) /\ build[m][n] # << >>
  /\ \A m, k \in DOMAIN build : m # k => DOMAIN build[m] \cap DOMAIN build[k] = {}

ASSUME UpdateAssumption ==
  /\ MaxSessions \in Nat /\ MaxEdits \in Nat
  /\ Order \in Seq(Names) /\ \A j, k \in DOMAIN Order : Order[j] = Order[k] => j = k
  /\ \A c \in Cases : IsBuild(c.old) /\ IsBuild(c.new)

VARIABLES
  old, new,       \* the two builds; they do not change
  disk,           \* the files: sequences of chunks, 0 for other bytes
  tag,            \* the installed tag
  saved,          \* the state file: what it was saved by, if it has chunks
  bitmap,         \* the bitmap file; layouts: history, the plans it served
  pc, plan,
  is_resume,
  skipped,        \* completed_indices: what the scan found installed
  done,           \* completion_flags
  bits,           \* the bitmap in memory
  handled,        \* eager chunks of this session
  result, sessions, edits,
  stale,          \* history: names whose file is not the one the bitmap file speaks of
  doubtful,       \* history: names the plan takes for intact old files
  struck          \* history: names hit by one of the defects listed below

buildVars == <<old, new>>
workVars == <<is_resume, skipped, done, bits, handled>>
history == <<stale, doubtful, struck>>
vars == <<buildVars, disk, tag, saved, bitmap, pc, plan, workVars, result, sessions, edits, history>>

NoState == [kind |-> "none"]
NoPlan == [kind |-> "none", hash |-> {}, files |-> {}, deleted |-> {}, offsets |-> << >>]
NoBitmap == [hash |-> {}, total |-> 0, bits |-> {}, layouts |-> {}]

Installed == IF tag = "new" THEN new ELSE old
U == INSTANCE UpdatePlan WITH from <- Installed, to <- new
Content(n) == U!Content(n)
Wanted == U!AssetsOf(new)
IsNew(n) == disk[n] = Content(n)
SizeIsNew(n) == Len(disk[n]) = Len(Content(n))

ForgetWork ==
  /\ is_resume' = FALSE /\ skipped' = {} /\ done' = {} /\ bits' = {} /\ handled' = {}

Init ==
  /\ \E c \in Cases : old = c.old /\ new = c.new
  /\ tag \in {"none", "old"}
  /\ disk = [n \in Names |-> IF tag = "old" /\ n \in U!AssetsOf(old)
                              THEN LET m == CHOOSE f \in DOMAIN old : n \in DOMAIN old[f] IN old[m][n]
                              ELSE << >>]
  /\ saved = NoState /\ bitmap = NoBitmap
  /\ pc = "idle" /\ plan = NoPlan
  /\ is_resume = FALSE /\ skipped = {} /\ done = {} /\ bits = {} /\ handled = {}
  /\ result = "none" /\ sessions = 0 /\ edits = 0
  /\ stale = {} /\ doubtful = {} /\ struck = {}
-----------------------------------------------------------------------------
(***************************************************************************)
(* The plan.  A download installs every file of the new build; an update   *)
(* what differs, from files that have the size of the old version.         *)
(***************************************************************************)
FreshPlan ==
  [kind |-> "fresh", hash |-> DOMAIN new, files |-> Wanted, deleted |-> {},
   offsets |-> [n \in Wanted |-> [i \in DOMAIN Content(n) |-> 0]]]

UpdatePlanned ==
  [kind |-> "update", hash |-> U!DiffFields, files |-> U!Diff, deleted |-> U!Deleted,
   offsets |-> U!OldOffsets]

Pure(n) == \A i \in DOMAIN Content(n) : plan.offsets[n][i] = 0

\* The bits are those of the plan's chunks, in the order of its files.
SlotsIn(files) == UNION {{n} \X DOMAIN Content(n) : n \in files}
Ahead(n, h) == \E j, k \in DOMAIN Order : Order[j] = n /\ Order[k] = h /\ j < k
NotAfter(t, s) == Ahead(t[1], s[1]) \/ (t[1] = s[1] /\ t[2] <= s[2])
BitIn(files, s) == Cardinality({t \in SlotsIn(files) : NotAfter(t, s)})

Slots == SlotsIn(plan.files)
Bit(s) == BitIn(plan.files, s)
BitsOf(n) == {Bit(s) : s \in {t \in Slots : t[1] = n}}
Total == Cardinality(Slots)

M == INSTANCE Manifest WITH
       Files <- plan.files, Chunks <- Nat, Slots <- Slots, Completed <- skipped,
       FileOf <- [s \in Slots |-> s[1]], NameOf <- [s \in Slots |-> Content(s[1])[s[2]]],
       OldSlots <- {s \in Slots : plan.offsets[s[1]][s[2]] # 0}
-----------------------------------------------------------------------------
(***************************************************************************)
(* The beginning: the plan, then resolve_resume, which compares what the   *)
(* state file was saved by with kind and hash of the new plan.             *)
(***************************************************************************)
LeftOut(p) == {n \in Wanted \ p.files : SizeIsNew(n) /\ ~IsNew(n)}
Unlike(p) ==
  {n \in p.files : p.offsets[n] # [i \in DOMAIN Content(n) |-> 0]
                   /\ \E m \in DOMAIN Installed :
                        n \in DOMAIN Installed[m] /\ Len(disk[n]) = Len(Installed[m][n])
                        /\ disk[n] # Installed[m][n]}

Start(p) ==
  /\ pc = "idle" /\ sessions < MaxSessions
  /\ sessions' = sessions + 1 /\ pc' = "scan" /\ result' = "none"
  /\ plan' = p
  /\ is_resume' = (saved = [kind |-> p.kind, hash |-> p.hash])
  /\ doubtful' = Unlike(p) /\ struck' = LeftOut(p)
  /\ UNCHANGED <<disk, tag, saved, bitmap, skipped, done, bits, handled, edits, stale>>

StartDownload == Start(FreshPlan)
StartUpdate == tag \in {"old", "new"} /\ Start(UpdatePlanned)

\* No tag, or one the server does not know.
Refuse ==
  /\ pc = "idle" /\ sessions < MaxSessions
  /\ tag \in {"none", "torn"}
  /\ sessions' = sessions + 1 /\ result' = "failed" /\ doubtful' = {} /\ struck' = {}
  /\ UNCHANGED <<disk, tag, saved, bitmap, pc, plan, workVars, edits, stale>>
-----------------------------------------------------------------------------
(***************************************************************************)
(* The scan of install(), if it resumes, and the bitmap it then works on.  *)
(***************************************************************************)
Matching == bitmap.layouts # {} /\ bitmap.hash = plan.hash

ScanBits == IF Matching THEN bitmap.bits ELSE {}

\* The scan goes by the size of the files.
Accepted_BySize == {n \in plan.files : SizeIsNew(n)}

Accepted == {n \in plan.files : SizeIsNew(n) /\ (Pure(n) => BitsOf(n) \subseteq ScanBits)}

\* A file the old version of which is needed is not deleted.
Doomed == {n \in plan.files \ Accepted : Pure(n)}

\* The scan may believe the bits of a plan with other files: it compares
\* no total; it may believe those of a file that was lost or changed since;
\* and of a file that is partly old it knows the size only.
Misled == {n \in Accepted : ~IsNew(n) /\ (Pure(n) => n \in stale \/ bitmap.layouts # {plan.files})}

Scan ==
  /\ pc = "scan"
  /\ LET good == IF is_resume THEN Accepted ELSE {}
         bad == IF is_resume THEN plan.files \ Accepted ELSE {}
         kept == Matching /\ bitmap.total = Total
         loaded == IF kept THEN bitmap ELSE [hash |-> plan.hash, total |-> Total, bits |-> {}, layouts |-> {}]
     IN  /\ skipped' = good /\ done' = good
         /\ disk' = [n \in Names |-> IF is_resume /\ n \in Doomed THEN << >> ELSE disk[n]]
         /\ bitmap' = [loaded EXCEPT !.layouts = @ \cup {plan.files}]
         /\ bits' = loaded.bits \ UNION {BitsOf(n) : n \in bad}
         /\ struck' = struck \cup (Misled \cap good)
         /\ stale' = IF kept THEN stale \cup (Doomed \cap bad) ELSE {}
  /\ pc' = "run"
  /\ UNCHANGED <<tag, saved, plan, is_resume, handled, result, sessions, edits, doubtful>>
-----------------------------------------------------------------------------
(***************************************************************************)
(* The files.                                                              *)
(***************************************************************************)
Eager == M!EagerFiles
Missing(s) == s[1] \in Eager /\ s \notin handled

Handle(s) ==
  /\ pc = "run" /\ Missing(s)
  /\ handled' = handled \cup {s}
  /\ done' = IF \E t \in Slots : t[1] = s[1] /\ t # s /\ t \notin handled THEN done ELSE done \cup {s[1]}
  /\ UNCHANGED <<tag, saved, bitmap, pc, plan, is_resume, skipped, result, sessions, edits, stale, doubtful>>

\* preallocate_file: extends, never shrinks.
Laid(n) ==
  [i \in 1 .. Max({Len(Content(n)), Len(disk[n])}) |-> IF i \in DOMAIN disk[n] THEN disk[n][i] ELSE 0]

EagerWrite(s) ==
  /\ Handle(s)
  /\ Bit(s) \notin bits
  /\ disk' = [disk EXCEPT ![s[1]] = [Laid(s[1]) EXCEPT ![s[2]] = Content(s[1])[s[2]]]]
  /\ bits' = bits \cup {Bit(s)}
  /\ struck' = IF Len(disk[s[1]]) > Len(Content(s[1])) THEN struck \cup {s[1]} ELSE struck

\* The bit is set; in a session that does not resume it may be an old one.
EagerSkip(s) ==
  /\ Handle(s)
  /\ Bit(s) \in bits
  /\ struck' = IF is_resume \/ IsNew(s[1]) THEN struck ELSE struck \cup {s[1]}
  /\ UNCHANGED <<disk, bits>>

Assembled == plan.files \ (skipped \cup Eager)

Readable(n) ==
  \A i \in DOMAIN Content(n) :
    LET at == plan.offsets[n][i]
    IN  at # 0 => at <= Len(disk[n]) /\ disk[n][at] = Content(n)[i]

\* A target that has the digest already is left alone.
Assemble(n) ==
  /\ pc = "run" /\ n \in Assembled \ done
  /\ IsNew(n) \/ Readable(n)
  /\ disk' = [disk EXCEPT ![n] = Content(n)]
  /\ done' = done \cup {n}
  /\ UNCHANGED <<tag, saved, bitmap, pc, plan, is_resume, skipped, bits, handled, result, sessions, edits, history>>

(***************************************************************************)
(* Every so often, and not at one moment, the chunks downloaded go to the  *)
(* state file and the bits to the bitmap file.  What is there matters when *)
(* the session ends: any of the bits may have got there, or none of this   *)
(* session's saves.                                                        *)
(***************************************************************************)
\* The final save has all of them; one of an assembled file may have none.
Record == IF M!Downloads # {} THEN [kind |-> plan.kind, hash |-> plan.hash] ELSE NoState
Saves == {Record, NoState}

\* What a resuming scan has cleared reaches the bitmap file no earlier.
Cleared == IF is_resume THEN plan.files \ skipped ELSE {}

Sync(some) ==
  /\ bitmap' = [bitmap EXCEPT !.bits = some]
  /\ stale' = stale \ Cleared

Persisted ==
  \/ UNCHANGED <<saved, bitmap, stale>>
  \/ pc = "run" /\ saved' \in Saves /\ \E some \in SUBSET bits : Sync(some)
-----------------------------------------------------------------------------
(***************************************************************************)
(* finalize_install: an error ends the session; otherwise the state is     *)
(* saved, the deleted files are removed (as far as that works), the tag is *)
(* written, and update() or download() removes the state file.             *)
(***************************************************************************)
End(how) ==
  /\ pc' = "idle" /\ result' = how /\ plan' = NoPlan /\ ForgetWork
  /\ UNCHANGED <<disk, sessions, edits, doubtful, struck>>

\* A download or an assembly fails, or the user cancels.
ReturnError ==
  /\ pc = "run"
  /\ saved' \in {saved} \cup Saves /\ Sync(bits)
  /\ End("failed")
  /\ UNCHANGED tag

Complete ==
  /\ pc = "run" /\ done = plan.files
  /\ saved' = Record /\ Sync(bits)
  /\ pc' = "delete"
  /\ UNCHANGED <<disk, tag, plan, workVars, result, sessions, edits, doubtful, struck>>

Delete ==
  /\ pc = "delete"
  /\ \E gone \in SUBSET plan.deleted :
       /\ disk' = [n \in Names |-> IF n \in gone THEN << >> ELSE disk[n]]
       /\ struck' = struck \cup (gone \cap Wanted)
       /\ stale' = stale \cup gone
  /\ pc' = "tag"
  /\ UNCHANGED <<tag, saved, bitmap, plan, workVars, result, sessions, edits, doubtful>>

WriteTag ==
  /\ pc = "tag"
  /\ tag' = "new"
  /\ pc' = "ok"
  /\ UNCHANGED <<disk, saved, bitmap, plan, workVars, result, sessions, edits, history>>

\* The state file is removed; a save of an assembled file may come after that.
ReturnOk ==
  /\ pc = "ok"
  /\ saved' \in Saves
  /\ End("ok")
  /\ UNCHANGED <<tag, bitmap, stale>>
-----------------------------------------------------------------------------
\* The tag is written by truncating it first.
Crash ==
  /\ pc # "idle"
  /\ tag' \in IF pc = "tag" THEN {tag, "torn"} ELSE {tag}
  /\ Persisted
  /\ End("none")

\* Between sessions a file is lost, cut or changed.
Edit(n) ==
  /\ pc = "idle" /\ edits < MaxEdits /\ disk[n] # << >>
  /\ edits' = edits + 1
  /\ \E len \in {0, 1, Len(disk[n])} : disk' = [disk EXCEPT ![n] = [i \in 1 .. len |-> 0]]
  /\ stale' = stale \cup {n}
  /\ result' = "none"
  /\ UNCHANGED <<tag, saved, bitmap, pc, plan, workVars, sessions, doubtful, struck>>

Next ==
  /\ \/ StartDownload \/ StartUpdate \/ Refuse \/ Scan
     \/ \E s \in Slots : EagerWrite(s) \/ EagerSkip(s)
     \/ \E n \in Names : Assemble(n) \/ Edit(n)
     \/ ReturnError \/ Complete \/ Delete \/ WriteTag \/ ReturnOk \/ Crash
  /\ UNCHANGED buildVars

Spec == Init /\ [][Next]_vars
-----------------------------------------------------------------------------
(***************************************************************************)
(* An update or a download that returns Ok leaves every file of the build  *)
(* as the build has it, however many sessions were cut short before it     *)
(* and whatever was missing or cut on disk.  The code has it wrong for     *)
(* the files that are `struck':                                            *)
(*   - left out of the plan, as they have their size though not their      *)
(*     content (build_diff_installers, installer.rs);                      *)
(*   - taken for installed by a resuming scan: partly old and of the right *)
(*     size, by the bits of a plan with other files, or by bits that       *)
(*     outlived their file: it was changed from outside, or deleted by     *)
(*     a session, which clears bits in memory only (installer.rs:2562)     *)
(*     and may be cut short before its next sync;                          *)
(*   - not written at all, as a session that does not resume believes the  *)
(*     bits an earlier one has left;                                       *)
(*   - laid over a longer file;                                            *)
(*   - installed, and then deleted because another field has lost them.    *)
(***************************************************************************)
UpdatedIsNew ==
  result = "ok" => tag = "new" /\ \A n \in Wanted : IsNew(n) \/ n \in struck

(***************************************************************************)
(* Whenever a file is about to be assembled, its old chunks are where the  *)
(* plan says (chunk_old_offset), though the plan was made from sizes and   *)
(* the session before may have been cut short; only a file with its old    *)
(* size and another content deceives it.                                   *)
(***************************************************************************)
OldChunksAreThere ==
  pc = "run" => \A n \in Assembled \ done : IsNew(n) \/ Readable(n) \/ n \in doubtful

(***************************************************************************)
(* check_update never announces more than the update will download: a      *)
(* damaged file adds to the plan, and what a chunk of another file saves   *)
(* in the estimate, the plan still downloads ("Best-effort estimate",      *)
(* update.rs).                                                             *)
(***************************************************************************)
EstimateIsLowerBound ==
  pc = "scan" /\ plan.kind = "update" =>
    U!Announced \subseteq {Content(s[1])[s[2]] : s \in {t \in Slots : plan.offsets[t[1]][t[2]] = 0}}
=============================================================================
