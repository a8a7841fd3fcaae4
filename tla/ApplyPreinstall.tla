--------------------------- MODULE ApplyPreinstall ---------------------------
(***************************************************************************)
(* apply_preinstall (preinstall.rs) over the package PreinstallPackage     *)
(* leaves: each asset is copied, patched or, when that fails, downloaded   *)
(* whole; then unused files are deleted, the tag is written and the state  *)
(* removed.  Downloads and applications of one package alternate in any    *)
(* order, and each may be cancelled, fail or crash.                        *)
(***************************************************************************)
EXTENDS PreinstallPackage

CONSTANTS
  Files,          \* paths of the game
  OldFiles,       \* those the old version has
  Tampered,       \* those of them somebody else may have changed
  LastAttempt     \* COPY_MAX_RETRIES and PATCH_MAX_RETRIES

ASSUME ApplyAssumption ==
  /\ Tampered \subseteq OldFiles /\ OldFiles \subseteq Files
  /\ LastAttempt \in Nat

\* What a release names are files of the game, and finitely many.
ASSUME ReleaseAssumption ==
  \A r \in Releases :
    /\ r.patches \in Seq(Range(r.patches))
    /\ \A i \in DOMAIN r.patches : r.patches[i].assets \in Seq(Range(r.patches[i].assets))
    /\ \A x \in Places(r) : AssetAt(r, x).file \in Files
    /\ \A i \in DOMAIN r.patches : r.patches[i].unused \subseteq Files
    /\ MainFiles(r) \subseteq Files /\ IsFiniteSet(MainFiles(r))

VARIABLES
  file,           \* file[f]: which version of f there is
  index,          \* the asset apply is at
  attempt,        \* how often it was tried
  fallback,       \* fallback_to_download
  left            \* deleted_files that were not tried

applyVars == <<index, attempt, fallback, left>>
vars == <<packageVars, file, applyVars>>

TypeOK ==
  /\ PackageTypeOK
  /\ pc \in Downloading \cup {"idle", "load", "next", "try", "over", "delete", "tag",
                              "unstate", "unmark"}
  /\ file \in [Files -> {"missing", "old", "new", "alien"}]
  /\ index \in 0 .. Len(Tasks(release)) + 1
  /\ attempt \in 0 .. LastAttempt
  /\ fallback \in BOOLEAN
  /\ left \subseteq Files

Idle == index = 0 /\ attempt = 0 /\ fallback = FALSE /\ left = {}

Init ==
  /\ PackageInit
  /\ \E alien \in SUBSET Tampered :
       file = [f \in Files |-> CASE f \in alien -> "alien"
                                 [] f \in OldFiles \ alien -> "old"
                                 [] OTHER -> "missing"]
  /\ Idle

asset == Tasks(release)[index]

ResetApply == index' = 0 /\ attempt' = 0 /\ fallback' = FALSE /\ left' = {}

\* apply_preinstall returns.
Stop(how) ==
  /\ Return(how) /\ ResetApply
  /\ UNCHANGED <<release, cancelled>>

Goto(where) ==
  /\ pc' = where
  /\ UNCHANGED <<release, result, cancelled, poolVars>>

Advance ==
  /\ index' = index + 1 /\ attempt' = 0 /\ fallback' = FALSE
  /\ UNCHANGED left
  /\ Goto("next")
-----------------------------------------------------------------------------
StartApply ==
  /\ pc = "idle"
  /\ pc' = "load" /\ result' = "none" /\ cancelled' = FALSE
  /\ UNCHANGED <<release, diskVars, poolVars, file, applyVars>>

Refuse ==
  /\ pc = "load"
  /\ \/ cancelled /\ Stop("cancelled")
     \/ ~cancelled /\ (pkg = "none" \/ tag # "old") /\ Stop("failed")
  /\ UNCHANGED <<diskVars, file>>

\* A package applied to whatever version is installed.
Load_AnyTag ==
  /\ pc = "load" /\ ~cancelled
  /\ pkg \in {"sealed", "migrated"}
  /\ index' = 1
  /\ Goto("next")
  /\ UNCHANGED <<diskVars, file, attempt, fallback, left>>

Load ==
  /\ pc = "load" /\ ~cancelled
  /\ pkg \in {"sealed", "migrated"} /\ tag = "old"
  /\ index' = 1
  /\ Goto("next")
  /\ UNCHANGED <<diskVars, file, attempt, fallback, left>>

\* recover_legacy_snapshot needs the server; the package is saved with its
\* snapshot before any file is touched.
Migrate ==
  /\ pc = "load" /\ ~cancelled
  /\ pkg = "legacy" /\ tag = "old"
  /\ IF ValidSnapshot(release)
       THEN /\ pkg' = "migrated"
            /\ index' = 1
            /\ Goto("next")
            /\ UNCHANGED <<attempt, fallback, left>>
       ELSE Stop("failed") /\ UNCHANGED pkg
  /\ UNCHANGED <<tag, patch, rotted, marker, file>>

MigrationFails ==
  /\ pc = "load" /\ ~cancelled
  /\ pkg = "legacy" /\ tag = "old" /\ "outage" \in Mishaps
  /\ Stop("failed")
  /\ UNCHANGED <<diskVars, file>>
-----------------------------------------------------------------------------
(***************************************************************************)
(* One asset after the other.                                              *)
(***************************************************************************)
StopIfCancelled ==
  /\ pc \in {"next", "over"} /\ cancelled
  /\ Stop("cancelled")
  /\ UNCHANGED <<diskVars, file>>

AtAsset == pc = "next" /\ ~cancelled /\ index <= Len(Tasks(release))

\* Filtered, synthesized, or the new version is there.
NothingToDo == asset.file \in release.skip \/ file[asset.file] = "new"

SkipAsset ==
  /\ AtAsset /\ NothingToDo
  /\ Advance
  /\ UNCHANGED <<diskVars, file>>

BeginAsset ==
  /\ AtAsset /\ ~NothingToDo
  /\ Goto(IF asset.method = "over" THEN "over" ELSE "try")
  /\ UNCHANGED <<diskVars, file, applyVars>>

\* What apply_copy_over and apply_hdiff_patch need to succeed.
Feasible ==
  /\ patch[asset.patch] = "good"
  /\ asset.method = "diff" => file[asset.from] = "old"

\* Their output is verified before it is renamed over the target.  (After a
\* failure that gave the asset up the loop goes on, and so does the asset.)
TrySucceeds ==
  /\ pc = "try" /\ Feasible
  /\ file' = [file EXCEPT ![asset.file] = "new"]
  /\ IF fallback THEN Goto("over") /\ UNCHANGED applyVars ELSE Advance
  /\ UNCHANGED diskVars

\* A chunk with a wrong hash and I/O errors are retried; an original that is
\* not the expected one, a missing patch and a failing HDiff, which a copied
\* chunk may be as well, are not.
Retryable ==
  IF asset.method = "diff" /\ (file[asset.from] # "old" \/ patch[asset.patch] = "none")
  THEN {FALSE} ELSE {TRUE, FALSE}

TryFails ==
  /\ pc = "try"
  /\ Feasible => "outage" \in Mishaps
  /\ \E retryable \in Retryable :
       LET gaveUp == attempt = LastAttempt \/ ~retryable IN
       IF ~gaveUp /\ cancelled THEN Stop("cancelled")
       ELSE /\ fallback' = (fallback \/ gaveUp)
            /\ attempt' = IF attempt = LastAttempt THEN attempt ELSE attempt + 1
            /\ Goto(IF attempt = LastAttempt THEN "over" ELSE "try")
            /\ UNCHANGED <<index, left>>
  /\ UNCHANGED <<diskVars, file>>

\* apply_download_over_with_retry: what it downloads and assembles does not
\* depend on the package; the renamed file is verified.
OverSucceeds ==
  /\ pc = "over" /\ ~cancelled
  /\ Downloadable(release, asset)
  /\ file' = [file EXCEPT ![asset.file] = "new"]
  /\ Advance
  /\ UNCHANGED diskVars

OverFails ==
  /\ pc = "over" /\ ~cancelled
  /\ ~Downloadable(release, asset) \/ "outage" \in Mishaps
  /\ Stop("failed")
  /\ UNCHANGED <<diskVars, file>>
-----------------------------------------------------------------------------
(***************************************************************************)
(* All assets are applied.                                                 *)
(***************************************************************************)
\* A legacy package deletes nothing.
BeginDelete ==
  /\ pc = "next" /\ index > Len(Tasks(release))
  /\ ~cancelled
  /\ left' = IF pkg = "migrated" THEN {} ELSE Deleted(release)
  /\ Goto("delete")
  /\ UNCHANGED <<diskVars, file, index, attempt, fallback>>

\* A deletion that fails is only logged.
Delete(f) ==
  /\ pc = "delete" /\ f \in left
  /\ left' = left \ {f}
  /\ \/ file' = [file EXCEPT ![f] = "missing"]
     \/ "outage" \in Mishaps /\ UNCHANGED file
  /\ UNCHANGED <<packageVars, index, attempt, fallback>>

EndDelete ==
  /\ pc = "delete" /\ left = {}
  /\ IF cancelled THEN Stop("cancelled") ELSE Goto("tag") /\ UNCHANGED applyVars
  /\ UNCHANGED <<diskVars, file>>

WriteTag ==
  /\ pc = "tag"
  /\ tag' = "new"
  /\ Goto("unstate")
  /\ UNCHANGED <<patch, rotted, pkg, marker, file, applyVars>>

RemoveState ==
  /\ pc = "unstate"
  /\ pkg' = "none"
  /\ Goto("unmark")
  /\ UNCHANGED <<tag, patch, rotted, marker, file, applyVars>>

RemoveMarker ==
  /\ pc = "unmark"
  /\ marker' = FALSE
  /\ Stop("ok")
  /\ UNCHANGED <<tag, patch, rotted, pkg, file>>

ApplyStep ==
  \/ Refuse \/ Load \/ Migrate \/ MigrationFails
  \/ StopIfCancelled \/ SkipAsset \/ BeginAsset
  \/ TrySucceeds \/ TryFails \/ OverSucceeds \/ OverFails
  \/ BeginDelete \/ (\E f \in Files : Delete(f)) \/ EndDelete
  \/ WriteTag \/ RemoveState \/ RemoveMarker

\* What another version of the game leaves of the old one.
Overwritten == file' = [f \in Files |-> IF file[f] = "old" THEN "alien" ELSE file[f]]

PackageStep ==
  \/ Elsewhere /\ Overwritten /\ UNCHANGED applyVars
  \/ Crash /\ ResetApply /\ UNCHANGED file
  \/ /\ StartPreinstall \/ PreinstallStep \/ (\E w \in Workers : Scale(w)) \/ Cancel
        \/ (\E p \in Patches : Rot(p))
     /\ UNCHANGED <<file, applyVars>>

Next == PackageStep \/ StartApply \/ ApplyStep

Spec == Init /\ [][Next]_vars
-----------------------------------------------------------------------------
(***************************************************************************)
(* The tag of the release is written only over a game that is the release: *)
(* each file of its main manifests that is not filtered is the new one,    *)
(* except for those the plan drops for a negative size, and those it       *)
(* deletes after it has installed them.                                    *)
(***************************************************************************)
Excepted(r) == r.skip \cup r.negative \cup Deleted(r)

TagIsHonest ==
  tag = "new" => \A f \in MainFiles(release) \ Excepted(release) : file[f] = "new"

(***************************************************************************)
(* An application that was interrupted can be repeated: no step takes back *)
(* a file that is new, except the deletions at the end, and none touches   *)
(* a game of a version the package is not for.                             *)
(***************************************************************************)
ProgressIsKept ==
  [][/\ \A f \in Files : (file[f] = "new" /\ file'[f] # "new") => f \in Deleted(release)
     /\ tag = "other" => file' = file]_vars
=============================================================================
