--------------------------- MODULE PreinstallPlan ---------------------------
(***************************************************************************)
(* build_preinstall_plan_from_builds (preinstall.rs): from the manifests   *)
(* of a release to the list of patch assets, the patch chunks to download  *)
(* and the files to delete once everything is applied.                     *)
(*                                                                         *)
(* A release r is a record:                                                *)
(*   r.patches  the qualifying patch manifests, in order; each has a       *)
(*              field, its assets [file, info] in order and the files it   *)
(*              calls unused since the installed version;                  *)
(*   r.main     the files of the main manifest of each field that has one; *)
(*   r.negative files whose sizes or offsets are negative in the protobuf; *)
(*   r.skip     files of removed features, or synthesized by the client.   *)
(* info is what an asset has for the installed version: its kind is        *)
(* "none", "nochunk", "copy" (no original file) or "diff".                 *)
(***************************************************************************)
EXTENDS Naturals, FiniteSets, Sequences, SequencesExt

HasMain(r, field) == field \in DOMAIN r.main

\* The asset's name goes into seen_patch_targets.
Noted(r, m, a) == a.info.kind # "none" \/ HasMain(r, m.field)

\* The asset gets an entry of the plan.
Planned(r, m, a) ==
  /\ a.file \notin r.negative
  /\ a.info.kind \in {"copy", "diff"} \/ HasMain(r, m.field)

Over(file, field) == [file |-> file, field |-> field, method |-> "over"]

Task(m, a) ==
  CASE a.info.kind = "copy" ->
         [file |-> a.file, field |-> m.field, method |-> "copy", patch |-> a.info.patch]
    [] a.info.kind = "diff" ->
         [file |-> a.file, field |-> m.field, method |-> "diff",
          patch |-> a.info.patch, from |-> a.info.from]
    [] OTHER -> Over(a.file, m.field)

\* Where an asset is: its patch manifest, and its position there.
Places(r) == UNION {{i} \X DOMAIN r.patches[i].assets : i \in DOMAIN r.patches}

AssetAt(r, x) == r.patches[x[1]].assets[x[2]]

PlannedPlaces(r) == {x \in Places(r) : Planned(r, r.patches[x[1]], AssetAt(r, x))}

Earlier(x, y) == x[1] < y[1] \/ (x[1] = y[1] /\ x[2] < y[2])

\* A place comes after as many as are earlier.
InOrder(places) ==
  [n \in 1 .. Cardinality(places) |->
    CHOOSE x \in places : Cardinality({y \in places : Earlier(y, x)}) = n - 1]

PatchTasks(r) ==
  LET order == InOrder(PlannedPlaces(r))
  IN [n \in DOMAIN order |-> Task(r.patches[order[n][1]], AssetAt(r, order[n]))]

\* seen_patch_targets after the first n patch manifests.
Seen(r, n) ==
  UNION {{a.file : a \in {b \in Range(r.patches[i].assets) : Noted(r, r.patches[i], b)}}
         : i \in 1 .. n}

\* The test sees the targets of this manifest and the ones before it.
Deleted(r) == UNION {r.patches[i].unused \ Seen(r, i) : i \in DOMAIN r.patches}

\* What the new version consists of, for the fields with a main manifest.
MainFiles(r) == UNION {r.main[d] : d \in DOMAIN r.main}

\* A plan without the files only the main manifests have.
MainTasks_None(r) == <<>>

\* Files of the main manifests no patch manifest has.  (In the code the
\* fields come in the order of a hash map; no property depends on it.)
MainTasks(r) ==
  LET field(f) == CHOOSE d \in DOMAIN r.main : f \in r.main[d]
      new == SetToSeq(MainFiles(r) \ Seen(r, Len(r.patches)))
  IN [k \in DOMAIN new |-> Over(new[k], field(new[k]))]

Tasks(r) == PatchTasks(r) \o MainTasks(r)

UsesPatch(t) == t.method \in {"copy", "diff"}

\* unique_chunks
UniqueChunks(r) == {t.patch : t \in {u \in Range(Tasks(r)) : UsesPatch(u)}}

\* apply_download_over finds the file in the main manifest of its field.
Downloadable(r, t) == HasMain(r, t.field) /\ t.file \in r.main[t.field]

\* TargetSnapshot::validate, what it says beyond well-formedness: it needs
\* the game's main manifest, and every DownloadOver target in its own.
ValidSnapshot(r) ==
  /\ HasMain(r, "game")
  /\ \A t \in Range(Tasks(r)) : t.method = "over" => Downloadable(r, t)
=============================================================================
