----------------------------- MODULE UpdatePlan -----------------------------
(***************************************************************************)
(* What build_update_installers (game_installer/installer.rs) makes of two *)
(* builds and of the sizes of the files on disk, and what check_update     *)
(* (update.rs) says of it beforehand.                                      *)
(*                                                                         *)
(* A build maps its matching fields ("game", a voice language) to their    *)
(* manifests, a manifest maps names to contents, and a content is a        *)
(* sequence of chunks.  Chunks are equally long: the size of a file is its *)
(* length, its digest the content itself, an offset a position, 0 for      *)
(* none.  Builds hold the fields that pass the language filter only.       *)
(***************************************************************************)
EXTENDS Naturals, Sequences, FiniteSetsExt

CONSTANTS from, to, disk

AssetsOf(build) == UNION {DOMAIN build[m] : m \in DOMAIN build}
FieldOf(n) == CHOOSE m \in DOMAIN to : n \in DOMAIN to[m]
Content(n) == to[FieldOf(n)][n]

Both == DOMAIN from \cap DOMAIN to

\* Every old file counts as intact.
Intact_Unchecked(m) == IF m \in DOMAIN from THEN DOMAIN from[m] ELSE {}

\* Old files that are there with their size; only metadata is read.
Intact(m) ==
  IF m \in DOMAIN from THEN {n \in DOMAIN from[m] : Len(disk[n]) = Len(from[m][n])} ELSE {}

\* The files of a field to be installed, and the fields that have some.
DiffIn(m) == {n \in DOMAIN to[m] : n \in Intact(m) => from[m][n] # to[m][n]}
DiffFields == {m \in DOMAIN to : DiffIn(m) # {}}
Diff == UNION {DiffIn(m) : m \in DOMAIN to}

\* Where the old version of file n has chunk c.
Places(m, n, c) == IF n \in Intact(m) THEN {j \in DOMAIN from[m][n] : from[m][n][j] = c} ELSE {}

\* The last insertion of (name, digest) stays.
Offset(n, c) ==
  LET places == Places(FieldOf(n), n, c)
  IN  IF places = {} THEN 0 ELSE Max(places)

OldOffsets == [n \in Diff |-> [i \in DOMAIN Content(n) |-> Offset(n, Content(n)[i])]]

\* What each field has lost, whatever another field may have gained.
Deleted == UNION {DOMAIN from[m] \ DOMAIN to[m] : m \in Both}

(***************************************************************************)
(* The estimate: digests decide which files are downloaded, and a chunk    *)
(* that any old file of the field holds costs nothing.                     *)
(***************************************************************************)
ChunksOf(content) == {content[i] : i \in DOMAIN content}

HeldIn(m) ==
  IF m \in Both THEN UNION {ChunksOf(from[m][n]) : n \in DOMAIN from[m]} ELSE {}

ChangedIn(m) ==
  {n \in DOMAIN to[m] : (m \in Both /\ n \in DOMAIN from[m]) => from[m][n] # to[m][n]}

\* The old chunks are not taken off.
Estimated_Whole == UNION {UNION {ChunksOf(to[m][n]) : n \in ChangedIn(m)} : m \in DOMAIN to}

Estimated ==
  UNION {UNION {ChunksOf(to[m][n]) \ HeldIn(m) : n \in ChangedIn(m)} : m \in DOMAIN to}

\* An update is announced when the tags differ.
Announced == IF from = to THEN {} ELSE Estimated
=============================================================================
