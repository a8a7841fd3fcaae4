------------------------------ MODULE Manifest ------------------------------
(***************************************************************************)
(* What build_download_state (game_installer/installer.rs) makes of a      *)
(* manifest, said without its loop.  A slot is one occurrence of a chunk   *)
(* in a file.                                                              *)
(***************************************************************************)
EXTENDS FiniteSets

CONSTANTS
  Files,
  Chunks,         \* chunk names
  Slots,          \* chunk occurrences
  FileOf,         \* FileOf[s]: the file slot s belongs to
  NameOf,         \* NameOf[s]: the chunk slot s holds
  OldSlots,       \* slots copied from the old version (chunk_old_offset >= 0)
  Completed       \* completed_indices: files the resume scan found installed

ASSUME ManifestAssumption ==
  /\ IsFiniteSet(Files) /\ IsFiniteSet(Slots)
  /\ FileOf \in [Slots -> Files]
  /\ NameOf \in [Slots -> Chunks]
  /\ OldSlots \subseteq Slots
  /\ Completed \subseteq Files

SlotsOf(f) == {s \in Slots : FileOf[s] = f}

\* The slots that are downloaded, and the items of the queue: one per name.
Downloads == {s \in Slots \ OldSlots : FileOf[s] \notin Completed}

Items == {NameOf[s] : s \in Downloads}

Uses(c) == {s \in Downloads : NameOf[s] = c}

\* The files nothing is downloaded for: assembled at once, from old chunks.
ReadyFiles == {f \in Files \ Completed : SlotsOf(f) \cap Downloads = {}}

\* A pure file that shares no chunk with another file, nor with itself.
EagerFiles ==
  {f \in Files \ Completed :
     /\ SlotsOf(f) # {}
     /\ SlotsOf(f) \cap OldSlots = {}
     /\ \A s \in SlotsOf(f) : Uses(NameOf[s]) = {s}}

EagerItems == {NameOf[s] : s \in {d \in Downloads : FileOf[d] \in EagerFiles}}
=============================================================================
