-------------------------- MODULE ChunkRegistration --------------------------
(***************************************************************************)
(* build_download_state and register_chunks_for_file                       *)
(* (game_installer/installer.rs), as the loops the code runs: one file of  *)
(* the manifest after the other, one chunk after the other, filling        *)
(* vectors that index one another, then one item after the other.  The     *)
(* outcome is compared with what Manifest, and with it InstallPipeline,    *)
(* says of the same manifest.                                              *)
(*                                                                         *)
(* Vectors are sequences and start at 1.                                   *)
(***************************************************************************)
EXTENDS Naturals, SequencesExt

CONSTANTS
  Names,          \* chunk names
  MaxFiles,       \* bound: files of a manifest
  MaxSlots,       \* bound: chunks of a file
  VerifyModes     \* the verify modes tried: "Full", "Deferred"

ASSUME BoundsAssumption == MaxFiles \in Nat /\ MaxSlots \in Nat

ASSUME ModesAssumption == VerifyModes \subseteq {"Full", "Deferred"}

VARIABLES
  all_files,      \* the manifest: a sequence of files, sequences of chunks
  completed,      \* completed_indices
  verify_mode,
  all_files_index, ci,   \* the file and the chunk the loops are at
  pending_before,
  download_items,        \* [file, name, use_eager]
  download_items_index,  \* name -> item, as a function
  chunk_entries,         \* per item: the [file, pending] waiting for it
  chunk_refcounts,       \* per item
  pending_counts,        \* per registered file that downloads
  tainted,               \* eager_tainted_files
  sent,                  \* files sent to the assembly at once
  flat, offsets,         \* flat_chunk_entries, chunk_entry_offsets
  phase                  \* "files", "chunks", "flatten" or "done"

inputs == <<all_files, completed, verify_mode>>
items  == <<download_items, download_items_index, chunk_entries, chunk_refcounts, tainted>>
regVars == <<inputs, all_files_index, ci, pending_before, items, pending_counts, sent,
             flat, offsets, phase>>

\* A chunk of a file: its name, and whether chunk_old_offset >= 0.
ChunkRefs == [name : Names, old : BOOLEAN]
FileLists == UNION {[1 .. k -> ChunkRefs] : k \in 0 .. MaxSlots}

force_eager == verify_mode # "Full"

RegInit ==
  /\ \E n \in 0 .. MaxFiles : all_files \in [1 .. n -> FileLists]
  /\ completed \in SUBSET DOMAIN all_files
  /\ verify_mode \in VerifyModes
  /\ all_files_index = 1 /\ ci = 1 /\ pending_before = 0
  /\ download_items = <<>> /\ download_items_index = <<>>
  /\ chunk_entries = <<>> /\ chunk_refcounts = <<>> /\ pending_counts = <<>>
  /\ tainted = {} /\ sent = <<>>
  /\ flat = <<>> /\ offsets = <<0>>
  /\ phase = "files"
-----------------------------------------------------------------------------
(***************************************************************************)
(* register_chunks_for_file                                                *)
(***************************************************************************)
SkipCompleted ==
  /\ phase = "files" /\ all_files_index \in completed
  /\ all_files_index' = all_files_index + 1
  /\ UNCHANGED <<inputs, ci, pending_before, items, pending_counts, sent, flat, offsets,
                 phase>>

BeginFile ==
  /\ phase = "files" /\ all_files_index \in DOMAIN all_files \ completed
  /\ pending_before' = Len(pending_counts)
  /\ pending_counts' = Append(pending_counts, 0)
  /\ ci' = 1 /\ phase' = "chunks"
  /\ UNCHANGED <<inputs, all_files_index, items, sent, flat, offsets>>

Pure(f) == \A i \in DOMAIN all_files[f] : ~all_files[f][i].old

Chunk == all_files[all_files_index][ci]

AtChunk == phase = "chunks" /\ ci \in DOMAIN all_files[all_files_index]

SkipOld ==
  /\ AtChunk /\ Chunk.old
  /\ ci' = ci + 1
  /\ UNCHANGED <<inputs, all_files_index, pending_before, items, pending_counts, sent,
                 flat, offsets, phase>>

\* Only in Full mode is a chunk looked up by its name.
Shared(name) == ~force_eager /\ name \in DOMAIN download_items_index

ItemOf(name) ==
  IF Shared(name) THEN download_items_index[name] ELSE Len(download_items) + 1

\* A mutant of Tainting: a shared chunk taints only the file that comes second.
Tainting_SecondOnly(name) == {all_files_index}

\* A shared chunk taints both files.
Tainting(name) ==
  {all_files_index, download_items[download_items_index[name]].file}

FindItem(name) ==
  IF Shared(name)
  THEN /\ tainted' = tainted \cup Tainting(name)
       /\ UNCHANGED <<download_items, download_items_index>>
  ELSE /\ download_items' =
            Append(download_items,
                   [file |-> all_files_index, name |-> name,
                    use_eager |-> force_eager \/ Pure(all_files_index)])
       /\ download_items_index' =
            IF force_eager THEN download_items_index
            ELSE [x \in DOMAIN download_items_index \cup {name} |->
                    IF x = name THEN ItemOf(name) ELSE download_items_index[x]]
       /\ UNCHANGED tainted

Resized(v, n, x) ==
  IF n > Len(v) THEN [k \in 1 .. n |-> IF k <= Len(v) THEN v[k] ELSE x] ELSE v

AddEntry(i) ==
  LET p == Len(pending_counts)
  IN  /\ pending_counts' = [pending_counts EXCEPT ![p] = @ + 1]
      /\ chunk_entries' = [Resized(chunk_entries, i, <<>>) EXCEPT
                             ![i] = Append(@, [file |-> all_files_index, pending |-> p])]
      /\ chunk_refcounts' = [Resized(chunk_refcounts, i, 0) EXCEPT ![i] = @ + 1]

RegisterChunk ==
  /\ AtChunk /\ ~Chunk.old
  /\ FindItem(Chunk.name) /\ AddEntry(ItemOf(Chunk.name))
  /\ ci' = ci + 1
  /\ UNCHANGED <<inputs, all_files_index, pending_before, sent, flat, offsets, phase>>

\* A mutant of PopPending: the counter of a file that downloads nothing stays.
PopPending_Never(counts) == counts

PopPending(counts) == IF Last(counts) = 0 THEN Front(counts) ELSE counts

EndFile ==
  /\ phase = "chunks" /\ ci \notin DOMAIN all_files[all_files_index]
  /\ pending_counts' = PopPending(pending_counts)
  /\ sent' = IF Len(PopPending(pending_counts)) = pending_before
             THEN Append(sent, all_files_index) ELSE sent
  /\ all_files_index' = all_files_index + 1
  /\ ci' = 1 /\ phase' = "files"
  /\ UNCHANGED <<inputs, pending_before, items, flat, offsets>>
-----------------------------------------------------------------------------
(***************************************************************************)
(* The end of build_download_state                                         *)
(***************************************************************************)
\* "A file must go entirely through eager OR entirely through assembly."
Untaint ==
  /\ phase = "files" /\ all_files_index > Len(all_files)
  /\ download_items' =
       IF force_eager THEN download_items
       ELSE [i \in DOMAIN download_items |->
               [download_items[i] EXCEPT
                  !.use_eager = @ /\ download_items[i].file \notin tainted]]
  /\ phase' = "flatten"
  /\ UNCHANGED <<inputs, all_files_index, ci, pending_before, download_items_index,
                 chunk_entries, chunk_refcounts, tainted, pending_counts, sent, flat,
                 offsets>>

\* A mutant of FlattenItem: the offset is taken before the entries are appended.
FlattenItem_OffsetFirst ==
  /\ phase = "flatten" /\ Len(offsets) <= Len(chunk_entries)
  /\ flat' = flat \o chunk_entries[Len(offsets)]
  /\ offsets' = Append(offsets, Len(flat))
  /\ UNCHANGED <<inputs, all_files_index, ci, pending_before, items, pending_counts, sent,
                 phase>>

\* The loop is as far as there are offsets; where the next item's entries
\* start is known when those of this one are appended.
FlattenItem ==
  /\ phase = "flatten" /\ Len(offsets) <= Len(chunk_entries)
  /\ flat' = flat \o chunk_entries[Len(offsets)]
  /\ offsets' = Append(offsets, Len(flat'))
  /\ UNCHANGED <<inputs, all_files_index, ci, pending_before, items, pending_counts, sent,
                 phase>>

HandOver ==
  /\ phase = "flatten" /\ Len(offsets) > Len(chunk_entries)
  /\ phase' = "done"
  /\ UNCHANGED <<inputs, all_files_index, ci, pending_before, items, pending_counts, sent,
                 flat, offsets>>

\* Nothing changes the vectors any more.
Done == phase = "done" /\ UNCHANGED regVars

RegNext ==
  \/ SkipCompleted \/ BeginFile \/ SkipOld \/ RegisterChunk \/ EndFile
  \/ Untaint \/ FlattenItem \/ HandOver \/ Done

RegSpec == RegInit /\ [][RegNext]_regVars
-----------------------------------------------------------------------------
\* The same manifest as InstallPipeline sees it: slots are <<file, position>>.
AllSlots == (DOMAIN all_files) \X (1 .. MaxSlots)
SlotSet == {s \in AllSlots : s[2] \in DOMAIN all_files[s[1]]}

M == INSTANCE Manifest WITH
  Files <- DOMAIN all_files,
  Chunks <- Names,
  Slots <- SlotSet,
  FileOf <- [s \in SlotSet |-> s[1]],
  NameOf <- [s \in SlotSet |-> all_files[s[1]][s[2]].name],
  OldSlots <- {s \in SlotSet : all_files[s[1]][s[2]].old},
  Completed <- completed

\* The entries notify_assembly_ready finds for item i.
WaitersOf(i) == SubSeq(flat, offsets[i] + 1, offsets[i + 1])

ItemIndices == DOMAIN download_items

(***************************************************************************)
(* In Full mode the vectors are the manifest of InstallPipeline: one item  *)
(* per downloaded name, its reference count the number of its slots, and   *)
(* the files sent at once those that download nothing.                     *)
(***************************************************************************)
ItemsMatchManifest ==
  (phase = "done" /\ verify_mode = "Full") =>
    /\ {download_items[i].name : i \in ItemIndices} = M!Items
    /\ Len(download_items) = Cardinality(M!Items)
    /\ \A i \in ItemIndices :
         chunk_refcounts[i] = Cardinality(M!Uses(download_items[i].name))
    /\ ToSet(sent) = M!ReadyFiles

(***************************************************************************)
(* The countdown of a file ends with its last chunk: through the flat      *)
(* entries every file is counted down exactly as often as its own pending  *)
(* count says, and no two files share a counter.                           *)
(***************************************************************************)
CountdownsBalance ==
  phase = "done" =>
    LET waits == {x \in ItemIndices \X (1 .. Len(flat)) : x[2] \in 1 .. Len(WaitersOf(x[1]))}
        entry(x) == WaitersOf(x[1])[x[2]]
    IN  /\ \A p \in DOMAIN pending_counts :
             pending_counts[p] = Cardinality({x \in waits : entry(x).pending = p})
        /\ \A x, y \in waits :
             entry(x).pending = entry(y).pending <=> entry(x).file = entry(y).file

(***************************************************************************)
(* "A file must go entirely through eager OR entirely through assembly"    *)
(* (installer.rs): in Full mode the items that are eager are exactly those *)
(* of the files that share and reuse nothing, the second file of a shared  *)
(* chunk and the first one alike.                                          *)
(***************************************************************************)
EagerMatchesManifest ==
  (phase = "done" /\ verify_mode = "Full") =>
    \A i \in ItemIndices :
      download_items[i].use_eager <=> download_items[i].name \in M!EagerItems

=============================================================================
