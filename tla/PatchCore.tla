----------------------------- MODULE PatchCore -----------------------------
(***************************************************************************)
(* The decoder of HDIFF13 patches (hdiffpatch/patch_core.rs): covers, new  *)
(* bytes and runs are read as streams.  Bytes go to a cache at a cursor,   *)
(* the runs, which may outlast a cover, are added to them in the cache, at *)
(* most a buffer at a time, and the cache is written out when it is large  *)
(* or the last cover is done.  The cache comes from a pool and returns to  *)
(* it with the bytes it holds.                                             *)
(***************************************************************************)
EXTENDS PatchFormat

CONSTANTS
    PoolLen,     \* MAX_ARRAY_POOL_LEN, the length of the shared buffer
    BufferLimit  \* MAX_MEM_BUFFER_LIMIT, the cache written out before the end

VARIABLES
    patch, old, out, result,   \* see HDiff
    mapped,    \* the old file is a slice; otherwise it is read with seeks
    pc,        \* the part of write_cover_stream_inner that comes next
    after,     \* where tbytes_determine_rle_type returns to
    next,      \* the cover to decode
    cover,     \* the cover in work: its absolute places
    newBack,   \* new_pos_back
    cache, pos,     \* the cache and its cursor
    left,      \* copy_length: the bytes the runs still have to reach
    run,       \* RleRefClip: the run in progress
    read       \* how far each stream was read
core == <<pc, after, next, cover, newBack, cache, pos, left, run, read>>

CoreInit ==
    /\ pc = "cover" /\ after = "cover" /\ next = 1 /\ newBack = 0
    /\ cover = [old |-> 0, new |-> 0, len |-> 0]
    /\ cache = <<>> /\ pos = 0 /\ left = 0
    /\ run = [copy |-> 0, set |-> 0, val |-> 0]
    /\ read = [runs |-> 0, code |-> 0, data |-> 0]

Running(label) == result = "running" /\ pc = label
Fails == result' = "error" /\ UNCHANGED <<core, out>>

LastCover == next > Len(patch.covers)
Decoded ==
    LET c == patch.covers[next]
    IN  [old |-> cover.old + cover.len + c.inc, new |-> newBack + c.gap, len |-> c.len]

\* CoverHeaderIterator::next and the checks on what it gives.
NextCover ==
    /\ Running("cover") /\ ~LastCover
    /\ Decoded.old >= 0 /\ Decoded.new + Decoded.len <= patch.size
    /\ cover' = Decoded /\ next' = next + 1
    /\ pc' = IF newBack < Decoded.new THEN "gap" ELSE "old"
    /\ UNCHANGED <<out, result, after, newBack, cache, pos, left, run, read>>

BadCover ==
    /\ Running("cover") /\ ~LastCover
    /\ Decoded.old < 0 \/ Decoded.new + Decoded.len > patch.size
    /\ Fails

\* Bytes written at the cursor, which then goes back to their start.
Put(bytes) ==
    cache' = SubSeq(cache, 1, pos) \o bytes
                 \o SubSeq(cache, pos + Len(bytes) + 1, Len(cache))

\* tbytes_copy_stream_from_old_clip: n new bytes, for a gap or the tail.
CopyNew(n, then) ==
    IF read.data + n <= Len(patch.data)
    THEN /\ Put(SubSeq(patch.data, read.data + 1, read.data + n))
         /\ read' = [read EXCEPT !.data = @ + n]
         /\ left' = n /\ pc' = "runs" /\ after' = then
         /\ UNCHANGED <<out, result, next, cover, newBack, pos, run>>
    ELSE Fails

Gap  == Running("gap") /\ CopyNew(cover.new - newBack, "old")
Tail13 ==
    /\ Running("cover") /\ LastCover /\ newBack < patch.size
    /\ CopyNew(patch.size - newBack, "tail")

\* tbytes_copy_old_clip_patch: an empty cover past the end of the old file
\* is refused when the file is mapped only.
InOld == cover.old + cover.len <= Len(old) \/ (~mapped /\ cover.len = 0)

CopyOld ==
    /\ Running("old") /\ InOld
    /\ Put(SubSeq(old, cover.old + 1, cover.old + cover.len))
    /\ left' = cover.len /\ pc' = "runs" /\ after' = "covered"
    /\ UNCHANGED <<out, result, next, cover, newBack, pos, run, read>>

PastOld == Running("old") /\ ~InOld /\ Fails

----------------------------------------------------------------------------
(* tbytes_determine_rle_type and what it calls.                            *)

Reach(n, add(_)) ==
    /\ cache' = [i \in 1 .. Len(cache) |->
                    IF pos < i /\ i <= pos + n THEN Plus(cache[i], add(i - pos)) ELSE cache[i]]
    /\ pos' = pos + n /\ left' = left - n

\* tbytes_set_rle_single
SetRun ==
    LET n == Min({run.set, left, PoolLen}) IN
    /\ Running("runs") /\ left > 0 /\ run.set > 0
    /\ Reach(n, LAMBDA i : run.val)
    /\ run' = [run EXCEPT !.set = @ - n]
    /\ UNCHANGED <<out, result, pc, after, next, cover, newBack, read>>

\* A mutant of CopyRun: the rest of the run is dropped with the cover.
CopyRun_Dropped ==
    LET n == Min({run.copy, left, PoolLen \div 2}) IN
    /\ Running("runs") /\ left > 0 /\ run.set = 0 /\ run.copy > 0
    /\ IF read.code + n <= Len(patch.code)
       THEN /\ Reach(n, LAMBDA i : patch.code[read.code + i])
            /\ run' = [run EXCEPT !.copy = IF n = left THEN 0 ELSE @ - n]
            /\ read' = [read EXCEPT !.code = @ + n]
            /\ UNCHANGED <<out, result, pc, after, next, cover, newBack>>
       ELSE Fails

\* tbytes_set_rle, tbytes_set_rle_vector_software
CopyRun ==
    LET n == Min({run.copy, left, PoolLen \div 2}) IN
    /\ Running("runs") /\ left > 0 /\ run.set = 0 /\ run.copy > 0
    /\ IF read.code + n <= Len(patch.code)
       THEN /\ Reach(n, LAMBDA i : patch.code[read.code + i])
            /\ run' = [run EXCEPT !.copy = @ - n]
            /\ read' = [read EXCEPT !.code = @ + n]
            /\ UNCHANGED <<out, result, pc, after, next, cover, newBack>>
       ELSE Fails

\* A control record of the run list, with its byte for type 2.
NextRun ==
    LET r == patch.runs[read.runs + 1] IN
    /\ Running("runs") /\ left > 0 /\ run.set = 0 /\ run.copy = 0
    /\ IF read.runs < Len(patch.runs) /\ (r.type = 2 => read.code < Len(patch.code))
       THEN /\ run' = CASE r.type = 3 -> [run EXCEPT !.copy = r.len]
                        [] r.type = 2 -> [run EXCEPT !.set = r.len,
                                                     !.val = patch.code[read.code + 1]]
                        [] OTHER -> [run EXCEPT !.set = r.len,
                                                !.val = (Base - r.type) % Base]
            /\ read' = [read EXCEPT !.runs = @ + 1,
                                    !.code = IF r.type = 2 THEN @ + 1 ELSE @]
            /\ UNCHANGED <<out, result, pc, after, next, cover, newBack, cache, pos, left>>
       ELSE Fails

RunsReach ==
    /\ Running("runs") /\ left = 0
    /\ pc' = after
    /\ UNCHANGED <<out, result, after, next, cover, newBack, cache, pos, left, run, read>>

----------------------------------------------------------------------------

\* write_cache_to_output, and a mutant that does not clear the cache.
WriteCache_Kept == out' = out \o cache /\ cache' = cache /\ pos' = Len(cache)
WriteCache == out' = out \o cache /\ cache' = <<>> /\ pos' = 0

Covered ==
    /\ Running("covered")
    /\ newBack' = cover.new + cover.len /\ pc' = "cover"
    /\ IF Len(cache) > BufferLimit \/ LastCover THEN WriteCache
       ELSE UNCHANGED <<out, cache, pos>>
    /\ UNCHANGED <<result, after, next, cover, left, run, read>>

TailDone ==
    /\ Running("tail")
    /\ newBack' = patch.size /\ pc' = "cover"
    /\ WriteCache
    /\ UNCHANGED <<result, after, next, cover, left, run, read>>

Finish13 ==
    /\ Running("cover") /\ LastCover /\ newBack = patch.size
    /\ result' = "decoded"
    /\ UNCHANGED <<core, out>>

CoreNext ==
    \/ NextCover \/ BadCover \/ Gap \/ Tail13 \/ CopyOld \/ PastOld
    \/ SetRun \/ CopyRun \/ NextRun \/ RunsReach
    \/ Covered \/ TailDone \/ Finish13

=============================================================================
