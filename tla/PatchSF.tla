------------------------------ MODULE PatchSF ------------------------------
(***************************************************************************)
(* The decoder of HDIFF20 patches (hdiffpatch/patch_sf.rs): step by step,  *)
(* the covers of a step and its run lengths are read, the new bytes before *)
(* a cover are copied through, and the bytes of a cover are taken from the *)
(* old file and go through Rle0Decoder, at most IoLen at a time, unless a  *)
(* run of zeros covers them all.  The new bytes are a stream of their own  *)
(* here, while in the patch they lie between the steps.                    *)
(***************************************************************************)
EXTENDS PatchFormat

CONSTANTS
    IoLen,     \* IO_BUF_SIZE
    MaxStep    \* MAX_STEP_SIZE

VARIABLES
    patch, old, out, result,   \* see HDiff
    step,      \* the steps read
    todo,      \* the covers of the step not decoded yet
    count,     \* cover_count, counted down
    oldEnd, newEnd,            \* last_old_end, last_new_end
    rle,       \* Rle0Decoder: its bytes, what was read of them, and its state
    place,     \* the next byte of the old file for the cover in work
    rest,      \* the bytes of that cover still to come
    io,        \* the part of io_buf that is done
    take,      \* the length of that part when it is full, 0 outside a cover
    seen       \* how many new bytes were read
sf == <<step, todo, count, oldEnd, newEnd, rle, place, rest, io, take, seen>>

Decoder(bytes) == [buf |-> bytes, pos |-> 0, len0 |-> 0, lenv |-> 0, need0 |-> TRUE]

SFInit(n) ==
    /\ step = 0 /\ todo = <<>> /\ count = n
    /\ oldEnd = 0 /\ newEnd = 0 /\ rle = Decoder(<<>>)
    /\ place = 0 /\ rest = 0 /\ io = <<>> /\ take = 0 /\ seen = 0

Running == result = "running"
Fails   == result' = "error" /\ UNCHANGED <<sf, out>>
Between == Running /\ rest = 0
AtStep  == Between /\ count > 0 /\ todo = <<>>
AtCover == Between /\ count > 0 /\ todo # <<>>

ReadStep ==
    /\ AtStep
    /\ IF step < Len(patch.steps) /\ patch.steps[step + 1].bytes <= MaxStep
       THEN /\ step' = step + 1
            /\ todo' = patch.steps[step + 1].covers
            /\ rle' = Decoder(patch.steps[step + 1].rle)
            /\ UNCHANGED <<out, result, count, oldEnd, newEnd, place, rest, io, take, seen>>
       ELSE Fails

\* copy_n: n new bytes go out as they are.
Copied(n) == SubSeq(patch.data, seen + 1, seen + n)

\* decode_cover and the gap before the cover.
ReadCover ==
    LET c == Head(todo)
        start == oldEnd + c.inc
    IN
    /\ AtCover
    /\ IF /\ start >= 0 /\ seen + c.gap <= Len(patch.data)
          /\ c.len > 0 => start + c.len <= Len(old)
       THEN /\ out' = out \o Copied(c.gap) /\ seen' = seen + c.gap
            /\ oldEnd' = start + c.len /\ newEnd' = newEnd + c.gap + c.len
            /\ count' = count - 1 /\ todo' = Tail(todo)
            /\ place' = start /\ rest' = c.len
            /\ UNCHANGED <<result, step, rle, io, take>>
       ELSE Fails

----------------------------------------------------------------------------
(* Rle0Decoder.                                                            *)

Exhausted  == rle.pos >= Len(rle.buf)
NextNumber == rle.buf[rle.pos + 1]
Literal    == take > 0 /\ rle.len0 = 0 /\ rle.lenv > 0
AtNumber   == rle.len0 = 0 /\ rle.lenv = 0
Wanted     == take - Len(io)
OldBytes(n) == SubSeq(old, place + 1, place + n)

AtZeros == AtNumber /\ rle.need0

\* try_skip_zeros and add: the next number tells how many zeros follow.
ReadZeros ==
    /\ Running /\ rest > 0 /\ (take > 0 => Wanted > 0) /\ AtZeros
    /\ IF Exhausted THEN Fails
       ELSE /\ rle' = [rle EXCEPT !.pos = @ + 1, !.len0 = NextNumber, !.need0 = FALSE]
            /\ UNCHANGED <<out, result, step, todo, count, oldEnd, newEnd, place, rest,
                           io, take, seen>>

\* try_skip_zeros: all of the cover is as in the old file.
SkipCover ==
    /\ Running /\ rest > 0 /\ take = 0 /\ ~AtZeros /\ rle.len0 >= rest
    /\ out' = out \o OldBytes(rest) /\ rle' = [rle EXCEPT !.len0 = @ - rest]
    /\ rest' = 0
    /\ UNCHANGED <<result, step, todo, count, oldEnd, newEnd, place, io, take, seen>>

\* It is not: the cover goes through io_buf.
FillBuffer ==
    /\ Running /\ rest > 0 /\ take = 0 /\ ~AtZeros /\ rle.len0 < rest
    /\ take' = Min({IoLen, rest})
    /\ UNCHANGED <<out, result, step, todo, count, oldEnd, newEnd, rle, place, rest, io,
                   seen>>

\* add, add_from_source: zeros leave the byte, literals are added to it.
AddZeros ==
    LET n == Min({rle.len0, Wanted}) IN
    /\ Running /\ take > 0 /\ Wanted > 0 /\ rle.len0 > 0
    /\ io' = io \o OldBytes(n) /\ place' = place + n
    /\ rle' = [rle EXCEPT !.len0 = @ - n]
    /\ UNCHANGED <<out, result, step, todo, count, oldEnd, newEnd, rest, take, seen>>

AddLiterals ==
    LET n == Min({rle.lenv, Wanted}) IN
    /\ Running /\ Literal /\ Wanted > 0
    /\ IF rle.lenv > Len(rle.buf) - rle.pos THEN Fails
       ELSE /\ io' = io \o [i \in 1 .. n |-> Plus(old[place + i], rle.buf[rle.pos + i])]
            /\ place' = place + n
            /\ rle' = [rle EXCEPT !.pos = @ + n, !.lenv = @ - n]
            /\ UNCHANGED <<out, result, step, todo, count, oldEnd, newEnd, rest, take, seen>>

ReadLiterals ==
    /\ Running /\ take > 0 /\ Wanted > 0 /\ AtNumber /\ ~AtZeros
    /\ IF Exhausted THEN Fails
       ELSE /\ rle' = [rle EXCEPT !.pos = @ + 1, !.lenv = NextNumber, !.need0 = TRUE]
            /\ UNCHANGED <<out, result, step, todo, count, oldEnd, newEnd, place, rest,
                           io, take, seen>>

\* The buffer is written; the next part of the cover goes on in the loop
\* without another look at the zeros.
EmptyBuffer ==
    /\ Running /\ take > 0 /\ Wanted = 0
    /\ out' = out \o io /\ io' = <<>>
    /\ rest' = rest - take /\ take' = Min({IoLen, rest - take})
    /\ UNCHANGED <<result, step, todo, count, oldEnd, newEnd, rle, place, seen>>

----------------------------------------------------------------------------

Tail20 ==
    LET n == patch.size - newEnd IN
    /\ Between /\ count = 0 /\ newEnd < patch.size
    /\ IF seen + n <= Len(patch.data)
       THEN /\ out' = out \o Copied(n) /\ seen' = seen + n
            /\ newEnd' = patch.size
            /\ UNCHANGED <<result, step, todo, count, oldEnd, rle, place, rest, io, take>>
       ELSE Fails

Finish20 ==
    /\ Between /\ count = 0 /\ newEnd >= patch.size
    /\ result' = "decoded"
    /\ UNCHANGED <<sf, out>>

SFNext ==
    \/ ReadStep \/ ReadCover \/ ReadZeros \/ SkipCover \/ FillBuffer
    \/ AddZeros \/ AddLiterals \/ ReadLiterals \/ EmptyBuffer
    \/ Tail20 \/ Finish20
=============================================================================
