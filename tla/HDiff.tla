------------------------------- MODULE HDiff -------------------------------
(***************************************************************************)
(* HDiff::apply (hdiffpatch/diff.rs): the header is checked, the target is *)
(* created with its final length, one of the two decoders writes it, and   *)
(* its length is compared with the one the header gives.  A patch is given *)
(* with the length of the old file in its header; the old file is mapped   *)
(* or, when mmap fails, read with seeks.                                   *)
(***************************************************************************)
EXTENDS PatchFormat

CONSTANTS
    Patches13, Patches20, Olds,    \* the inputs
    PoolLen, BufferLimit,          \* see PatchCore
    IoLen, MaxStep,                \* see PatchSF
    MaxCovers                      \* max_headers_by_memory of patch_core.rs

ASSUME BufferAssumption ==
    /\ PoolLen \in Nat \ {0, 1} /\ BufferLimit \in Nat /\ IoLen \in Nat \ {0}
    /\ MaxStep \in Nat /\ MaxCovers \in Nat
ASSUME InputsAssumption ==
    Patches13 \subseteq Patch13 /\ Patches20 \subseteq Patch20 /\ Olds \subseteq Seq(Bytes)

VARIABLES
    version,   \* 13 or 20
    patch,     \* what the diff file holds
    old,       \* the bytes of the old file
    mapped,    \* mmap worked
    out,       \* what was written to the target, in order
    target,    \* the target file: "absent", "created", "right length"
    result,    \* "new", "running", "decoded", then what apply returns
    pc, after, next, cover, newBack, cache, pos, left, run, read,
    step, todo, count, oldEnd, newEnd, rle, place, rest, io, take, seen

Core == INSTANCE PatchCore
SF   == INSTANCE PatchSF
inputs == <<version, patch, old, mapped>>
core13 == <<pc, after, next, cover, newBack, cache, pos, left, run, read>>
sf20   == <<step, todo, count, oldEnd, newEnd, rle, place, rest, io, take, seen>>
vars == <<inputs, out, target, result, core13, sf20>>

Init ==
    /\ \/ version = 13 /\ patch \in Patches13 /\ SF!SFInit(0)
       \/ version = 20 /\ patch \in Patches20 /\ SF!SFInit(patch.count)
    /\ old \in Olds /\ mapped \in BOOLEAN
    /\ out = <<>> /\ target = "absent" /\ result = "new"
    /\ Core!CoreInit

\* The decoder of HDIFF13 refuses a patch of too many covers before it reads one.
TooMany == version = 13 /\ Len(patch.covers) > MaxCovers

\* The old file is the one the patch was made for, as far as its length goes.
Start ==
    /\ result = "new"
    /\ IF Len(old) = patch.oldSize
       THEN /\ result' = IF TooMany THEN "error" ELSE "running"
            /\ target' = "created"
       ELSE result' = "refused" /\ UNCHANGED target
    /\ UNCHANGED <<inputs, out, core13, sf20>>

Decode13 ==
    /\ version = 13 /\ Core!CoreNext
    /\ UNCHANGED <<inputs, target, sf20>>

Decode20 ==
    /\ version = 20 /\ SF!SFNext
    /\ UNCHANGED <<inputs, target, core13>>

\* The target was given patch.size bytes at first: it is never shorter.
Conclude ==
    /\ result = "decoded"
    /\ IF Len(out) <= patch.size
       THEN result' = "true" /\ target' = "right length"
       ELSE result' = "error" /\ UNCHANGED target
    /\ UNCHANGED <<inputs, out, core13, sf20>>

Next == Start \/ Decode13 \/ Decode20 \/ Conclude

Spec == Init /\ [][Next]_vars

----------------------------------------------------------------------------
Describes ==
    /\ Len(old) = patch.oldSize
    /\ IF version = 20 THEN Describes20(patch, old)
       ELSE /\ Describes13(patch, old)
            /\ mapped => \A k \in 1 .. Len(patch.covers) :
                   OldPos(patch.covers, k) + patch.covers[k].len <= Len(old)

\* No step that is read is too long, and there are not too many covers.
WithinLimits ==
    IF version = 13 THEN ~TooMany
    ELSE \A k \in 1 .. patch.count : \A s \in 1 .. StepOf(patch, k) :
             patch.steps[s].bytes <= MaxStep

(***************************************************************************)
(* apply returns true exactly for the patches that describe a new file for *)
(* this old one, within the limits of the decoders, and then it wrote that *)
(* file: neither a run that outlasts a cover, nor a buffer that ends inside*)
(* a run, nor a cache written out between two covers changes a byte.       *)
(***************************************************************************)
AppliedIsRight ==
    result \in {"true", "error", "refused"} =>
        /\ (result = "true") = (Describes /\ WithinLimits)
        /\ result = "true" =>
               out = IF version = 20 THEN Patched20(patch, old) ELSE Patched13(patch, old)

(***************************************************************************)
(* A patch that went well gives back an empty cache to CACHE_BUFFER_POOL,  *)
(* whose take() keeps the contents: what is left there would come first in *)
(* the output of the next patch of the process.                            *)
(***************************************************************************)
PoolIsClean == result = "decoded" => cache = <<>>
=============================================================================
