---------------------------- MODULE PatchFormat ----------------------------
(***************************************************************************)
(* HDiff patches as the two decoders see them (hdiffpatch/header.rs,       *)
(* patch_core.rs, patch_sf.rs), and what a patch says the new file is,     *)
(* stated without any buffer, run in progress or cursor.                   *)
(*                                                                         *)
(* A cover [inc, gap, len] moves the place in the old file by inc from the *)
(* end of the cover before, leaves gap new bytes and copies len old ones.  *)
(* In HDIFF13 a list of runs gives what is added to every byte.  In        *)
(* HDIFF20 the covers come in steps, each with run lengths of its own:     *)
(* zeros, then literal bytes, in turn, for the bytes of its covers only.   *)
(* Varints are numbers; bytes is the length a step gives for the covers    *)
(* and run lengths that follow.                                            *)
(***************************************************************************)
EXTENDS Integers, Sequences, FiniteSets, FiniteSetsExt

CONSTANT Base      \* bytes are the numbers below Base
ASSUME BaseAssumption == Base \in Nat \ {0, 1}

\* What the decoders read: no length is negative, and no run is empty.
Bytes       == 0 .. Base - 1
CoverRecord == [inc : Int, gap : Nat, len : Nat]
RunRecord   == [type : 0 .. 3, len : Nat \ {0}]
Patch13 == [covers : Seq(CoverRecord), size : Nat, oldSize : Nat, runs : Seq(RunRecord),
            code : Seq(Bytes), data : Seq(Bytes)]
Patch20 == [steps : Seq([covers : Seq(CoverRecord), rle : Seq(Nat), bytes : Nat]),
            count : Nat, size : Nat, oldSize : Nat, data : Seq(Bytes)]

Plus(a, b) == (a + b) % Base

\* The running totals of a sequence of numbers: Sums(s)[k] is s[1] + ... + s[k].
Sums(s) == LET sum[k \in 0 .. Len(s)] == IF k = 0 THEN 0 ELSE sum[k - 1] + s[k] IN sum

\* Absolute places, from 0, of the k-th cover.
NewEnd(covers, k) == Sums([j \in 1 .. Len(covers) |-> covers[j].gap + covers[j].len])[k]
NewPos(covers, k) == NewEnd(covers, k) - covers[k].len
OldEnd(covers, k) == Sums([j \in 1 .. Len(covers) |-> covers[j].inc + covers[j].len])[k]
OldPos(covers, k) == OldEnd(covers, k) - covers[k].len

Covering(covers, i) ==
    {k \in 1 .. Len(covers) : NewPos(covers, k) <= i /\ i < NewEnd(covers, k)}
IsCovered(covers, i) == Covering(covers, i) # {}
NewBytesBelow(covers, i) == Cardinality({j \in 0 .. i - 1 : ~IsCovered(covers, j)})

OldByte(covers, old, i) ==
    LET k == CHOOSE k \in Covering(covers, i) : TRUE
    IN  old[OldPos(covers, k) + i - NewPos(covers, k) + 1]

Fits(covers, old, size) ==
    /\ NewEnd(covers, Len(covers)) <= size
    /\ \A k \in 1 .. Len(covers) :
           /\ OldPos(covers, k) >= 0
           /\ covers[k].len > 0 => OldPos(covers, k) + covers[k].len <= Len(old)

----------------------------------------------------------------------------
(* HDIFF13: runs [type, len] with their bytes in a list of their own.      *)

RunEnd(runs, r)   == Sums([q \in 1 .. Len(runs) |-> runs[q].len])[r]
CodeUsed(runs, r) ==
    Sums([q \in 1 .. Len(runs) |-> CASE runs[q].type = 3 -> runs[q].len
                                     [] runs[q].type = 2 -> 1
                                     [] OTHER -> 0])[r]
RunAt(runs, i) == CHOOSE r \in 1 .. Len(runs) : RunEnd(runs, r - 1) <= i /\ i < RunEnd(runs, r)

\* The place in the bytes of the runs that byte i needs, 0 for none.
CodePlace(runs, i) ==
    LET r == RunAt(runs, i) IN
    CASE runs[r].type = 3 -> CodeUsed(runs, r - 1) + i - RunEnd(runs, r - 1) + 1
      [] runs[r].type = 2 -> CodeUsed(runs, r - 1) + 1
      [] OTHER -> 0

Added(patch, i) ==
    LET r == RunAt(patch.runs, i) IN
    CASE patch.runs[r].type = 0 -> 0
      [] patch.runs[r].type = 1 -> Base - 1
      [] OTHER -> patch.code[CodePlace(patch.runs, i)]

Describes13(patch, old) ==
    LET covers == patch.covers  size == patch.size IN
    /\ Fits(covers, old, size)
    /\ NewBytesBelow(covers, size) <= Len(patch.data)
    /\ RunEnd(patch.runs, Len(patch.runs)) >= size
    /\ \A i \in 0 .. size - 1 : CodePlace(patch.runs, i) <= Len(patch.code)

Patched13(patch, old) ==
    [n \in 1 .. patch.size |->
        LET i == n - 1 IN
        Plus(Added(patch, i),
             IF IsCovered(patch.covers, i) THEN OldByte(patch.covers, old, i)
             ELSE patch.data[NewBytesBelow(patch.covers, i) + 1])]

----------------------------------------------------------------------------
(* HDIFF20: steps [covers, rle], of which the first count covers are used. *)

CoversUpTo(patch, s) ==
    Sums([q \in 1 .. Len(patch.steps) |-> Len(patch.steps[q].covers)])[s]
StepOf(patch, k) ==
    CHOOSE s \in 1 .. Len(patch.steps) : CoversUpTo(patch, s - 1) < k /\ k <= CoversUpTo(patch, s)
Used(patch) ==
    [k \in 1 .. Min({patch.count, CoversUpTo(patch, Len(patch.steps))}) |->
        LET s == StepOf(patch, k)
        IN  patch.steps[s].covers[k - CoversUpTo(patch, s - 1)]]

\* The bytes the run lengths of a step stand for.
Zeros(n) == [j \in 1 .. n |-> 0]
Expansion(rle) ==
    LET from[p \in 1 .. Len(rle) + 1] ==
            IF p > Len(rle) THEN <<>>
            ELSE Zeros(rle[p]) \o
                 (IF p + 1 > Len(rle) \/ p + 1 + rle[p + 1] > Len(rle) THEN <<>>
                  ELSE SubSeq(rle, p + 2, p + 1 + rle[p + 1]) \o from[p + 2 + rle[p + 1]])
    IN  from
Expanded(rle) == Expansion(rle)[1]

\* How many bytes the first k covers take, and how many of its step the k-th
\* cover finds used.
Taken(patch, k) == Sums([j \in 1 .. Len(Used(patch)) |-> Used(patch)[j].len])[k]
UsedBefore(patch, k) ==
    Taken(patch, k - 1) - Taken(patch, CoversUpTo(patch, StepOf(patch, k) - 1))

Describes20(patch, old) ==
    LET covers == Used(patch) IN
    /\ Len(covers) = patch.count
    /\ Fits(covers, old, patch.size)
    /\ NewBytesBelow(covers, patch.size) <= Len(patch.data)
    /\ \A k \in 1 .. patch.count : covers[k].len > 0 =>
           UsedBefore(patch, k) + covers[k].len
               <= Len(Expanded(patch.steps[StepOf(patch, k)].rle))

Patched20(patch, old) ==
    LET covers == Used(patch) IN
    [n \in 1 .. patch.size |->
        LET i == n - 1 IN
        IF ~IsCovered(covers, i) THEN patch.data[NewBytesBelow(covers, i) + 1]
        ELSE LET k == CHOOSE k \in Covering(covers, i) : TRUE
             IN  Plus(OldByte(covers, old, i),
                      Expanded(patch.steps[StepOf(patch, k)].rle)
                          [UsedBefore(patch, k) + i - NewPos(covers, k) + 1])]
=============================================================================
