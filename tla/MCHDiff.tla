------------------------------ MODULE MCHDiff ------------------------------
(***************************************************************************)
(* Patches of up to two covers and three runs for HDIFF13, one step of two *)
(* covers or two steps of one for HDIFF20, over bytes of two bits.  Buffers*)
(* of two or three bytes make every run and cover cross one.  Some steps   *)
(* are too long, and one patch has too many covers.                        *)
(***************************************************************************)
EXTENDS HDiff

UpTo(S, n) == UNION {[1 .. k -> S] : k \in 0 .. n}

Cover(i, g, l) == [inc |-> i, gap |-> g, len |-> l]
Covers == {Cover(0, 0, 2), Cover(1, 1, 2), Cover(-2, 0, 1), Cover(3, 1, 0)}
Run(t, l) == [type |-> t, len |-> l]
Runs == {Run(0, 2), Run(1, 1), Run(2, 3), Run(3, 1), Run(3, 3)}

ThePatches13 ==
    {[covers |-> c, size |-> s, oldSize |-> 3, runs |-> r, code |-> <<3, 1, 2>>,
      data |-> <<2, 1>>] :
        c \in UpTo(Covers, 2) \cup {<<Cover(0, 0, 1), Cover(0, 0, 1), Cover(0, 0, 0)>>},
        s \in {2, 4}, r \in UpTo(Runs, 3)}

Step(c, r) == [covers |-> c, rle |-> r, bytes |-> 3 * Len(c) + Len(r)]
Steps == {<<Step(c, r)>> : c \in UpTo(Covers, 2), r \in UpTo(0 .. 2, 4)}
             \cup {<<Step(<<c>>, q), Step(<<d>>, r)>> :
                      c \in Covers, d \in Covers, q \in {<<2>>, <<0, 2, 1, 3>>, <<1, 1, 3>>},
                      r \in UpTo(0 .. 1, 3)}

ThePatches20 ==
    {[steps |-> s, count |-> n, size |-> l, oldSize |-> 3, data |-> <<2, 1>>] :
        s \in Steps, n \in {1, 2}, l \in {2, 4}}

TheOlds == {<<1, 2, 3>>, <<1, 2, 3, 0>>}
=============================================================================
