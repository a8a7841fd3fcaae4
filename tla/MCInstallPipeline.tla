-------------------------- MODULE MCInstallPipeline --------------------------
(***************************************************************************)
(* Manifests for InstallPipeline.  A slot is written <<file, chunk, n>>,   *)
(* n telling the occurrences of a chunk in one file apart.                 *)
(***************************************************************************)
EXTENDS InstallPipeline, TLC

CONSTANTS w1, w2, f1, f2, f3, f4, c1, c2, c3

WorkerSymmetry == Permutations(Workers)

(***************************************************************************)
(* Mixed: f1 and f2 share c1, f1 also reuses c2 of its old version, f3 is  *)
(* eager, f4 is made of an old chunk alone and is valid already.           *)
(***************************************************************************)
MixedSlots == {<<f1, c1, 1>>, <<f1, c2, 1>>, <<f2, c1, 1>>, <<f3, c3, 1>>, <<f4, c2, 1>>}
MixedOld == {<<f1, c2, 1>>, <<f4, c2, 1>>}

(***************************************************************************)
(* Twice: f1 holds c1 twice, f2 is complete already, f3 is eager.          *)
(***************************************************************************)
TwiceSlots == {<<f1, c1, 1>>, <<f1, c1, 2>>, <<f2, c1, 1>>, <<f3, c3, 1>>}

SlotFile == [s \in Slots |-> s[1]]
SlotName == [s \in Slots |-> s[2]]
=============================================================================
