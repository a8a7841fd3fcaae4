-------------------------- MODULE MCResumeSession --------------------------
(* Instances of ResumeSession for TLC; a slot is <<file, name>>.            *)
EXTENDS ResumeSession, TLC

CONSTANTS fe, fm, fp, fo, fz, c0, c1, c2, c3

\* fe is eager; fm reuses one old chunk and shares c3 with the pure file fp; fo
\* is all old chunks, and fz has none.
SharedSlots == {<<fe, c1>>, <<fe, c2>>, <<fm, c0>>, <<fm, c3>>, <<fp, c3>>, <<fo, c0>>}
SharedOld == {<<fm, c0>>, <<fo, c0>>}

SlotFile == [s \in Slots |-> s[1]]
SlotName == [s \in Slots |-> s[2]]

\* fe, fm and fo have an old version, a shorter one and longer ones.
Mixed ==
  [f \in Files |-> IF f \in {fp, fz} THEN "none" ELSE IF f = fe THEN "less" ELSE "more"]

\* fe has one chunk as it has the other.
EagerSymmetry == Permutations({c1, c2})
=============================================================================
