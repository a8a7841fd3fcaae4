---------------------------- MODULE MCPreinstall ----------------------------
(* Instances of ApplyPreinstall for TLC.                                    *)
EXTENDS ApplyPreinstall

CONSTANTS a, b, c, d, p, q, w1, w2

None == [kind |-> "none"]
NoChunk == [kind |-> "nochunk"]
Copy(k) == [kind |-> "copy", patch |-> k]
Diff(k, f) == [kind |-> "diff", patch |-> k, from |-> f]
Asset(f, i) == [file |-> f, info |-> i]
Game(assets, unused) == [field |-> "game", assets |-> assets, unused |-> unused]
Field(name, assets) == [field |-> name, assets |-> assets, unused |-> {}]

\* Every way an asset can come: b from the old a, and then a itself; c has
\* nothing to patch, d is no longer used.
Plain == [
  patches |-> <<Game(<<Asset(b, Diff(p, a)), Asset(a, Diff(q, a)), Asset(c, None)>>, {d})>>,
  main |-> [game |-> {a, b, c}], negative |-> {}, skip |-> {}]

\* a is patched before b is made from it; d is new, and in the main manifest
\* only; c belongs to a removed feature.
Swapped == [
  patches |-> <<Game(<<Asset(a, Copy(q)), Asset(b, Diff(p, a)), Asset(c, NoChunk)>>, {})>>,
  main |-> [game |-> {a, b, c, d}], negative |-> {b}, skip |-> {c}]

\* A field without a main manifest: its file cannot be downloaded whole.
PatchOnly == [
  patches |-> <<Game(<<Asset(a, Copy(q))>>, {}), Field("extra", <<Asset(b, Diff(p, a))>>)>>,
  main |-> [game |-> {a}], negative |-> {}, skip |-> {}]

\* d moves from the game to a voice pack.
Moved == [
  patches |-> <<Game(<<Asset(a, Diff(q, a))>>, {d}), Field("vo", <<Asset(d, Copy(p))>>)>>,
  main |-> [game |-> {a}, vo |-> {d}], negative |-> {}, skip |-> {}]

\* The patch manifest has an asset the main manifest does not.
Inconsistent == [
  patches |-> <<Game(<<Asset(a, Copy(p)), Asset(b, None)>>, {})>>,
  main |-> [game |-> {a}], negative |-> {}, skip |-> {}]

SomeReleases == {Plain, Swapped, PatchOnly, Moved, Inconsistent}
=============================================================================
