------------------------------ MODULE MCRepair ------------------------------
(***************************************************************************)
(* An instance of Repair: two files that share a chunk, which one of them  *)
(* has twice, the other one with old chunks; or one written eagerly beside *)
(* one without chunks.  The cache holds one entry, so that it can be full. *)
(***************************************************************************)
EXTENDS Repair, TLC

CONSTANTS f, g

Sharing == [needs |-> (f :> <<"a", "b">>) @@ (g :> <<"a", "a">>), eager |-> {}, old |-> {f}]
Apart == [needs |-> (f :> <<"a", "b">>) @@ (g :> <<>>), eager |-> {f}, old |-> {}]
Either == {Sharing, Apart}
=============================================================================
