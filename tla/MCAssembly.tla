----------------------------- MODULE MCAssembly -----------------------------
(***************************************************************************)
(* An instance of FileAssembly: four chunks, the third a second occurrence *)
(* of the first, whose data another file needs as well.                    *)
(***************************************************************************)
EXTENDS FileAssembly

Four == 4
TwoAlike == <<"a", "b", "a", "c">>
OneElsewhere == [n \in {"a", "b", "c"} |-> IF n = "a" THEN 1 ELSE 0]

\* One thread or two, hashes for all chunks or all but one, one old chunk or
\* none, and at most two sources that are not right.
MCInit ==
  /\ Init
  /\ file.threads \in {1, 2}
  /\ file.hashed \in {Chunks, Chunks \ {2}}
  /\ file.old \in {{}, {2}, {3}}
  /\ Cardinality({i \in Chunks : data[i] # "right"}) <= 2

MCFairSpec == MCInit /\ [][Next]_vars /\ WF_vars(Task) /\ WF_vars(Hasher)
              /\ \A w \in 0 .. 3 : WF_vars(Thread(w))
=============================================================================
