------------------------------ MODULE MCUpdate ------------------------------
(* Builds for UpdateSession.                                                *)
EXTENDS UpdateSession, TLC

\* a grows and reuses a chunk, u stays, e is new and pure, x goes.
Grows ==
  [old |-> "game" :> ("a" :> <<1>> @@ "u" :> <<3>> @@ "x" :> <<5>>),
   new |-> "game" :> ("a" :> <<6, 1>> @@ "u" :> <<3>> @@ "e" :> <<7>>)]

\* a keeps its size, e shrinks to a chunk of the old a, x moves from the game
\* to the voice manifest, u stays there.
Moves ==
  [old |-> "game" :> ("a" :> <<1, 2>> @@ "e" :> <<3, 4>> @@ "x" :> <<5, 8>>) @@ "voice" :> ("u" :> <<6>>),
   new |-> "game" :> ("a" :> <<2, 7>> @@ "e" :> <<2>>) @@ "voice" :> ("u" :> <<6>> @@ "x" :> <<5, 8>>)]

AllCases == {Grows, Moves}
NameOrder == <<"u", "e", "a", "x">>
=============================================================================
