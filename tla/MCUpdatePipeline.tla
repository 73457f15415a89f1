--------------------------- MODULE MCUpdatePipeline ----------------------------
(* Model-checking instances of UpdatePipeline.                             *)
EXTENDS UpdatePipeline, TLC

TwoCells == {1, 2}
\* What a viewer asks for: the next update, the whole screen anew, or the
\* next update of a part.
NextUpdate == {<<Cells, TRUE>>}
WholeScreen == NextUpdate \cup {<<Cells, FALSE>>}
PartsToo == WholeScreen \cup {<<{1}, TRUE>>}

ValueSymmetry == Permutations(Values)
OneMove == {2 :> 1}
================================================================================
