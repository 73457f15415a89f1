---------------------------- MODULE MCViewerSession ----------------------------
(* A desktop that is turned or enlarged.  The part that it always has says    *)
(* nothing that the others do not and is left out: a wide desktop has one     *)
(* part that a high one lacks, and the other way round.                       *)
EXTENDS ViewerSession

MCDimensions == {{"wide"}, {"high"}, {"wide", "high"}}
================================================================================
