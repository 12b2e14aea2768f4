--------------------------- MODULE MCAsyncClient ----------------------------
(* Instances of AsyncClient for TLC.                                       *)
EXTENDS AsyncClientInv, TLC

\* Two writes that follow each other in one file, so that they may be merged.
MCShapes ==
  {[path |-> "f", offset |-> 0, size |-> 1, fi |-> "h"],
   [path |-> "f", offset |-> 1, size |-> 2, fi |-> "h"]}

\* One byte, again and again: for the runs about control only.
MCOneShape == {[path |-> "f", offset |-> 0, size |-> 1, fi |-> "h"]}

MCSymmetry == Permutations(Threads)
=============================================================================
