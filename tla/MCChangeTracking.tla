--------------------------- MODULE MCChangeTracking ---------------------------
(***************************************************************************)
(* Instances of ChangeTracking for TLC: one block, written through a file  *)
(* system by w1 and past it by w2, and the snapshot numbers 1 and 2.       *)
(***************************************************************************)
EXTENDS ChangeTracking, TLC

CONSTANTS b1, w1, w2

MCBlocks   == {b1}
MCWriters  == {w1, w2}
MCRaw      == {w2}
MCRequests == {MCBlocks}

=============================================================================
