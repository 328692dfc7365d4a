---------------------------- MODULE MCCopyOnWrite ----------------------------
(***************************************************************************)
(* Instances of CopyOnWrite for TLC: a device of two snapstore blocks,     *)
(* with a snapstore that may run out, may be stretched in time, or may be  *)
(* stretched too late.                                                     *)
(***************************************************************************)
EXTENDS CopyOnWrite

Write(blks) == [write |-> TRUE, blks |-> blks]
Read(blks)  == [write |-> FALSE, blks |-> blks]

(* Writers of the original: one block, or both in one request.             *)
MCOrigRequests == {Write({0}), Write({0, 1})}

(* Readers and writers of the image.                                       *)
MCImageRequests == {Read({0, 1}), Write({0})}

=============================================================================
