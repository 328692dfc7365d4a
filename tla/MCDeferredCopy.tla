--------------------------- MODULE MCDeferredCopy ---------------------------
(***************************************************************************)
(* Instances of DeferredCopy for TLC.                                      *)
(***************************************************************************)
EXTENDS DeferredCopy

(* One block, in two pieces in the snapstore; the read of its two pages    *)
(* may be split as well.                                                   *)
MCCuts == {1}

=============================================================================
