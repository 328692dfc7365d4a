---------------------------- MODULE MCImageQueue ----------------------------
(***************************************************************************)
(* Instances of ImageQueue for TLC.                                        *)
(***************************************************************************)
EXTENDS ImageQueue

MCKernels == {[stops |-> TRUE, waits |-> "cleanup"],
              [stops |-> FALSE, waits |-> "delete"]}

=============================================================================
