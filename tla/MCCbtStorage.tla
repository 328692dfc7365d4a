---------------------------- MODULE MCCbtStorage ----------------------------
(***************************************************************************)
(* Instances of CbtStorage for TLC: a file of five pages of three cells,   *)
(* in which the registers of two devices fit, with maps that are longer    *)
(* than a page.                                                            *)
(***************************************************************************)
EXTENDS CbtStorage

MCDevices == {"sda", "sdb"}

=============================================================================
