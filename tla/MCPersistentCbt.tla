--------------------------- MODULE MCPersistentCbt ---------------------------
(***************************************************************************)
(* Instances of PersistentCbt for TLC.                                     *)
(***************************************************************************)
EXTENDS PersistentCbt

MCDevices == {"sda1"}

=============================================================================
