------------------------- MODULE MCSnapstoreStretch -------------------------
(***************************************************************************)
(* Instances of SnapstoreStretch for TLC: two devices share a snapstore of *)
(* a few blocks.                                                           *)
(***************************************************************************)
EXTENDS SnapstoreStretch, TLC

MCDevices == {"sda", "sdb"}
MCNeeds == "sda" :> {2} @@ "sdb" :> {1}

=============================================================================
