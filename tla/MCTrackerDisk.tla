---------------------------- MODULE MCTrackerDisk ----------------------------
(***************************************************************************)
(* Instances of TrackerDisk for TLC: a disk of two partitions, a file      *)
(* system write on one, and on the other a request that no freeze holds.   *)
(***************************************************************************)
EXTENDS TrackerDisk

MCParts == {"sda1", "sda2"}
MCUsers == {"write1", "read2"}
MCPartOf == [u \in MCUsers |-> IF u = "read2" THEN "sda2" ELSE "sda1"]
MCFs == {"write1"}

=============================================================================
