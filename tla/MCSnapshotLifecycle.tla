------------------------ MODULE MCSnapshotLifecycle ------------------------
(***************************************************************************)
(* Instance of SnapshotLifecycle for TLC: a disk with a partition, and two *)
(* other disks.                                                            *)
(***************************************************************************)
EXTENDS SnapshotLifecycle

CONSTANTS p1, p2

MCDevices == {"sda", "sda1", "sdb", "sdc"}
MCSets == {<<"sda">>, <<"sdb">>, <<"sdc", "sdb", "sda1">>}
MCStoreSets == {<<"sda", "sdb", "sda1", "sdc">>}
MCOverlap == {{"sda", "sda1"}}
MCSnapshots == 1 .. 2
MCStores == {"store1"}
MCDefers == 1 .. 3

(* Failures that are taken back, failures of the images, and failures of   *)
(* the release, some of which the driver cannot take back.                 *)
MCFaultSets == {{"tracking", "corrupted"}, {"cbt", "defer"},
                {"image"}, {"disk", "minor"},
                {"freeze", "release"}}
MCNoFaults == {{}}

(* Nothing distinguishes the callers.                                      *)
Interchange == Permutations(Processes)

=============================================================================
