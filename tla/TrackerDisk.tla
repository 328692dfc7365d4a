----------------------------- MODULE TrackerDisk -----------------------------
(***************************************************************************)
(* How the driver gets between a disk and its users (tracker_queue.c): a   *)
(* tracker_disk_t per disk, shared and counted by the trackers of its      *)
(* partitions, whose fops replace those of the disk.  tracking_add and     *)
(* tracking_remove change it while requests of all partitions of the disk  *)
(* run through tracking_make_request.                                      *)
(*                                                                         *)
(* All partitions are on one disk and disjoint, and every partition has a  *)
(* control process of its own, named like it.                              *)
(***************************************************************************)
EXTENDS Integers, Sequences, FiniteSets, SequencesExt

CONSTANTS
  Parts,       \* the partitions of the disk
  Users,       \* the requests under way at a time
  PartOf,      \* the partition of each of them
  Fs,          \* those that are writes of a mounted file system
  MaxDisks     \* bound: tracker_disk_t allocated

ASSUME DiskAssumption ==
  /\ IsFiniteSet(Parts)
  /\ PartOf \in [Users -> Parts]
  /\ Fs \subseteq Users
  /\ MaxDisks \in Nat

VARIABLES
  container,  \* tracker_disk_container
  refs,       \* kref of each tracker_disk_t
  original,   \* original_fops of each
  fops,       \* whose fops the disk has now
  allocated,  \* number of tracker_disk_t allocated so far
  tracker,    \* the tracker of each partition
  trDisk,     \* tracker->tr_disk
  probe,      \* the tracker_disk_t that tracking_add holds on to
  frozen,     \* partitions whose file system is frozen
  control,    \* control state of tracking_add and tracking_remove
  at,         \* where each request is in tracking_make_request
  seen,       \* the tracker_disk_t it found
  holds,      \* what its tracker pointer points to
  must,       \* its partition was under tracking all the time
  hurt,       \* history: a request of a tracked partition went wrong
  byBdev,     \* VEEAMSNAP_BDEV_BIO: trackers are looked up by block device
  serial      \* control processes call the driver one after the other

diskVars    == <<container, refs, original, fops, allocated>>
trackerVars == <<tracker, trDisk, probe, frozen, control>>
modeVars    == <<byBdev, serial>>
userVars    == <<at, seen, holds, must, hurt, modeVars>>
vars == <<diskVars, trackerVars, userVars>>

Driver == 0                     \* the fops of the disk's own driver
NoDisk == 0
Disks  == 1 .. MaxDisks
Live(d) == Contains(container, d)

-----------------------------------------------------------------------------
Init ==
  /\ container = <<>>
  /\ refs = [d \in Disks |-> 0]
  /\ original = [d \in Disks |-> Driver]
  /\ fops = Driver
  /\ allocated = 0
  /\ tracker = [p \in Parts |-> "none"]
  /\ trDisk = [p \in Parts |-> NoDisk]
  /\ probe = [p \in Parts |-> NoDisk]
  /\ frozen = {}
  /\ control = [p \in Parts |-> "idle"]
  /\ at = [u \in Users |-> "idle"]
  /\ seen = [u \in Users |-> NoDisk]
  /\ holds = [u \in Users |-> "nothing"]
  /\ must = [u \in Users |-> FALSE]
  /\ hurt = FALSE
  /\ byBdev \in BOOLEAN
  /\ serial \in BOOLEAN

-----------------------------------------------------------------------------
(* tracker_disk_find and tracker_disk_find_and_get, under the spin lock.   *)

Find == IF container = <<>> THEN NoDisk ELSE Head(container)

Get(d) ==
  /\ refs' = [refs EXCEPT ![d] = @ + 1]
  /\ UNCHANGED <<container, original, fops, allocated>>

(* list_del in tracker_disk_free: the link of d leaves the list.           *)
Unlinked(d) ==
  RemoveAt(container, CHOOSE i \in DOMAIN container : container[i] = d)

(* Mutant: the object is freed but the fops of the disk stay.              *)
PutMutant(d) ==
  /\ refs' = [refs EXCEPT ![d] = @ - 1]
  /\ container' = IF refs[d] = 1 THEN Unlinked(d) ELSE container
  /\ UNCHANGED <<original, fops, allocated>>

(* tracker_disk_put: the last user takes the fops out of the disk.         *)
Put(d) ==
  /\ refs' = [refs EXCEPT ![d] = @ - 1]
  /\ IF refs[d] = 1
     THEN container' = Unlinked(d) /\ fops' = original[d]
     ELSE UNCHANGED <<container, fops>>
  /\ UNCHANGED <<original, allocated>>

MayCall(p) ==
  control[p] = "idle" /\ (serial => \A q \in Parts : control[q] = "idle")

Goes(p, from, to) == control[p] = from /\ control' = [control EXCEPT ![p] = to]

(* freeze_bdev holds new writes of the file system back ...                *)
Blocks(p, from, to) ==
  /\ Goes(p, from, to)
  /\ frozen' = frozen \cup {p}
  /\ UNCHANGED <<diskVars, tracker, trDisk, probe>>

(* ... and waits for those under way.                                      *)
Freezes(p, from, to) ==
  /\ Goes(p, from, to)
  /\ \A u \in Fs : PartOf[u] = p => at[u] = "idle"
  /\ UNCHANGED <<diskVars, tracker, trDisk, probe, frozen, userVars>>

Thaws(p, from, to) ==
  /\ Goes(p, from, to)
  /\ frozen' = frozen \ {p}
  /\ UNCHANGED <<diskVars, tracker, trDisk, probe, userVars>>

(* From the start of its removal on, nothing is expected of a tracker.     *)
Tracked(p) ==
  /\ tracker[p] = "ready"
  /\ control[p] \notin {"drain", "put", "detach", "free"}

-----------------------------------------------------------------------------
(* tracking_add of a partition without a tracker: it looks for trackers    *)
(* that intersect, holding on to the tracker_disk_t meanwhile ...          *)
AddProbe(p) ==
  /\ MayCall(p)
  /\ tracker[p] = "none"
  /\ Goes(p, "idle", "probed")
  /\ probe' = [probe EXCEPT ![p] = Find]
  /\ IF Find = NoDisk THEN UNCHANGED diskVars ELSE Get(Find)
  /\ UNCHANGED <<tracker, trDisk, frozen, userVars>>

(* ... and calls tracker_create, which puts the tracker on the list ...    *)
AddProbed(p) ==
  /\ Goes(p, "probed", "new")
  /\ probe' = [probe EXCEPT ![p] = NoDisk]
  /\ IF probe[p] = NoDisk THEN UNCHANGED diskVars ELSE Put(probe[p])
  /\ UNCHANGED <<tracker, trDisk, frozen, userVars>>

NewTracker(p) ==
  /\ Goes(p, "new", "block")
  /\ tracker' = [tracker EXCEPT ![p] = "new"]
  /\ UNCHANGED <<diskVars, trDisk, probe, frozen, userVars>>

AddFreeze(p) ==
  \/ Blocks(p, "block", "freeze") /\ UNCHANGED userVars
  \/ Freezes(p, "freeze", "find")

Attach(p, d) ==
  /\ trDisk' = [trDisk EXCEPT ![p] = d]
  /\ tracker' = [tracker EXCEPT ![p] = "ready"]

(* Mutant: the tracker_disk_t that is found is not counted.                *)
DiskFindMutant(p) ==
  /\ IF Find = NoDisk
     THEN /\ Goes(p, "find", "insert")
          /\ UNCHANGED <<diskVars, trDisk, tracker>>
     ELSE /\ Goes(p, "find", "thaw")
          /\ Attach(p, Find)
          /\ UNCHANGED diskVars
  /\ UNCHANGED <<probe, frozen, userVars>>

(* ... and then tracker_disk_create_or_get, which looks for the disk ...   *)
DiskFind(p) ==
  /\ IF Find = NoDisk
     THEN /\ Goes(p, "find", "insert")
          /\ UNCHANGED <<diskVars, trDisk, tracker>>
     ELSE /\ Goes(p, "find", "thaw")
          /\ Attach(p, Find)
          /\ Get(Find)
  /\ UNCHANGED <<probe, frozen, userVars>>

(* ... and, in a critical section of its own, inserts a new one.           *)
DiskInsert(p) ==
  LET d == allocated + 1
  IN /\ allocated < MaxDisks
     /\ Goes(p, "insert", "thaw")
     /\ Attach(p, d)
     /\ allocated' = d
     /\ container' = Append(container, d)
     /\ refs' = [refs EXCEPT ![d] = 1]
     /\ original' = [original EXCEPT ![d] = fops]
     /\ fops' = d
     /\ UNCHANGED <<probe, frozen, userVars>>

(* There is no memory for it: after the thaw, tracker_remove freezes once  *)
(* more and takes the tracker back.                                        *)
DiskInsertFails(p) == Thaws(p, "insert", "failed")

AddThaw(p) == Thaws(p, "thaw", "idle")

(* tracking_remove, and _tracker_remove in it.                             *)
Removes(p) == MayCall(p) /\ tracker[p] = "ready"

RemoveFreeze(p) ==
  \/ /\ \/ Removes(p) /\ Blocks(p, "idle", "drain")
        \/ Blocks(p, "failed", "drain")
     /\ must' = [u \in Users |-> must[u] /\ PartOf[u] # p]
     /\ UNCHANGED <<at, seen, holds, hurt, modeVars>>
  \/ Freezes(p, "drain", "put")

(* Mutant: tr_disk is not cleared.                                         *)
RemovePutMutant(p) ==
  /\ Goes(p, "put", "detach")
  /\ IF trDisk[p] = NoDisk THEN UNCHANGED diskVars ELSE Put(trDisk[p])
  /\ UNCHANGED <<tracker, trDisk, probe, frozen, userVars>>

RemovePut(p) ==
  /\ Goes(p, "put", "detach")
  /\ IF trDisk[p] = NoDisk THEN UNCHANGED diskVars ELSE Put(trDisk[p])
  /\ trDisk' = [trDisk EXCEPT ![p] = NoDisk]
  /\ UNCHANGED <<tracker, probe, frozen, userVars>>

RemoveThaw(p) == Thaws(p, "detach", "free")

RemoveFree(p) ==
  /\ Goes(p, "free", "idle")
  /\ tracker' = [tracker EXCEPT ![p] = "none"]
  /\ holds' = [u \in Users |->
                 IF PartOf[u] = p /\ holds[u] = "tracker" THEN "freed" ELSE holds[u]]
  /\ UNCHANGED <<diskVars, trDisk, probe, frozen, at, seen, must, hurt, modeVars>>

Control(p) ==
  \/ AddProbe(p) \/ AddProbed(p) \/ NewTracker(p) \/ AddFreeze(p)
  \/ DiskFind(p) \/ DiskInsert(p) \/ DiskInsertFails(p) \/ AddThaw(p)
  \/ RemoveFreeze(p) \/ RemovePut(p) \/ RemoveThaw(p) \/ RemoveFree(p)

-----------------------------------------------------------------------------
(* Requests.                                                               *)

(* Mutant: a request does not get out of the driver during a freeze.       *)
LeaveMutant(u) ==
  /\ PartOf[u] \notin frozen
  /\ at' = [at EXCEPT ![u] = "idle"]
  /\ holds' = [holds EXCEPT ![u] = "nothing"]
  /\ must' = [must EXCEPT ![u] = FALSE]

Leave(u) ==
  /\ at' = [at EXCEPT ![u] = "idle"]
  /\ holds' = [holds EXCEPT ![u] = "nothing"]
  /\ must' = [must EXCEPT ![u] = FALSE]

(* Something went wrong with the request; it counts if it must not.        *)
Hurts(u, wrong) == hurt' = (hurt \/ (must[u] /\ wrong))

(* The block layer calls submit_bio of the disk.                           *)
Enter(u) ==
  /\ at[u] = "idle"
  /\ u \in Fs => PartOf[u] \notin frozen
  /\ LET tracked == Tracked(PartOf[u])
     IN IF fops = Driver
        THEN /\ hurt' = (hurt \/ tracked)
             /\ UNCHANGED <<at, must>>
        ELSE /\ at' = [at EXCEPT ![u] = "entered"]
             /\ must' = [must EXCEPT ![u] = tracked]
             /\ UNCHANGED hurt
  /\ UNCHANGED <<diskVars, trackerVars, seen, holds, modeVars>>

(* tracker_disk_find takes no reference; without a tracker_disk_t the      *)
(* request fails ("Cannot find the tracker disk").                         *)
FindDisk(u) ==
  /\ at[u] = "entered"
  /\ seen' = [seen EXCEPT ![u] = Find]
  /\ IF Find = NoDisk
     THEN Leave(u) /\ Hurts(u, TRUE)
     ELSE at' = [at EXCEPT ![u] = "found"] /\ UNCHANGED <<holds, must, hurt>>
  /\ UNCHANGED <<diskVars, trackerVars, modeVars>>

(* tracker_find_by_bdev, tracker_find_by_queue_and_sector                  *)
Matches(u) ==
  IF byBdev
  THEN tracker[PartOf[u]] # "none"
  ELSE trDisk[PartOf[u]] = seen[u]

FindTracker(u) ==
  /\ at[u] = "found"
  /\ at' = [at EXCEPT ![u] = "submit"]
  /\ holds' = [holds EXCEPT ![u] = IF Matches(u) THEN "tracker" ELSE "nothing"]
  /\ Hurts(u, ~Matches(u))
  /\ UNCHANGED <<diskVars, trackerVars, seen, must, modeVars>>

(* The request is marked or redirected through its tracker and goes to the *)
(* original submit_bio of the tracker_disk_t.                              *)
SubmitBio(u) ==
  /\ at[u] = "submit"
  /\ Leave(u)
  /\ seen' = [seen EXCEPT ![u] = NoDisk]
  /\ Hurts(u, ~Live(seen[u]) \/ holds[u] = "freed")
  /\ UNCHANGED <<diskVars, trackerVars, modeVars>>

Bio(u) == Enter(u) \/ FindDisk(u) \/ FindTracker(u) \/ SubmitBio(u)

Next ==
  \/ \E p \in Parts : Control(p)
  \/ \E u \in Users : Bio(u)

Spec == Init /\ [][Next]_vars

(* The control processes, and requests inside tracking_make_request, run.  *)
Fairness ==
  /\ \A p \in Parts : WF_vars(Control(p) /\ control[p] # "idle")
  /\ \A u \in Users : WF_vars(Bio(u) /\ at[u] # "idle")

FairSpec == Spec /\ Fairness

-----------------------------------------------------------------------------
(* Properties.                                                             *)

(* Every variable keeps its type.                                          *)
TypeOK ==
  /\ container \in Seq(Disks)
  /\ refs \in [Disks -> Nat]
  /\ original \in [Disks -> Disks \cup {Driver}]
  /\ fops \in Disks \cup {Driver}
  /\ allocated \in 0 .. MaxDisks
  /\ tracker \in [Parts -> {"none", "new", "ready"}]
  /\ trDisk \in [Parts -> Disks \cup {NoDisk}]
  /\ probe \in [Parts -> Disks \cup {NoDisk}]
  /\ frozen \subseteq Parts
  /\ control \in [Parts -> {"idle", "probed", "new", "block", "freeze", "find",
                            "insert", "thaw", "failed", "drain", "put",
                            "detach", "free"}]
  /\ at \in [Users -> {"idle", "entered", "found", "submit"}]
  /\ seen \in [Users -> Disks \cup {NoDisk}]
  /\ holds \in [Users -> {"nothing", "tracker", "freed"}]
  /\ must \in [Users -> BOOLEAN]
  /\ hurt \in BOOLEAN
  /\ byBdev \in BOOLEAN
  /\ serial \in BOOLEAN

(* The count of a tracker_disk_t is the number of trackers and of running  *)
(* tracking_add calls that point to it, and it is on the list as long as   *)
(* that is not zero: it is neither freed under anybody nor leaked.         *)
RefsAreExact ==
  /\ \A d \in Disks :
       refs[d] = Cardinality({p \in Parts : trDisk[p] = d})
                 + Cardinality({p \in Parts : probe[p] = d})
  /\ \A d \in Disks : Live(d) <=> refs[d] > 0

(* "find or create new tracker queue" (tracker_queue.c:30): a disk has at  *)
(* most one tracker_disk_t, and its fops are the disk's exactly as long as *)
(* a tracker needs them.                                                   *)
OneHook ==
  IF container = <<>> THEN fops = Driver ELSE container = <<fops>>

(* So it is as long as callers take turns, which the driver leaves to them.*)
SerialOneHook == serial => OneHook

(* While a partition is under tracking, no request of it gets past its     *)
(* tracker, fails, or runs into a tracker or a tracker_disk_t that was     *)
(* freed, whatever a caller does to the other partitions of the disk.      *)
TrackedRequestsAreServed == serial => ~hurt

(* tracking_add and tracking_remove end: the freeze does not wait for ever *)
(* for requests that wait in the driver.                                   *)
ControlEnds == \A p \in Parts : control[p] # "idle" ~> control[p] = "idle"

=============================================================================
