------------------------- MODULE SnapshotLifecycle -------------------------
(***************************************************************************)
(* The calls of the control device that create and destroy snapshots       *)
(* (snapshot.c) out of trackers (tracking.c, tracker.c), defer IO objects  *)
(* (defer_io.c), snapstore devices (snapstore.c, snapstore_device.c) and   *)
(* snapshot images (snapimage.c): a sequence of steps over the devices of  *)
(* the snapshot, each of which can fail and is then taken back.            *)
(*                                                                         *)
(* The driver has no lock that spans a call, so calls interleave.  What    *)
(* happens inside a step while requests run is the matter of ChangeTracking *)
(* and of CopyOnWrite.                                                     *)
(***************************************************************************)
EXTENDS Integers, Sequences, FiniteSets, SequencesExt

CONSTANTS
  Devices,      \* the block devices
  NoDevice,     \* original_dev of an image that was not set up
  Overlapping,  \* pairs of them that share sectors of a disk
  Sets,         \* the device lists that snapshots are made for
  StoreSets,    \* the device lists that snapstores are made for
  Snapshots,    \* bound: snapshots at a time, 1 .. n
  Stores,       \* bound: snapstores at a time
  Defers,       \* bound: defer IO objects at a time, 1 .. n
  MaxImages,    \* bound: length of SnapImages
  Processes,    \* the callers of the control device
  FaultSets,    \* the sets of steps that can fail, one set in a behaviour
  Avoided       \* what the callers do not do: "recapture", "readd", "race"

ASSUME LifecycleAssumption ==
  /\ IsFiniteSet(Devices) /\ IsFiniteSet(Stores) /\ IsFiniteSet(Defers)
  /\ NoDevice \notin Devices
  /\ Overlapping \subseteq {{d, e} : d, e \in Devices}
  /\ \A devs \in Sets \cup StoreSets : devs \in Seq(Devices) /\ devs # <<>>
  /\ \A devs \in StoreSets : IsInjective(devs)
  /\ Snapshots \subseteq Nat \ {0}
  /\ Defers \subseteq Nat \ {0}
  /\ MaxImages \in Nat
  /\ FaultSets \subseteq SUBSET {"tracking", "cbt", "defer", "freeze", "corrupted",
                                 "release", "image", "disk", "minor"}
  /\ Avoided \subseteq {"recapture", "readd", "race"}

VARIABLES
  tracked,     \* devices with a tracker in trackers_container
  hollow,      \* devices with a tracker there that could not open its device
  snapshotId,  \* tracker->snapshot_id
  deferIo,     \* tracker->defer_io; is_captured as long as there is one
  faulty,      \* tracked devices that were resized, or whose CBT map is inactive
  uses,        \* the snapstore device of each defer IO object
  running,     \* the defer IO objects whose thread runs
  storeList,   \* SnapstoreDevices
  refs,        \* own_cnt of snapstores, snapstore devices, defer IO objects
  images,      \* SnapImages
  listed,      \* the container Snapshots
  members,     \* dev_id_set of each snapshot
  status,      \* history: what the callers know of each snapshot
  call,        \* where each control process is
  faults       \* the steps that can fail, which never changes

trackerVars  == <<tracked, hollow, snapshotId, deferIo, faulty>>
heapVars     == <<uses, running, refs>>
snapshotVars == <<listed, members, status>>
vars == <<trackerVars, heapVars, storeList, images, snapshotVars, call, faults>>

None == 0
StoreDevices == Stores \X Devices

-----------------------------------------------------------------------------
(* shared_resource.h: an object whose count drops to zero is destroyed,    *)
(* and gives up what it holds.                                             *)

PutStore(r, s) == [r EXCEPT !.store[s] = @ - 1]

PutStoreDevice(r, sd) ==
  LET less == [r EXCEPT !.device[sd] = @ - 1]
  IN IF less.device[sd] = 0 THEN PutStore(less, sd[1]) ELSE less

PutDefer(r, x) ==
  LET less == [r EXCEPT !.defer[x] = @ - 1]
  IN IF less.defer[x] = 0 THEN PutStoreDevice(less, uses[x]) ELSE less

Alive(x) == refs.defer[x] > 0

(* The lookups find the first in a list: snapstore_device_find_by_dev_id,  *)
(* _snapstore_device_get_by_snapstore_id, and those of snapimage_stop and  *)
(* snapimage_destroy.                                                      *)
StoreDeviceOf(d) == SelectInSeq(storeList, LAMBDA sd : sd[2] = d)

StoreDeviceIn(s) == SelectInSeq(storeList, LAMBDA sd : sd[1] = s)

ImageOf(d) == SelectInSeq(images, LAMBDA image : image.dev = d)

Overlap(d, e) == d # e /\ {d, e} \in Overlapping

-----------------------------------------------------------------------------
Init ==
  /\ tracked = {}
  /\ hollow = {}
  /\ snapshotId = [d \in Devices |-> None]
  /\ deferIo = [d \in Devices |-> None]
  /\ faulty = {}
  /\ uses = [x \in Defers |-> <<>>]
  /\ running = {}
  /\ storeList = <<>>
  /\ refs = [store  |-> [s \in Stores |-> 0],
             device |-> [sd \in StoreDevices |-> 0],
             defer  |-> [x \in Defers |-> 0]]
  /\ images = <<>>
  /\ listed = <<>>
  /\ members = [s \in Snapshots |-> <<>>]
  /\ status = [s \in Snapshots |-> "none"]
  /\ call = [p \in Processes |-> [at |-> "idle", snapshot |-> None, todo |-> <<>>,
                                  all |-> FALSE, ok |-> TRUE]]
  /\ faults \in FaultSets

-----------------------------------------------------------------------------
(* The callers.                                                            *)

InSnapshot(d) == \E s \in Snapshots : status[s] # "none" /\ Contains(members[s], d)

Idle(p) == call[p].at = "idle"

(* Calls under way at the same time concern different devices.             *)
NoRace(p, ds) ==
  "race" \in Avoided =>
    \A q \in Processes \ {p} :
      ~Idle(q) => ~call[q].all
                  /\ \A d \in ToSet(members[call[q].snapshot]), e \in ds :
                       d # e /\ ~Overlap(d, e)

NoReplace(ds) ==
  "readd" \in Avoided => \A d \in Devices, e \in ds : InSnapshot(d) => ~Overlap(d, e)

NoReadd(d) == "readd" \in Avoided => ~InSnapshot(d)

NoRecapture(ds) ==
  "recapture" \in Avoided => \A d \in ds : ~InSnapshot(d)

-----------------------------------------------------------------------------
(* tracking_add: a tracker that is there is kept, and gets the snapshot    *)
(* number if it has none, unless its CBT map has a fault: then it is       *)
(* removed and made anew.  A new tracker takes the place of one that its   *)
(* device overlaps.                                                        *)

(* What tracking_add removes first: tracker_find_intersection returns one. *)
Replaced(d) ==
  IF d \in tracked
  THEN {{d} \cap faulty}
  ELSE LET hit == {e \in tracked : Overlap(d, e)}
       IN IF hit = {} THEN {{}} ELSE {{e} : e \in hit}

(* Mutant: a new tracker takes over the CBT map of the old one.            *)
ReplaceMutant(old, new, id) ==
  /\ tracked' = (tracked \ old) \cup new
  /\ snapshotId' = [e \in Devices |->
       IF e \in new THEN id ELSE IF e \in old THEN None ELSE snapshotId[e]]
  /\ deferIo' = [e \in Devices |-> IF e \in old THEN None ELSE deferIo[e]]
  /\ faulty' = faulty

(* Trackers are removed with whatever they hold, and new ones come.        *)
Replace(old, new, id) ==
  /\ tracked' = (tracked \ old) \cup new
  /\ snapshotId' = [e \in Devices |->
       IF e \in new THEN id ELSE IF e \in old THEN None ELSE snapshotId[e]]
  /\ deferIo' = [e \in Devices |-> IF e \in old THEN None ELSE deferIo[e]]
  /\ faulty' = faulty \ old

(* A hollow tracker has no device and no CBT map.  A call that finds one   *)
(* and goes on to its device uses a null pointer, and does not return.     *)
AddTracker(d, id) ==
  /\ d \notin hollow
  /\ \E old \in Replaced(d) :
       IF d \in tracked \ old
       THEN /\ snapshotId' = IF id # None /\ snapshotId[d] = None
                             THEN [snapshotId EXCEPT ![d] = id]
                             ELSE snapshotId
            /\ UNCHANGED <<tracked, deferIo, faulty>>
       ELSE Replace(old, {d}, id)
  /\ UNCHANGED hollow

(* The device cannot be opened before anything was done; or tracker_create *)
(* fails after the old tracker has gone.  It removes the new tracker, but  *)
(* leaves it in the list when it could not open the device.                *)
AddTrackerFails(d) ==
  /\ "tracking" \in faults
  /\ d \notin hollow
  /\ \/ d \notin tracked /\ UNCHANGED trackerVars
     \/ /\ \E old \in Replaced(d) : d \notin tracked \ old /\ Replace(old, {}, None)
        /\ hollow' \in {hollow, hollow \cup {d}}

TrackingAdd(p, d) ==
  /\ Idle(p)
  /\ NoRace(p, {d})
  /\ NoReplace({d}) /\ NoReadd(d)
  /\ AddTracker(d, None) \/ AddTrackerFails(d)
  /\ UNCHANGED <<heapVars, storeList, images, snapshotVars, call>>

TrackingRemove(p, d) ==
  /\ Idle(p)
  /\ NoRace(p, {d})
  /\ d \in tracked \cup hollow
  /\ snapshotId[d] = None
  /\ Replace({d}, {}, None)
  /\ hollow' = hollow \ {d}
  /\ UNCHANGED <<heapVars, storeList, images, snapshotVars, call>>

(* The device grows, or a range is outside of the CBT map.                 *)
CbtFault(d) ==
  /\ "cbt" \in faults
  /\ d \in tracked \ faulty
  /\ faulty' = faulty \cup {d}
  /\ UNCHANGED <<tracked, hollow, snapshotId, deferIo, heapVars, storeList, images,
                 snapshotVars, call>>

-----------------------------------------------------------------------------
(* snapstore_create: one snapstore device for each device of the list, in  *)
(* the hands of the list.                                                  *)
StoreCreate(p, s, devs) ==
  LET new == [i \in DOMAIN devs |-> <<s, devs[i]>>]
  IN /\ Idle(p)
     /\ refs.store[s] = 0
     /\ refs' = [refs EXCEPT
          !.store[s] = Len(devs),
          !.device = [sd \in StoreDevices |-> IF sd \in ToSet(new) THEN 1 ELSE @[sd]]]
     /\ storeList' = storeList \o new
     /\ UNCHANGED <<trackerVars, uses, running, images, snapshotVars, call>>

(* snapstore_cleanup: the list gives up the devices of the snapstore, one  *)
(* by one.  Its loop holds no lock, so other calls come in between.        *)
StoreCleanup(p, s) ==
  LET i == StoreDeviceIn(s)
  IN /\ Idle(p)
     /\ i # 0
     /\ refs' = PutStoreDevice(refs, storeList[i])
     /\ storeList' = RemoveAt(storeList, i)
     /\ UNCHANGED <<trackerVars, uses, running, images, snapshotVars, call>>

-----------------------------------------------------------------------------
(* The loops over the devices of a snapshot.                               *)

Snap(p) == call[p].snapshot
Dev(p)  == Head(call[p].todo)
All(p)  == members[Snap(p)]

Goto(p, at, todo) == call' = [call EXCEPT ![p].at = at, ![p].todo = todo]

Fail(p, at) ==
  call' = [call EXCEPT ![p].at = at, ![p].todo = All(p), ![p].ok = FALSE]

Returns(p) ==
  call' = [call EXCEPT ![p] = [at |-> "idle", snapshot |-> None, todo |-> <<>>,
                               all |-> FALSE, ok |-> TRUE]]

(* On to the next device, or to the next loop.                             *)
Continue(p, at, next) ==
  /\ call[p].at = at
  /\ IF Len(call[p].todo) > 1
     THEN Goto(p, at, Tail(call[p].todo))
     ELSE Goto(p, next, All(p))

-----------------------------------------------------------------------------
(* snapshot_Create.                                                        *)
CreateStart(p, devs) ==
  /\ Idle(p)
  /\ IsInjective(devs)
  /\ NoRace(p, ToSet(devs))
  /\ NoReplace(ToSet(devs))
  /\ NoRecapture(ToSet(devs))
  /\ \E s \in Snapshots :
       /\ status[s] = "none"
       /\ \A t \in Snapshots : t < s => status[t] # "none"
       /\ status' = [status EXCEPT ![s] = "creating"]
       /\ members' = [members EXCEPT ![s] = devs]
       /\ listed' = Append(listed, s)
       /\ call' = [call EXCEPT ![p] = [at |-> "add", snapshot |-> s, todo |-> devs,
                                       all |-> FALSE, ok |-> TRUE]]
  /\ UNCHANGED <<trackerVars, heapVars, storeList, images>>

CreateAdd(p) ==
  /\ \/ Continue(p, "add", "capture") /\ AddTracker(Dev(p), Snap(p))
     \/ call[p].at = "add" /\ Fail(p, "cleanup") /\ AddTrackerFails(Dev(p))
  /\ UNCHANGED <<heapVars, storeList, images, snapshotVars>>

(* _tracker_capture_snapshot, inside the freeze: a new defer IO object,    *)
(* whose thread runs, holds the first snapstore device of the device.      *)
CreateCapture(p) ==
  /\ Continue(p, "capture", "check")
  /\ Dev(p) \in tracked
  /\ deferIo[Dev(p)] = None
  /\ StoreDeviceOf(Dev(p)) # 0
  /\ \E x \in Defers :
       /\ ~Alive(x)
       /\ \A y \in Defers : y < x => Alive(y)
       /\ LET sd == storeList[StoreDeviceOf(Dev(p))]
          IN /\ refs' = [refs EXCEPT !.defer[x] = 1, !.device[sd] = @ + 1]
             /\ uses' = [uses EXCEPT ![x] = sd]
       /\ running' = running \cup {x}
       /\ deferIo' = [deferIo EXCEPT ![Dev(p)] = x]
  /\ UNCHANGED <<tracked, hollow, snapshotId, faulty, storeList, images, snapshotVars>>

(* The freeze fails, there is no snapstore device or no memory for the     *)
(* defer IO object, or the tracker has one and the new one is destroyed.   *)
CreateCaptureFails(p) ==
  /\ call[p].at = "capture"
  /\ Dev(p) \notin hollow
  /\ \/ faults \cap {"freeze", "defer"} # {}
     \/ Dev(p) \notin tracked
     \/ deferIo[Dev(p)] # None
     \/ StoreDeviceOf(Dev(p)) = 0
  /\ Fail(p, "release")
  /\ UNCHANGED <<trackerVars, heapVars, storeList, images, snapshotVars>>

(* The second loop of tracker_capture_snapshot: did a device overflow?     *)
CreateCheck(p) ==
  /\ call[p].at = "check"
  /\ \/ Goto(p, "image", All(p))
     \/ "corrupted" \in faults /\ Fail(p, "release")
  /\ UNCHANGED <<trackerVars, heapVars, storeList, images, snapshotVars>>

Finished(p) == Len(call[p].todo) = 1

(* After the last image snapshot_Create returns the snapshot.              *)
ImageMade(p) ==
  /\ IF Finished(p) THEN Returns(p) ELSE Goto(p, "image", Tail(call[p].todo))
  /\ status' = IF Finished(p) THEN [status EXCEPT ![Snap(p)] = "created"] ELSE status
  /\ UNCHANGED <<listed, members>>

(* snapimage_create: the image shares the defer IO object of the tracker.  *)
CreateImage(p) ==
  LET x == deferIo[Dev(p)]
  IN /\ call[p].at = "image"
     /\ x # None
     /\ Len(images) < MaxImages
     /\ ImageMade(p)
     /\ images' = Append(images, [dev |-> Dev(p), defer |-> x, running |-> TRUE])
     /\ refs' = [refs EXCEPT !.defer[x] = @ + 1]
     /\ UNCHANGED <<trackerVars, uses, running, storeList>>

(* No queue, disk or thread for the image: it is destroyed, and the result *)
(* of that is returned, SUCCESS.  No minor for it: the result is still     *)
(* SUCCESS, and an image that belongs to no device goes on the list.       *)
CreateImageSwallowed(p) ==
  /\ call[p].at = "image"
  /\ ImageMade(p)
  /\ \/ "disk" \in faults /\ images' = images
     \/ /\ "minor" \in faults
        /\ Len(images) < MaxImages
        /\ images' = Append(images, [dev |-> NoDevice, defer |-> None, running |-> FALSE])
  /\ UNCHANGED <<trackerVars, heapVars, storeList>>

(* snapimage_create_for destroys the images made so far, but for the last. *)
CreateImageFails(p) ==
  LET made   == Len(All(p)) - Len(call[p].todo)
      unmake == IF made > 0 THEN SubSeq(All(p), 1, made - 1) ELSE <<>>
  IN /\ call[p].at = "image"
     /\ "image" \in faults
     /\ IF unmake = <<>> THEN Fail(p, "release")
        ELSE call' = [call EXCEPT ![p].at = "unmake", ![p].todo = unmake, ![p].ok = FALSE]
     /\ UNCHANGED <<trackerVars, heapVars, storeList, images, snapshotVars>>

(* Mutant: the first image of the list, whichever device it shows.         *)
DestroyImageMutant(d) ==
  LET i == SelectInSeq(images, LAMBDA image : image.dev # NoDevice)
  IN IF i = 0
     THEN UNCHANGED <<images, heapVars>>
     ELSE /\ images' = RemoveAt(images, i)
          /\ refs' = PutDefer(refs, images[i].defer)
          /\ UNCHANGED <<uses, running>>

(* snapimage_destroy: the first image of the device.                       *)
DestroyImage(d) ==
  IF ImageOf(d) = 0
  THEN UNCHANGED <<images, heapVars>>
  ELSE LET x == images[ImageOf(d)].defer
       IN /\ images' = RemoveAt(images, ImageOf(d))
          /\ refs' = PutDefer(refs, x)
          /\ UNCHANGED <<uses, running>>

CreateUnmake(p) ==
  /\ Continue(p, "unmake", "release")
  /\ DestroyImage(Dev(p))
  /\ UNCHANGED <<trackerVars, storeList, snapshotVars>>

-----------------------------------------------------------------------------
(* snapshot_Destroy and snapshot_DestroyAll: _snapshot_destroy.            *)

TakeSnapshot(p, s, all) ==
  /\ listed' = RemoveFirst(listed, s)
  /\ status' = [status EXCEPT ![s] = "destroying"]
  /\ call' = [call EXCEPT ![p] = [at |-> "stop", snapshot |-> s, todo |-> members[s],
                                  all |-> all, ok |-> TRUE]]
  /\ UNCHANGED <<members, trackerVars, heapVars, storeList, images>>

DestroyStart(p, s) ==
  /\ Idle(p)
  /\ status[s] \in {"created", "partly"}
  /\ Contains(listed, s)
  /\ NoRace(p, ToSet(members[s]))
  /\ TakeSnapshot(p, s, FALSE)

DestroyAllStart(p) ==
  /\ Idle(p)
  /\ listed # <<>>
  /\ NoRace(p, Devices)
  /\ TakeSnapshot(p, Head(listed), TRUE)

DestroyStop(p) ==
  /\ Continue(p, "stop", "release")
  /\ images' = IF ImageOf(Dev(p)) = 0 THEN images
               ELSE [images EXCEPT ![ImageOf(Dev(p))].running = FALSE]
  /\ UNCHANGED <<trackerVars, heapVars, storeList, snapshotVars>>

DestroyImages(p) ==
  /\ Continue(p, "destroy", "cleanup")
  /\ DestroyImage(Dev(p))
  /\ UNCHANGED <<trackerVars, storeList, snapshotVars>>

(* Mutant: the reference of the tracker is not given up.                   *)
ReleaseTrackerMutant(d) ==
  IF d \notin tracked \/ deferIo[d] = None
  THEN UNCHANGED <<trackerVars, heapVars>>
  ELSE /\ deferIo' = [deferIo EXCEPT ![d] = None]
       /\ running' = running \ {deferIo[d]}
       /\ UNCHANGED <<tracked, hollow, snapshotId, faulty, uses, refs>>

(* _tracker_release_snapshot: the thread of the defer IO object stops.     *)
ReleaseTracker(d) ==
  IF d \notin tracked \/ deferIo[d] = None
  THEN UNCHANGED <<trackerVars, heapVars>>
  ELSE /\ deferIo' = [deferIo EXCEPT ![d] = None]
       /\ running' = running \ {deferIo[d]}
       /\ refs' = PutDefer(refs, deferIo[d])
       /\ UNCHANGED <<tracked, hollow, snapshotId, faulty, uses>>

Release(p) ==
  /\ Continue(p, "release", IF call[p].ok THEN "destroy" ELSE "cleanup")
  /\ Dev(p) \notin hollow
  /\ ReleaseTracker(Dev(p))
  /\ UNCHANGED <<storeList, images, snapshotVars>>

(* The freeze has failed: the tracker is released, but the rest is not.    *)
(* snapshot_Destroy keeps the snapshot, snapshot_DestroyAll loses it, and  *)
(* snapshot_Create cleans up all the same.                                 *)
ReleaseFails(p) ==
  /\ call[p].at = "release"
  /\ "release" \in faults
  /\ Dev(p) \in tracked
  /\ ReleaseTracker(Dev(p))
  /\ IF ~call[p].ok
     THEN Goto(p, "cleanup", All(p)) /\ UNCHANGED <<listed, status>>
     ELSE /\ Returns(p)
          /\ listed' = IF call[p].all THEN listed ELSE Append(listed, Snap(p))
          /\ status' = [status EXCEPT ![Snap(p)] = IF call[p].all THEN "lost" ELSE "partly"]
  /\ UNCHANGED <<members, storeList, images>>

(* _snapshot_cleanup: the trackers forget the snapshot, whichever they     *)
(* have, and it is deleted.                                                *)
Cleanup(p) ==
  /\ call[p].at = "cleanup"
  /\ snapshotId' = [snapshotId EXCEPT ![Dev(p)] = None]
  /\ IF Finished(p)
     THEN /\ Returns(p)
          /\ listed' = RemoveFirst(listed, Snap(p))
          /\ status' = [status EXCEPT ![Snap(p)] = "none"]
          /\ members' = [members EXCEPT ![Snap(p)] = <<>>]
     ELSE /\ Goto(p, "cleanup", Tail(call[p].todo))
          /\ UNCHANGED snapshotVars
  /\ UNCHANGED <<tracked, hollow, deferIo, faulty, heapVars, storeList, images>>

-----------------------------------------------------------------------------
Create(p) ==
  \/ \E devs \in Sets : CreateStart(p, devs)
  \/ CreateAdd(p) \/ CreateCapture(p) \/ CreateCaptureFails(p) \/ CreateCheck(p)
  \/ CreateImage(p) \/ CreateImageSwallowed(p) \/ CreateImageFails(p)
  \/ CreateUnmake(p)

Destroy(p) ==
  \/ \E s \in Snapshots : DestroyStart(p, s)
  \/ DestroyAllStart(p) \/ DestroyStop(p) \/ DestroyImages(p)

TakeBack(p) == Release(p) \/ ReleaseFails(p) \/ Cleanup(p)

Tracking(p) == \E d \in Devices : TrackingAdd(p, d) \/ TrackingRemove(p, d)

Store(p) ==
  \E s \in Stores : StoreCleanup(p, s) \/ \E devs \in StoreSets : StoreCreate(p, s, devs)

Next ==
  /\ \/ \E p \in Processes :
          Create(p) \/ Destroy(p) \/ TakeBack(p) \/ Tracking(p) \/ Store(p)
     \/ \E d \in Devices : CbtFault(d)
  /\ UNCHANGED faults

Spec == Init /\ [][Next]_vars

-----------------------------------------------------------------------------
(* Properties.                                                             *)

CallStates ==
  {"idle", "add", "capture", "check", "image", "unmake", "stop", "release",
   "destroy", "cleanup"}

(* Every variable keeps its type.                                          *)
TypeOK ==
  /\ tracked \subseteq Devices
  /\ hollow \subseteq Devices \ tracked
  /\ snapshotId \in [Devices -> Snapshots \cup {None}]
  /\ deferIo \in [Devices -> Defers \cup {None}]
  /\ faulty \subseteq tracked
  /\ uses \in [Defers -> StoreDevices \cup {<<>>}]
  /\ running \subseteq Defers
  /\ storeList \in Seq(StoreDevices)
  /\ refs.store \in [Stores -> Nat]
  /\ refs.device \in [StoreDevices -> Nat]
  /\ refs.defer \in [Defers -> Nat]
  /\ \A image \in ToSet(images) :
       image.dev \in Devices \cup {NoDevice} /\ image.defer \in Defers \cup {None}
  /\ listed \in Seq(Snapshots)
  /\ members \in [Snapshots -> Seq(Devices)]
  /\ status \in [Snapshots -> {"none", "creating", "created", "destroying",
                               "partly", "lost"}]
  /\ \A p \in Processes :
       /\ call[p].at \in CallStates
       /\ call[p].snapshot \in Snapshots \cup {None}
       /\ call[p].todo \in Seq(Devices)

(* Every count is the number of its owners: nothing is freed under one,    *)
(* nothing outlives them all.  Not so when a release can fail: it leaves   *)
(* the other trackers captured, and tracking_add drops such a tracker      *)
(* without putting what it holds.                                          *)
RefsAreExact == "release" \notin faults =>
  /\ \A x \in Defers :
       refs.defer[x] = Cardinality({d \in Devices : deferIo[d] = x})
                 + Cardinality({i \in DOMAIN images : images[i].defer = x})
  /\ \A sd \in StoreDevices :
       refs.device[sd] = Cardinality({i \in DOMAIN storeList : storeList[i] = sd})
                  + Cardinality({x \in Defers : Alive(x) /\ uses[x] = sd})
  /\ \A s \in Stores :
       refs.store[s] =
         Cardinality({sd \in StoreDevices : sd[1] = s /\ refs.device[sd] > 0})

(* From the return of snapshot_Create to the call of snapshot_Destroy each *)
(* device of the snapshot is captured for it, with a thread that copies,   *)
(* whatever the calls that Avoided allows do and however they fail.        *)
SnapshotIsCaptured ==
  \A s \in Snapshots : status[s] = "created" =>
    \A d \in ToSet(members[s]) :
      /\ d \in tracked
      /\ snapshotId[d] = s
      /\ deferIo[d] \in running

(* The image that the lookup of the device finds is the one of this        *)
(* capture, when neither a step of an image nor a release can fail.        *)
ImagesAreFound == faults \cap {"image", "disk", "minor", "release"} = {} =>
  \A s \in Snapshots : status[s] = "created" =>
    \A d \in ToSet(members[s]) :
      /\ ImageOf(d) # 0
      /\ deferIo[d] \in running
      /\ images[ImageOf(d)].defer = deferIo[d]

(* A snapshot that was created is whole until it is destroyed: all of its  *)
(* devices are captured for it and have their image; for callers that do   *)
(* not do what Avoided names.                                              *)
SnapshotIsComplete == SnapshotIsCaptured /\ ImagesAreFound

(* When no call is under way and no snapshot is left, nothing of one is:   *)
(* no image, no captured device, no thread, no number of a snapshot.  Not  *)
(* so when a release can fail, or snapimage_create: the undo loop spares   *)
(* the last image made, and an image without a minor is never found.       *)
NothingIsLeft ==
  /\ faults \cap {"image", "minor", "release"} = {}
  /\ \A p \in Processes : Idle(p)
  /\ \A s \in Snapshots : status[s] = "none"
  =>
    /\ images = <<>>
    /\ running = {}
    /\ \A d \in Devices : deferIo[d] = None /\ snapshotId[d] = None

(* "check space already under tracking" (tracking.c:316): no sector of a   *)
(* disk is tracked twice, but where a device overlaps several, of which    *)
(* tracking_add removes one: a disk that is added after its partitions.    *)
TrackersAreDisjoint ==
  \A d, e \in tracked : Overlap(d, e) =>
    \E f \in Devices \ {d, e} : Overlap(d, f) \/ Overlap(e, f)

(* When steps of a call fail, in the middle of its loops and with calls    *)
(* for other devices in between, what was done is taken back: everything   *)
(* has the owners it is counted for, none is left without one, and a device *)
(* that is tracked takes the place of the one that it overlaps.  This is   *)
(* for callers that do not do what Avoided names, which the driver does    *)
(* not see to, and but for the failures that each part names.              *)
OwnershipIsExact == RefsAreExact /\ NothingIsLeft /\ TrackersAreDisjoint

(* "Unable to remove device from tracking: snapshot [..] is created"       *)
(* (tracking.c:382): a device keeps its tracker, and the tracker the       *)
(* snapshot, as long as the snapshot exists.                               *)
MembersAreMarked ==
  \A s \in Snapshots : status[s] = "created" =>
    \A d \in ToSet(members[s]) : d \in tracked /\ snapshotId[d] = s

=============================================================================
