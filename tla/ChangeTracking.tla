--------------------------- MODULE ChangeTracking ---------------------------
(***************************************************************************)
(* One block device under tracking, through a series of snapshots: the     *)
(* requests that pass tracking_make_request, the capture and the release   *)
(* of the device (tracker.c), and the CBT map (cbt_map.c) from which a     *)
(* backup service reads which blocks changed since an earlier snapshot.    *)
(*                                                                         *)
(* The content of a block is the number of the write that produced it.     *)
(* How the defer IO thread copies blocks is the matter of CopyOnWrite;     *)
(* here one step copies all blocks of one request.                         *)
(***************************************************************************)
EXTENDS Integers, Sequences, FiniteSets

CONSTANTS
  Blocks,       \* the blocks of the device
  Writers,      \* the processes that write the device
  Raw,          \* those of them that do not go through a mounted file system
  Requests,     \* the block sets that one request may cover
  MaxNumber,    \* the largest snapshot number, 255 in cbt_map_switch
  MaxWrites,    \* bound: writes to the device and to the images
  MaxSnapshots, \* bound: snapshots taken
  MaxResizes    \* bound: changes of the device's capacity

Defer == "defer"   \* the defer IO thread, as a holder of the lock of the map

ASSUME TrackingAssumption ==
  /\ IsFiniteSet(Blocks)
  /\ Raw \subseteq Writers
  /\ Defer \notin Writers
  /\ Requests \subseteq SUBSET Blocks
  /\ MaxNumber \in Nat \ {0}
  /\ MaxWrites \in Nat
  /\ MaxSnapshots \in Nat
  /\ MaxResizes \in Nat

VARIABLES
  orig,        \* content of the device
  capacity,    \* its capacity: how often it was resized
  nextWrite,   \* number of the next write
  pc,          \* where each writer is in tracking_make_request
  req,         \* its request
  captured,    \* tracker->is_captured
  deferIo,     \* tracker->defer_io: "none", "running", or "stopping"
  queue,       \* requests that the defer IO thread has to process
  deferPc,     \* what it has done for the first of them
  store,       \* the blocks copied for the current snapshot
  admin,       \* progress of the creation or the release of a snapshot
  frozen,      \* freeze_bdev holds back the writers of the file system
  snapshots,   \* snapshots taken so far
  readMap,     \* cbt_map->read_map
  writeMap,    \* cbt_map->write_map
  active,      \* cbt_map->snap_number_active
  previous,    \* cbt_map->snap_number_previous
  genActive,   \* cbt_map->generationId_active
  genPrevious, \* cbt_map->generationId_previous
  generations, \* generation ids drawn so far
  mapActive,   \* cbt_map->active
  mapCapacity, \* cbt_map->device_capacity
  readers,     \* who holds cbt_map->rw_lock for reading
  image,       \* history: what the current snapshot must show
  backup,      \* the last backup: its blocks, and the map it was made from
  exposed,     \* history: writers that a release overtook without a freeze
  late,        \* history: blocks a deferred request marked before the switch
  missed       \* history: such blocks of earlier captures, not backed up since

deviceVars  == <<orig, capacity, nextWrite>>
writerVars  == <<pc, req>>
deferVars   == <<captured, deferIo, queue, deferPc, store>>
adminVars   == <<admin, frozen, snapshots>>
numberVars  == <<active, previous, genActive, genPrevious, generations>>
mapVars     == <<readMap, writeMap, mapActive, mapCapacity>>
serviceVars == <<image, backup>>
history     == <<exposed, late, missed>>
vars == <<deviceVars, writerVars, deferVars, adminVars, numberVars, mapVars,
          readers, serviceVars, history>>

Writes  == 0 .. MaxWrites
Numbers == 0 .. MaxNumber
NoCopy  == -1
Request == [id : Writes, blks : SUBSET Blocks, by : Writers]
NoBackup == [gen |-> 0, number |-> 0, capacity |-> 0,
             data |-> [b \in Blocks |-> 0]]

(* What the image of the current snapshot shows.                           *)
View(b) == IF store[b] # NoCopy THEN store[b] ELSE orig[b]

-----------------------------------------------------------------------------
Init ==
  /\ orig = [b \in Blocks |-> 0]
  /\ capacity = 0
  /\ nextWrite = 1
  /\ pc = [w \in Writers |-> "idle"]
  /\ req = [w \in Writers |-> [id |-> 0, blks |-> {}, by |-> w]]
  /\ captured = FALSE
  /\ deferIo = "none"
  /\ queue = <<>>
  /\ deferPc = "idle"
  /\ store = [b \in Blocks |-> NoCopy]
  /\ admin = "idle"
  /\ frozen = FALSE
  /\ snapshots = 0
  /\ readMap = [b \in Blocks |-> 0]
  /\ writeMap = [b \in Blocks |-> 0]
  /\ active = 1
  /\ previous = 0
  /\ genActive = 1
  /\ genPrevious = 1
  /\ generations = 1
  /\ mapActive = TRUE
  /\ mapCapacity = 0
  /\ readers = {}
  /\ image = [b \in Blocks |-> 0]
  /\ backup = NoBackup
  /\ exposed = {}
  /\ late = {}
  /\ missed = {}

-----------------------------------------------------------------------------
(* The CBT map.                                                            *)

(* _cbt_map_set: the number only grows.                                    *)
Raised(map, blks, number) ==
  [b \in Blocks |-> IF b \in blks /\ map[b] < number THEN number ELSE map[b]]

(* tracker_cbt_bitmap_set: a resized device puts the map out of action.    *)
CbtSet(blks) ==
  IF mapCapacity = capacity
  THEN /\ writeMap' = Raised(writeMap, blks, active)
       /\ UNCHANGED <<readMap, mapActive, mapCapacity>>
  ELSE /\ mapActive' = FALSE
       /\ UNCHANGED <<readMap, writeMap, mapCapacity>>

(* The request marks its blocks under the read lock of an active map.      *)
CbtMark(who, blks) ==
  IF mapActive
  THEN readers' = readers \cup {who} /\ CbtSet(blks)
  ELSE UNCHANGED <<readers, mapVars>>

(* Mutant: the number starts again without a new generation and without    *)
(* clearing the map.                                                       *)
CbtSwitchMutant ==
  /\ readMap' = writeMap
  /\ genPrevious' = IF active = 1 THEN genActive ELSE genPrevious
  /\ previous' = active
  /\ active' = (active % MaxNumber) + 1
  /\ UNCHANGED <<writeMap, mapActive, mapCapacity, genActive, generations>>

(* Mutant: the number is reset one snapshot too late.                      *)
CbtSwitchMutant2 ==
  /\ readMap' = writeMap
  /\ genPrevious' = IF active = 1 THEN genActive ELSE genPrevious
  /\ previous' = active
  /\ IF active = MaxNumber + 1
     THEN /\ active' = 1
          /\ generations' = generations + 1
          /\ genActive' = generations'
          /\ writeMap' = [b \in Blocks |-> 0]
     ELSE /\ active' = active + 1
          /\ UNCHANGED <<generations, genActive, writeMap>>
  /\ UNCHANGED <<mapActive, mapCapacity>>

(* cbt_map_switch                                                          *)
CbtSwitch ==
  /\ readMap' = writeMap
  /\ genPrevious' = IF active = 1 THEN genActive ELSE genPrevious
  /\ previous' = active
  /\ IF active = MaxNumber
     THEN /\ active' = 1
          /\ generations' = generations + 1
          /\ genActive' = generations'
          /\ writeMap' = [b \in Blocks |-> 0]
     ELSE /\ active' = active + 1
          /\ UNCHANGED <<generations, genActive, writeMap>>
  /\ UNCHANGED <<mapActive, mapCapacity>>

(* cbt_map_create                                                          *)
CbtCreate ==
  /\ readMap' = [b \in Blocks |-> 0]
  /\ writeMap' = [b \in Blocks |-> 0]
  /\ active' = 1
  /\ previous' = 0
  /\ generations' = generations + 1
  /\ genActive' = generations'
  /\ genPrevious' = generations'
  /\ mapActive' = TRUE
  /\ mapCapacity' = capacity

-----------------------------------------------------------------------------
(* Writers: tracking_make_request.                                         *)

(* The device takes the content of a write.                                *)
Submit(r) == orig' = [b \in Blocks |-> IF b \in r.blks THEN r.id ELSE orig[b]]

MayBegin(w) == pc[w] = "idle" /\ nextWrite <= MaxWrites /\ (frozen => w \in Raw)

(* A request looks for the tracker and reads is_captured.  is_unfreezable  *)
(* is never TRUE for a tracker in use, so no lock is taken.                *)
MakeRequest(w, blks) ==
  /\ MayBegin(w)
  /\ admin # "untracked"
  /\ req' = [req EXCEPT ![w] = [id |-> nextWrite, blks |-> blks, by |-> w]]
  /\ pc' = [pc EXCEPT ![w] = IF captured THEN "redirect" ELSE "lowlevel"]
  /\ nextWrite' = nextWrite + 1
  /\ UNCHANGED <<orig, capacity, deferVars, adminVars, numberVars,
                 mapVars, readers, serviceVars, history>>

(* A request of a device without a tracker.                                *)
UntrackedRequest(w, blks) ==
  /\ MayBegin(w)
  /\ admin = "untracked"
  /\ Submit([id |-> nextWrite, blks |-> blks])
  /\ nextWrite' = nextWrite + 1
  /\ UNCHANGED <<capacity, writerVars, deferVars, adminVars, numberVars,
                 mapVars, readers, serviceVars, history>>

(* defer_io_redirect_bio, on the defer IO object that the tracker has now. *)
Redirect(w) ==
  /\ pc[w] = "redirect"
  /\ deferIo = "running"
  /\ queue' = Append(queue, req[w])
  /\ pc' = [pc EXCEPT ![w] = "idle"]
  /\ exposed' = exposed \ {w}
  /\ UNCHANGED <<deviceVars, req, captured, deferIo, deferPc, store,
                 adminVars, numberVars, mapVars, readers, serviceVars,
                 late, missed>>

(* ... which may find no memory for the request.                           *)
RedirectFails(w) ==
  /\ pc[w] = "redirect"
  /\ deferIo = "running"
  /\ pc' = [pc EXCEPT ![w] = "lowlevel"]
  /\ exposed' = exposed \ {w}
  /\ UNCHANGED <<deviceVars, req, deferVars, adminVars, numberVars,
                 mapVars, readers, serviceVars,
                 late, missed>>

(* ... or may find that a release has taken the object away.  What it read *)
(* of tracker->defer_io then is a pointer from before, to a queue that is  *)
(* still open or already closed, or NULL, which it dereferences.           *)
RedirectLate(w) ==
  /\ pc[w] = "redirect"
  /\ deferIo # "running"
  /\ \/ /\ deferIo = "stopping"
        /\ queue' = Append(queue, req[w])
        /\ pc' = [pc EXCEPT ![w] = "idle"]
     \/ /\ pc' \in {[pc EXCEPT ![w] = end] : end \in {"lowlevel", "dead"}}
        /\ UNCHANGED queue
  /\ exposed' = exposed \ {w}
  /\ UNCHANGED <<deviceVars, req, captured, deferIo, deferPc, store,
                 adminVars, numberVars, mapVars, readers, serviceVars,
                 late, missed>>

LowLevelMark(w) ==
  /\ pc[w] = "lowlevel"
  /\ CbtMark(w, req[w].blks)
  /\ pc' = [pc EXCEPT ![w] = "submit"]
  /\ UNCHANGED <<deviceVars, req, deferVars, adminVars, numberVars,
                 serviceVars, history>>

(* Mutant: the read lock of the map is not given back.                     *)
LowLevelSubmitMutant(w) ==
  /\ pc[w] = "submit"
  /\ Submit(req[w])
  /\ pc' = [pc EXCEPT ![w] = "idle"]
  /\ UNCHANGED <<capacity, nextWrite, req, deferVars, adminVars,
                 numberVars, mapVars, readers, serviceVars, history>>

LowLevelSubmit(w) ==
  /\ pc[w] = "submit"
  /\ Submit(req[w])
  /\ readers' = readers \ {w}
  /\ pc' = [pc EXCEPT ![w] = "idle"]
  /\ UNCHANGED <<capacity, nextWrite, req, deferVars, adminVars,
                 numberVars, mapVars, serviceVars, history>>

WriterStep(w) ==
  \/ Redirect(w) \/ RedirectFails(w) \/ RedirectLate(w)
  \/ LowLevelMark(w) \/ LowLevelSubmit(w)

-----------------------------------------------------------------------------
(* The defer IO thread.                                                    *)

(* It copies the blocks of the request, unless it is being stopped.        *)
DeferCopy ==
  /\ deferPc = "idle"
  /\ queue # <<>>
  /\ store' = IF deferIo = "running"
              THEN [b \in Blocks |-> IF b \in Head(queue).blks THEN View(b) ELSE store[b]]
              ELSE store
  /\ deferPc' = "copied"
  /\ UNCHANGED <<deviceVars, writerVars, captured, deferIo, queue, adminVars,
                 numberVars, mapVars, readers, serviceVars, history>>

(* _defer_io_finish marks the blocks ...                                   *)
DeferMark ==
  /\ deferPc = "copied"
  /\ CbtMark(Defer, Head(queue).blks)
  /\ deferPc' = "marked"
  /\ late' = IF admin \in {"capture", "switch"} THEN late \cup Head(queue).blks
                                               ELSE late
  /\ UNCHANGED <<deviceVars, writerVars, captured, deferIo, queue, store,
                 adminVars, numberVars, serviceVars, exposed, missed>>

(* ... and submits the request.                                            *)
DeferSubmit ==
  /\ deferPc = "marked"
  /\ Submit(Head(queue))
  /\ queue' = Tail(queue)
  /\ readers' = readers \ {Defer}
  /\ deferPc' = "idle"
  /\ UNCHANGED <<capacity, nextWrite, writerVars, captured, deferIo, store,
                 adminVars, numberVars, mapVars, serviceVars, history>>

DeferStep == DeferCopy \/ DeferMark \/ DeferSubmit

-----------------------------------------------------------------------------
(* The creation of a snapshot: tracking_add and tracker_capture_snapshot.  *)

(* freeze_bdev waits until the writes of the file system are complete; a   *)
(* freeze that failed, or that found no file system, waits for nobody.     *)
Quiet ==
  frozen => /\ \A w \in Writers \ Raw : pc[w] = "idle"
            /\ \A i \in DOMAIN queue : queue[i].by \in Raw

AdminGoes(from, to) == admin = from /\ admin' = to

(* tracking_add: a map that is out of action, or of another capacity, is   *)
(* replaced together with its tracker.                                     *)
TrackingAdd ==
  /\ snapshots < MaxSnapshots
  /\ AdminGoes("idle", IF mapActive /\ mapCapacity = capacity THEN "freeze" ELSE "remove")
  /\ snapshots' = snapshots + 1
  /\ UNCHANGED <<deviceVars, writerVars, deferVars, frozen, numberVars,
                 mapVars, readers, serviceVars, history>>

TrackerRemove ==
  /\ AdminGoes("remove", "untracked")
  /\ \A w \in Writers : pc[w] \in {"idle", "dead"}
  /\ UNCHANGED <<deviceVars, writerVars, deferVars, frozen, snapshots,
                 numberVars, mapVars, readers, serviceVars, history>>

TrackerCreate ==
  /\ AdminGoes("untracked", "freeze")
  /\ CbtCreate
  /\ UNCHANGED <<deviceVars, writerVars, deferVars, frozen, snapshots,
                 readers, serviceVars, history>>

Freeze(from, to) ==
  /\ AdminGoes(from, to)
  /\ frozen' = TRUE
  /\ UNCHANGED <<deviceVars, writerVars, deferVars, snapshots, numberVars,
                 mapVars, readers, serviceVars, history>>

(* blk_freeze_bdev fails, or the device has no superblock to freeze: the   *)
(* capture, like the release, goes on with a device that is not frozen.    *)
FreezeFails(from, to) ==
  /\ AdminGoes(from, to)
  /\ UNCHANGED <<deviceVars, writerVars, deferVars, frozen, snapshots,
                 numberVars, mapVars, readers, serviceVars, history>>

(* On the kernels where the driver calls freeze_bdev itself, a capture ends *)
(* with the freeze that fails, before anything has changed.                *)
CaptureFails ==
  /\ AdminGoes("freeze", "idle")
  /\ UNCHANGED <<deviceVars, writerVars, deferVars, frozen, snapshots,
                 numberVars, mapVars, readers, serviceVars, history>>

(* _tracker_capture_snapshot sets defer_io, then is_captured, then         *)
(* switches the CBT map.                                                   *)
CreateDeferIo ==
  /\ AdminGoes("create", "capture")
  /\ Quiet
  /\ deferIo' = "running"
  /\ store' = [b \in Blocks |-> NoCopy]
  /\ late' = {}
  /\ missed' = missed \cup late
  /\ UNCHANGED <<deviceVars, writerVars, captured, queue, deferPc, frozen,
                 snapshots, numberVars, mapVars, readers, serviceVars, exposed>>

SetCaptured ==
  /\ AdminGoes("capture", "switch")
  /\ captured' = TRUE
  /\ image' = orig
  /\ UNCHANGED <<deviceVars, writerVars, deferIo, queue, deferPc, store, frozen,
                 snapshots, numberVars, mapVars, readers, backup, history>>

SwitchCbt ==
  /\ AdminGoes("switch", "thaw")
  /\ readers = {}
  /\ CbtSwitch
  /\ UNCHANGED <<deviceVars, writerVars, deferVars, frozen, snapshots, readers,
                 serviceVars, history>>

Thaw(from, to) ==
  /\ AdminGoes(from, to)
  /\ frozen' = FALSE
  /\ UNCHANGED <<deviceVars, writerVars, deferVars, snapshots, numberVars,
                 mapVars, readers, serviceVars, history>>

(* Writers that have read is_captured, and that no freeze keeps out.       *)
Overtaken == {w \in Writers : pc[w] = "redirect" /\ (frozen => w \in Raw)}

(* Mutant: the release does not wait for the freeze.                       *)
ClearCapturedMutant ==
  /\ AdminGoes("clear", "rethaw")
  /\ captured' = FALSE
  /\ deferIo' = "stopping"
  /\ exposed' = exposed \cup Overtaken
  /\ UNCHANGED <<deviceVars, writerVars, queue, deferPc, store, frozen,
                 snapshots, numberVars, mapVars, readers, serviceVars,
                 late, missed>>

(* _tracker_release_snapshot                                               *)
ClearCaptured ==
  /\ AdminGoes("clear", "rethaw")
  /\ Quiet
  /\ captured' = FALSE
  /\ deferIo' = "stopping"
  /\ exposed' = exposed \cup Overtaken
  /\ UNCHANGED <<deviceVars, writerVars, queue, deferPc, store, frozen,
                 snapshots, numberVars, mapVars, readers, serviceVars,
                 late, missed>>

(* defer_io_stop waits for the thread, which empties its queue first.      *)
StopDeferIo ==
  /\ AdminGoes("stop", "idle")
  /\ queue = <<>>
  /\ deferIo' = "none"
  /\ UNCHANGED <<deviceVars, writerVars, captured, queue, deferPc, store, frozen,
                 snapshots, numberVars, mapVars, readers, serviceVars, history>>

Capturing ==
  \/ TrackerRemove \/ TrackerCreate
  \/ Freeze("freeze", "create") \/ FreezeFails("freeze", "create")
  \/ CaptureFails
  \/ CreateDeferIo \/ SetCaptured \/ SwitchCbt \/ Thaw("thaw", "held")

Releasing == ClearCaptured \/ Thaw("rethaw", "stop") \/ StopDeferIo

StartRelease == Freeze("held", "clear") \/ FreezeFails("held", "clear")

-----------------------------------------------------------------------------
(* The world around the driver.                                            *)

Resize ==
  /\ capacity < MaxResizes
  /\ capacity' = capacity + 1
  /\ UNCHANGED <<orig, nextWrite, writerVars, deferVars, adminVars, numberVars,
                 mapVars, readers, serviceVars, history>>

(* A write to the snapshot image is marked for this snapshot and for the   *)
(* next one (cbt_map_set_both), and goes to the store.                     *)
ImageWrite(blks) ==
  /\ admin = "held"
  /\ nextWrite <= MaxWrites
  /\ nextWrite' = nextWrite + 1
  /\ writeMap' = Raised(writeMap, blks, active)
  /\ readMap' = Raised(readMap, blks, previous)
  /\ store' = [b \in Blocks |-> IF b \in blks THEN nextWrite ELSE store[b]]
  /\ image' = [b \in Blocks |-> IF b \in blks THEN nextWrite ELSE image[b]]
  /\ UNCHANGED <<orig, capacity, writerVars, captured, deferIo, queue, deferPc,
                 adminVars, numberVars, mapActive, mapCapacity, readers, backup,
                 history>>

(* The blocks that the bitmap does not report as changed since the last    *)
(* backup; there are none when the backup belongs to another generation of *)
(* the map or to another capacity.                                         *)
Unreported ==
  {b \in Blocks : /\ genPrevious = backup.gen
                  /\ capacity = backup.capacity
                  /\ readMap[b] <= backup.number}

(* The image has not been backed up yet.                                   *)
NewImage ==
  admin = "held" /\ (genPrevious = backup.gen => previous # backup.number)

(* The service reads the CBT map (tracking_collect,                        *)
(* tracking_read_cbt_bitmap) and the blocks that it reports.               *)
Backup ==
  /\ NewImage
  /\ backup' = [gen |-> genPrevious, number |-> previous, capacity |-> capacity,
                data |-> [b \in Blocks |-> IF b \in Unreported THEN backup.data[b] ELSE View(b)]]
  /\ missed' = missed \cap Unreported
  /\ UNCHANGED <<deviceVars, writerVars, deferVars, adminVars, numberVars,
                 mapVars, readers, image, exposed, late>>

Next ==
  \/ \E w \in Writers, blks \in Requests : MakeRequest(w, blks) \/ UntrackedRequest(w, blks)
  \/ \E w \in Writers : WriterStep(w)
  \/ DeferStep
  \/ TrackingAdd \/ Capturing \/ StartRelease \/ Releasing
  \/ Resize \/ Backup
  \/ \E blks \in Requests : ImageWrite(blks)

Spec == Init /\ [][Next]_vars

(* A writer inside tracking_make_request, the defer IO thread and a        *)
(* capture or release that has begun are scheduled; nobody has to begin.   *)
Fairness ==
  /\ \A w \in Writers : WF_vars(WriterStep(w))
  /\ WF_vars(DeferStep)
  /\ WF_vars(Capturing)
  /\ WF_vars(Releasing)

FairSpec == Spec /\ Fairness

-----------------------------------------------------------------------------
(* Properties.                                                             *)

(* Every variable keeps its type; in particular the snapshot numbers stay  *)
(* within the byte that the map stores for each block.                     *)
TypeOK ==
  /\ orig \in [Blocks -> Writes]
  /\ capacity \in 0 .. MaxResizes
  /\ nextWrite \in 1 .. MaxWrites + 1
  /\ pc \in [Writers -> {"idle", "redirect", "lowlevel", "submit", "dead"}]
  /\ req \in [Writers -> Request]
  /\ captured \in BOOLEAN
  /\ deferIo \in {"none", "running", "stopping"}
  /\ queue \in Seq(Request)
  /\ deferPc \in {"idle", "copied", "marked"}
  /\ store \in [Blocks -> Writes \cup {NoCopy}]
  /\ admin \in {"idle", "remove", "untracked", "freeze", "create", "capture",
                "switch", "thaw", "held", "clear", "rethaw", "stop"}
  /\ frozen \in BOOLEAN
  /\ snapshots \in 0 .. MaxSnapshots
  /\ readMap \in [Blocks -> Numbers]
  /\ writeMap \in [Blocks -> Numbers]
  /\ active \in 1 .. MaxNumber
  /\ previous \in Numbers
  /\ genActive \in 1 .. generations
  /\ genPrevious \in 1 .. generations
  /\ generations \in Nat
  /\ mapActive \in BOOLEAN
  /\ mapCapacity \in 0 .. MaxResizes
  /\ readers \subseteq Writers \cup {Defer}
  /\ image \in [Blocks -> Writes]
  /\ backup \in [gen : 0 .. generations, number : Numbers,
                 capacity : 0 .. MaxResizes, data : [Blocks -> Writes]]
  /\ exposed \subseteq Writers
  /\ late \subseteq Blocks
  /\ missed \subseteq Blocks

(* An incremental backup is exact: a block that the bitmap does not report *)
(* has, in the image, the content that the last backup read, whatever      *)
(* snapshots, releases, image writes, resizes and wraparounds of the       *)
(* snapshot number lie between the two, and whether the freezes of the     *)
(* captures and releases succeed or fail.  The one exception is a block in *)
(* missed: at an earlier capture that no freeze protected, the defer IO    *)
(* thread marked a deferred write of it before the map was switched, so    *)
(* with the number of the image, which still has the content from before.  *)
IncrementalIsExact ==
  NewImage => \A b \in Unreported \ missed : backup.data[b] = image[b]

(* A request on its way to the defer IO object of the tracker finds it     *)
(* there, although is_captured, from which the request concluded that      *)
(* there is one, was read before and is cleared without a lock: a freeze   *)
(* that succeeds has waited for it.  Exposed are only the requests which a *)
(* release overtakes whose freeze failed, and those which pass no file     *)
(* system and so are never waited for.                                     *)
NoStaleDeferIo ==
  \A w \in Writers \ exposed : pc[w] = "redirect" => deferIo = "running"

(* A request dereferenced the NULL that a release had left in defer_io.    *)
Crashed == \E w \in Writers : pc[w] = "dead"

(* A capture and a release that have begun come to their end, unless a     *)
(* request crashed: freeze, the lock of the CBT map and the stop of the    *)
(* defer IO thread do not wait for each other.                             *)
AdminFinishes ==
  /\ admin = "freeze" ~> admin \in {"held", "idle"} \/ Crashed
  /\ admin = "clear" ~> admin = "idle" \/ Crashed

=============================================================================
