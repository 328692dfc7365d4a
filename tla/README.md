# Verification of veeamsnap

veeamsnap is a Linux kernel module.  It gets between block devices and their
users, keeps a map of the blocks that changed (change block tracking, CBT), and
makes point-in-time images of devices by copy-on-write.  A backup service drives
it through the ioctls of a control device and through a pipe.  This directory
holds TLA+ models of the module, the TLC configurations that check them, and
proofs for the TLA+ proof system.

    tlc -config MCCopyOnWrite.cfg MCCopyOnWrite      checks a model
    tlapm CopyOnWriteProofs.tla                      checks the proofs about it

Paths like `defer_io.c:117` are below `src/source/`.  `PROJECT.json` lists, for
every definition that models code, the lines it models; for every property, a
plausible bug (a "mutant", a second form of a definition that stands before it)
that TLC shows the property to catch; and every hazard we found, with the
properties that would catch it.  A hazard that the code does run into, and that a
property therefore leaves out by name, has no property there but a note.

## 1. The system

### Components

| component | files | state | operations |
|---|---|---|---|
| request hook | `tracking.c` | none of its own | `tracking_make_request` for every request of a tracked disk; `tracking_add`, `tracking_remove`, `tracking_collect`, `tracking_read_cbt_bitmap` for the service |
| trackers | `tracker.c` | list of `tracker_t`: device, `is_captured`, `defer_io`, `cbt_map`, `snapshot_id` | create, remove, find (by device, range, queue), capture and release for a snapshot |
| disk hooks | `tracker_queue.c` | list of `tracker_disk_t`: reference count, the fops of the disk's driver | find, create or get, put, free |
| CBT map | `cbt_map.c` | two byte maps, snapshot numbers, generation ids, `active`, the capacity it was made for | set, set both, switch, read to the user |
| deferred copy-on-write queue | `defer_io.c` | queue of requests, `queue_in_process`, a thread | redirect a request, batches of the thread, stop |
| snapstore device | `snapstore_device.c` | `store_block_map`, its mutex, `corrupted` | prepare, store, read, write, copy on write |
| snapstore | `snapstore.c` | pool of empty blocks, `halffilled`, `overflowed`, reference count | create, add a portion, take a block, report half-fill and overflow |
| block pools | `blk_descr_*.c`, `snapstore_{file,mem,multidev}.c` | arrays of descriptors with counters | take, at, add |
| control pipe | `ctrl_pipe.c` | queue of commands to the user, reference count | read, write (initiate, portions), requests for space, overflow, terminate |
| control device | `ctrl_fops.c` | open files | the ioctls |
| snapshots | `snapshot.c` | list of snapshots with their devices | create, destroy, destroy all |
| snapshot images | `snapimage.c`, `bitmap_sync.c` | array of images, minors; per image a queue and a thread | create, stop, destroy; open, close, submit; the thread |
| deferred requests | `blk_deferred.c`, `page_array.c` | bios of one copy, sectors counted, completion, result; requests put aside | read the original, store the copy, wait, free |
| redirection | `blk_redirect.c`, `rangevector.c` | bios of one image request, their count | read or write part of a request somewhere else |
| persistent CBT storage | `cbt_storage.c` | pages on a device, with CRC, number and time | check, read, write, make empty |
| persistent CBT registers | `cbt_persistent.c` | list of registers, notified devices, `_cbt_is_load` | load, store, register, attach a device |
| file system checks | `cbt_checkfs.c`, `ext4_check.c`, `cbt_notify.c`, `cbt_params.c` | notified devices | is it mounted, has it changed |
| collected snapstore | `snapdata_collect.c` | active and stopped collectors: the sectors of a file that is being written | start, find (the hook), get, complete |
| sector sets | `sparse_bitmap.c`, `rangelist*.c` | trees and lists | set, clear, test |
| containers | `container*.c` | lists under a lock | push, get, get all |
| helpers | `blk_util.c`, `veeamsnap_main.c`, `ctrl_sysfs.c`, `kernel_entries.c`, `log*`, `mem_alloc.c` | | freeze and thaw, module start and stop, sysfs, symbols, logging |

### How they interact

A request to a disk enters `tracking_make_request`, because a `tracker_disk_t`
has replaced the fops of the disk.  The hook finds the tracker of the request.
If the tracker is captured the request goes into the queue of the defer IO
object; otherwise it is marked in the CBT map and passed on.  The defer IO
thread takes a batch of requests, copies the blocks the writes are about to
overwrite from the original into the snapstore, marks the writes in the CBT map,
and passes them on.  The copies take blocks from the pool of the snapstore.  A
low pool sends a request for more space into the control pipe; an empty pool
marks the snapshot as corrupted, and the writes go on without copies.

A user of a snapshot image submits a request to the image's block device.  The
request waits while the defer IO queue of the original is not empty, goes into a
queue, and the thread of the image reads each block from the snapstore if it has
a copy there, else from the original.  A write to the image first copies what it
overwrites and then changes the copy.

`snapshot_Create` runs over the devices of a snapshot: tracker, capture (freeze
the file system, make the defer IO object, set `is_captured`, switch the CBT
map, thaw), overflow check, image.  `snapshot_Destroy` stops the images, releases
the captures and frees the images.  Both have to undo what they did when a step
fails.  Shared objects (snapstore, snapstore device, defer IO object, disk hook,
pipe) are counted.

At shutdown the CBT maps are stored in pages of a file, written behind the back
of its file system; at the next start they are loaded if the file systems have
not been mounted in between.

### What is hard

* The hook runs without locks on every processor, and reads the tracker,
  `is_captured` and `defer_io` while the control device changes them.
* The defer IO thread, the image thread, requests that bypass the queue for want
  of memory, and the service that adds blocks all work on one map.
* The ioctls take no lock that spans them, and each is a chain of steps that can
  fail one by one.
* Numbers wrap: a snapshot number is one byte, and the map starts anew.
* Power fails during a store or a load, and stored registers are used in a later
  life of the system, after unknown writes.
* Bios of one request end in any order and anywhere, at the same time as the thread
  that sent them waits, gives up, or sends the next.
* The service learns where its file lies by watching its own writes go through the
  hook, while it starts and stops the watching.

### What makes each part correct

* Copy-on-write: an image that is not corrupted is the device at the capture; no
  write reaches the device before the blocks below it are copied; requests are
  neither lost nor reordered.
* Change tracking: an incremental backup misses no change; a mark is not taken
  back as long as somebody can ask for it; the defer IO object is not used after
  it is gone; freeze, map lock and thread do not wait for each other.
* Disk hooks: counts are exact; a request of a tracked partition passes the
  tracker; one hook per disk.
* Snapshots: captured and complete between create and destroy, nothing left
  afterwards, counts exact, no sector tracked twice.
* Snapstore: one request per need, one report per overflow, nothing after the end
  was reported, the pipe outlives its users.
* Deferred requests: a copy that is taken for good is the content of the original,
  the waiter is woken, nothing is freed under a bio that is on its way.
* Image queue: each request is answered once and honestly; the image is not freed
  under one; a destruction ends.
* Collected snapstore: the ranges reported are the sectors at which the pattern went
  by, and a collector outlives the writes that found it.
* Persistent CBT: a finished store is loaded at most once and brings back nothing of
  an older one, a torn page stops everything, a loaded map never makes an incremental
  backup wrong.

## 2. The models

Each module is one part of the system in detail; what lies outside it is one
step or a choice.  `MC*.tla` give the constants their values.

| module | models | checked by |
|---|---|---|
| `CopyOnWrite` | one captured device: defer IO queue, snapstore device, image thread, pool | `copy_on_write` |
| `PointInTimeImage` | what an image promises to its user: it changes in the step that carries out the pending write, and in no other | refined by `CopyOnWrite` |
| `ChangeTracking` | one tracked device through captures, releases, wraparounds | `change_tracking` |
| `TrackerDisk` | the hook of a disk with several partitions | `tracker_disk` |
| `SnapshotLifecycle` | the ioctls of snapshots over several devices, with failures | `snapshot_lifecycle`, `snapshot_second` |
| `SnapstoreStretch` | pool, snapstore, control pipe, service | `snapstore_stretch` |
| `DeferredCopy` | one deferred request: its bios, its wait, its release | `deferred_copy` |
| `SnapdataCollect` | collectors, the calls of the service, writes in the hook | `snapdata_collect` |
| `SparseBitmap` | the set of sectors of a collector, as operators | `snapdata_collect` |
| `ImageQueue` | the block device of an image | `image_queue` |
| `CbtStorage` | the pages of the persistent CBT data | `cbt_storage`, `cbt_storage_read` |
| `PersistentCbt` | registers and trackers through many sessions | `persistent_cbt` |
| `CopyOnWriteProofs`, `ChangeTrackingProofs`, `TrackerDiskProofs`, `SnapshotLifecycleProofs`, `DeferredCopyProofs`, `ImageQueueProofs` | theorems about the module of the same name | tlapm |
| `SnapstoreProofs` | theorems about `SnapstoreStretch` and `SnapdataCollect` | tlapm |
| `PersistentCbtProofs` | theorems about `PersistentCbt` and `CbtStorage` | tlapm |

The modules meet at these points.  `ChangeTracking` does in one step what
`CopyOnWrite` does with the blocks of a request.  `SnapshotLifecycle` does in one
step what `ChangeTracking` does in a capture or release.  `CopyOnWrite` counts
the empty blocks whose asking and arriving is `SnapstoreStretch`, and takes a
request of the image from the queue of `ImageQueue`.  `PersistentCbt` stores and
loads registers whose pages are `CbtStorage`.  `DeferredCopy` is a copy that
`CopyOnWrite` takes as two steps, which may fail.  `SnapdataCollect` keeps its
sectors in a bitmap that its constants give, which is a tree of `SparseBitmap` when
it is checked, and goes through the hook of `TrackerDisk`.  The one refinement that
is checked and proved is that of `PointInTimeImage` by `CopyOnWrite`.

### CopyOnWrite

The content of a block is the number of the request that last wrote it, 0 at the
capture.  `copy[b]` is the descriptor of `store_block_map` together with the
progress of the copy, so that the window between entering a block into the map
and storing its content is visible.  `pc` is the place of the defer IO thread and
of the image thread; `locker` is `store_block_map_locker`.

* `Enter`, `PassThrough`, `Redirect`, `RedirectFails`: `tracking_make_request`
  and `defer_io_redirect_bio` for a request to the original.  A request that saw
  `is_captured` is in `entering` until it is queued, or passes for want of memory.
* `DeferLock` … `DeferUnlock`: one turn of `defer_io_work_thread`: up to `MaxDios`
  requests or `MaxDioBlocks` blocks, copies of their missing blocks
  (`PrepareRequests`, `ReadOriginal`, `StoreCopy` and the failures of each), then
  marks and submissions.  `DeferExit` … `DeferDone` end the thread.
* `ImageRequest`, `ImageRead`, `FetchCompletes`, `ImageLock` … `ImageUnlock`: one
  request in the image thread.  A read of a block without a copy is sent to the
  original and ends later (`flying`).
* `AddPortion`, `OtherDeviceTakes`: the pool changes.  `StopImage`, `Release`,
  `StopDefer`: the snapshot goes.

`snap`, `bypassed`, `received` and `submitted` are history.  `bypassed` has the
blocks that the code overwrites without a copy, by design or for want of memory:
about them the image promises nothing (`Trusted`).

### ChangeTracking

A writer is at `redirect`, `lowlevel` or `submit` inside the hook, with what it
read on the way.  The control process walks through `freeze`, `create`,
`capture`, `switch`, `thaw`, `held` and back through `clear`, `rethaw`, `stop`.
`readers` hold the lock of the map: the switch waits for them.  `Backup` reads
the image and what the map reports.

A freeze holds the writers of the file system and not those in `Raw`, who pass
none.  It may also fail, or find no file system to freeze (`FreezeFails`): then a
capture goes on all the same (`tracker.c:480` drops the result), and so does a release (`562-579`), with nothing
held.  `CaptureFails` is the kernel variant where the capture ends there.  A writer
that a release overtakes finds what is left of the defer IO object (`RedirectLate`):
a queue that is still open, one that is closed, or the null pointer, at which it is
`dead`.  Three history variables name what such freezes cost: `exposed` has the
writers that a release overtook unfrozen; `late` the blocks that the defer IO thread
marked, during the last capture, before the map was switched; `missed` those of
earlier captures that no backup has read since.

### TrackerDisk

A control process per partition, and requests that are `entered` (in the fops of
the hook), have `found` a `tracker_disk_t`, or `submit` with a tracker pointer.
A freed object stays in `holds` as `freed`, so that its use shows.  `serial`
chooses, once, whether callers take turns: the driver leaves that to them.
`byBdev` chooses between the two ways the code finds a tracker.

### SnapshotLifecycle

`call[p]` is where a caller is in `snapshot_Create`, its undo, or
`snapshot_Destroy`, with the devices still to do.  `refs` counts snapstores,
snapstore devices and defer IO objects.  `faults` is a set of steps that may
fail, chosen once.  `hollow` has the devices whose tracker could not open them and
stays in the list (`tracker.c:223-225`); a call that finds such a tracker and goes on
to its device does not return, and is not followed.  `Avoided` names things a caller may leave undone; they are
real, and the next section says what happens if a caller does them:
`recapture` (a snapshot of a device that is in one), `readd` (`tracking_add` of a
device whose snapshot exists and whose map is out of action, or of one that
overlaps it), `race` (calls for the same devices at once).  The driver does not see
to it that its callers avoid them.

### SnapstoreStretch

Copiers take blocks step by step from the pool: `take` (flags), `pool`,
`overflow`, `report`, `store`, `level`, `mark`, `ask`.  `cmds`, `holding`, `told`
are the commands in the pipe, in the hands of a reader, and heard.  The service
owns the pipe with one thread; it may die at any time.  `dropped` has the commands for
which there was no memory; a dropped request for a portion leaves it when the service
adds a portion unasked, for that lowers the flag.

### DeferredCopy

`at` is where the thread is: it sends the bios of the `read` stage, waits for
them, does the same for the `store` stage (or copies by itself, `storeMem`), and
frees the request or puts it aside (`parked`).  A bio is `sent`; then its end,
`blk_deferred_complete`, is four steps: the sectors are `added`, the sum is read
and either `all` are there, so that `complete` is called, or not, an error is left
(`compared`), and it is `over`.  `processed`, `done` and `result` are
`sect_processed`, the count of `complete`, and `result`.  A bio may have any
number of the pages of its piece.  `behind` is history: where the thread overtook
the end of the bio; `cut`: it gave up a read in the middle of sending.  The pieces
of a stage end at the ends of the blocks and, when it stores in a file, at the
`Cuts`, where a range of the snapstore ends within a block.

### SparseBitmap and SnapdataCollect

A block of the tree has a level, the two counts, and its bits or elements;
`BLOCK_EMPTY` and `BLOCK_FULL` are the pointers of that name.  `SetIn` is
`_sparse_block_set` with an allocation that may fail at any level, and
`Convert2Rangelist` the walk that makes the ranges, with a `rangelist_add` that
may fail at any range; both keep what the code keeps after a failure.

`SnapdataCollect` knows of a bitmap only what `MapAssumption` says of its constants
(`Maps`, `Bits`, `SetBit`, `Ranges` and so on): a new one is empty; setting a bit sets
it and no other, or nothing when memory lacks for a block; the ranges are those of the
bits, unless the bits are all set.  It says nothing of a bitmap after the array of a
block was lacking, nor of a length beyond `Room`.  `MCSnapdataCollect` gives the
constants the operators of `SparseBitmap`, with all the trees that can be grown for
the length as `Maps` (those that are not well formed would break the assumption), and
TLC evaluates the assumption for each of the trees, bits and failures.

A write is in the hook at `find`, `segments` and `submit`; `found` is the
collector it has a pointer to.  A call is at the step of `_collector_start`,
`collector_stop` or `collector_get` it will do next.  `due`, `seen` and `flaw`
are history: what a collector had to see, what passed it, and what went wrong.

### ImageQueue

A submitter is at `active`, `throttle`, `push` or `leave` in
`_snapimage_submit_bio`; a request is with its user, in the queue, in the
thread, on the devices, in the callback, or answered; `parts` are its bios.
`kernel` is what differs between block layers: whether a stopped queue is seen,
and where new requests begin to be refused.

### CbtStorage

A file is a sequence of pages with cells; a cell remembers what was stored in
it.  One action is one access to a page, so power can fail between any two and
in the middle of one.  `listed` is the list of registers, `stream`, `page`, `pos`,
`buf` and `time` the accessor.  `RegisterDevice` puts a device at the end of the list,
and `UnregisterDevice` takes its first register from it.

### PersistentCbt

One device is one block of its map.  A map object is named by the random number
drawn for it.  `superblock` counts mounts: that is what the checksum can tell.
`known` and `changed` are the service's last backup and whether the device
changed since.  A `Write` needs a mounted file system: a device that is written
without one is outside what the checks of the driver can see.

`storage` is the sequence of the registers that a load would find.  A load leaves them
there and only marks the storage empty (`Emptied`).  A store writes over them from the
front; when it fails or the power does (`StoreCutOff`), what it wrote stands in front
of registers that were there before, of which some may fit behind it, the last one
torn, and a later load takes all of them: `cbt_storage_check` finds that the times
differ (`cbt_storage.c:224`) and `cbt_storage_prepare4read` takes the time of the first
page again (`273-279`).  A map that comes from a register which had been loaded before
has `again` (history).  `Room` bounds the registers in the storage.

## 3. The runs

"pass" runs hold; "violation" runs show a disagreement of the code with what it
says of itself.

### copy_on_write (pass)

Two blocks, three requests (the original's cover block 0 or both, the image
reads both or writes block 0), one empty block in the pool and one portion of one
block, batches of at most two requests.  So the pool runs out in the middle of a
batch or is refilled in time; a batch has two writes of one block; a copy fails
with another one done; the snapshot stops with requests queued.

* `PointInTime`: the image of a snapshot that is not corrupted is the device at
  the capture plus the image's own writes, at every moment, for every block that
  nothing bypassed.
* `ReadsSnapshot`: a block that the image thread is about to return is of that image.
* `NothingLost`: what the queue accepted is submitted, in order, exactly once.
* `DirtyCoversWrites`: every block that changed is marked.
* `CopyBeforeWrite`: no step changes a block of the original that has no copy yet.
* `ImplementsImage`: `CopyOnWrite` implements `PointInTimeImage`, where the image
  of a block is its content while it is trusted, and unknown once given up, and the
  request is the one the image thread has in hand.  So a block that is not given up
  changes in one step only, the end of a pending write of the image, to what this
  write brought; writers of the original, the defer IO thread, copies and portions
  leave it alone.  And an image that was given up does not come back when a portion
  arrives late.

Left out by name is what the code gives up without telling: a block that a write
passed without memory for its request (`bypassed`), one whose read for the copy failed
and which counts as stored all the same (`junk`), and reads that overtake the overflow
between the test of `corrupted` and the lock.

What a read finds is checked at the moment it is submitted.  A read that goes to
the original can be overtaken after that: `snapstore_device_read` submits it and
drops the mutex (`snapstore_device.c:397-413`), nothing counts it, and a deferred
write of the block may reach the device first.

### change_tracking (pass)

One block, two writers, one through a file system and one past it, two writes,
three snapshots, the number wraps after 2, one resize; each freeze may hold the
first writer or fail.  All the interleavings of a write with a capture need one
writer and of two marks two; three snapshots are one that is backed up, one in
which a mark can be lost, and one that a wraparound separates from the first.
Operations treat each block alike, and the proofs are for any number of them.

* `IncrementalIsExact`: a block not reported has the content of the last backup.
  The exception is a block in `missed`: a write between `is_captured = true` and the
  switch of the map (`tracker.c:440-445`), which only a freeze keeps out, is copied for
  the new snapshot and marked with the number from before it, and so is in no
  incremental backup.  This happens to a raw writer (the freeze does nothing for it,
  `blk_util.c:130-133`) and to all of them when the freeze fails.
* `NoStaleDeferIo`: a request that saw `is_captured` finds the defer IO object, but
  for the requests in `exposed`.  Only the freeze of the file system makes it so.
* `AdminFinishes`: a capture and a release end, unless a request has crashed on the
  null pointer; a capture may end where its freeze failed.

### tracker_disk (pass)

A disk with two partitions, each with a control process; a write of a file system
on one and a raw read of the other; at most two hooks allocated.  Two partitions
and two hooks are what the races of find and insert are about.

* `RefsAreExact`: a count is the number of pointers, an object is listed exactly
  while it is counted, in every interleaving of the calls.
* `SerialOneHook`, `TrackedRequestsAreServed`: when callers take turns, a disk has
  one hook, and a request of a tracked partition never passes it by, fails or
  touches freed memory, whatever happens to the other partition.
* `ControlEnds`: calls end, though the freeze waits for requests inside the hook.

The first two are stated for callers that take turns.  Those that do not can give
a disk two hooks: `tracker_disk_create_or_get` looks in one critical section and
inserts in another (`tracker_queue.c:40-53`, `82-116`).

### snapshot_lifecycle (pass), snapshot_second (violation)

A disk `sda`, its partition `sda1`, and two other disks; snapshots of `sda`, of
`sdb` and of `sdc`, `sdb`, `sda1` together; two callers (interchangeable), two
snapshots, one snapstore, three defer IO objects, three images; five groups of
failures: of tracking and overflow check; of CBT map and defer IO object; of an image as a
whole; of its disk and its minor; of freeze and release.  Three devices in one snapshot let a step fail after one
device is done and with another still to do.

In the passing run the callers avoid what `Avoided` names.  What is said here is said of
such callers; what others can do is below.

* `SnapshotIsComplete`: from create to destroy each device is captured for this
  snapshot (`SnapshotIsCaptured`) and has its image (`ImagesAreFound`).
* `OwnershipIsExact`: counts are exact also after every undo (`RefsAreExact`), after
  the last call nothing remains of any snapshot (`NothingIsLeft`), and no sector is
  tracked twice (`TrackersAreDisjoint`), but where a device overlaps several others:
  `tracking_add` removes one tracker (`tracking.c:332-343`,
  `tracker_find_intersection` returns the first), so a disk that is added after its
  two partitions is tracked together with one of them.
* `MembersAreMarked`, violated with `recapture` allowed: a second snapshot of a
  captured device fails, and its undo releases the first one's capture and zeroes
  its mark (`tracker.c:535-543`, `snapshot.c:161-205`).

With `readd` taken out of `Avoided`, TLC finds `SnapshotIsComplete` and
`OwnershipIsExact` violated (a tracker that is replaced drops the defer IO object of
the snapshot), with `race` taken out `SnapshotIsComplete`.  These are things no doc or
comment speaks of, so they are not runs of the project.

Parts of them are stated without some faults, because the code does not take them
back: a failed image creation (`snapimage.c:991` swallows errors,
`snapimage.c:1182` stops one image too early) for `ImagesAreFound` and
`NothingIsLeft`, and a failed release for these two and `RefsAreExact`.

### snapstore_stretch (pass)

Two devices, one whose request needs two blocks and one that needs one; limit 2,
at most two portions of two blocks; one kind of command may be lost for want of
memory.  Two copiers can both find the pool low or empty; portions make the flag
go up and down twice.

* `NoticesAreRight`: while the flag keeps copiers from asking, a request is on its
  way (`FlagMeansAsked`); an overflow is reported once (`OverflowIsReported`).  When
  there was no memory for the request the flag is wrong: `ctrl_pipe_request_halffill`
  drops it (`ctrl_pipe.c:540-543`), its caller has set the flag, and nobody asks any
  more.  `FlagMeansAsked` leaves that time out by name, until the service adds a
  portion by itself; from then on it has to be right again.  An overflow whose report
  was dropped is left out likewise.
* `TerminateIsLast`: nothing follows the report of the end, and nobody sends into a
  released pipe.
* `OverflowIsHeard`: a service that lives hears of the overflow.

### deferred_copy (pass)

One block of two pages, stored in a file in two pieces or in memory; the read may be
one bio or two.  Two bios are the least that can both see the full sum, and two
stages the least for the end of one bio to meet the wait for another.

* `SuccessIsHonest`: a copy taken for good is stored, page for page.  It is not
  always: the end of a bio calls `complete` before it leaves its error
  (`blk_deferred.c:206-213`), and two ends can both see the full sum, so that the
  second `complete` ends the wait of the second stage.  The property names these two
  windows and holds outside of them.
* `FreedAlone`: nothing touches a request that was freed, but for the same windows
  and for a read that finds no memory in the middle of sending and does not wait for
  what it sent (`blk_deferred.c:523-538`).  That a wait given up puts the request
  aside is what makes it so.
* `NoLostWakeup`: when all bios of a stage are over, its completion was called.
* `CopyEnds`: the thread comes out, also when a device never answers.

### snapdata_collect (pass)

A device of eight sectors under a tree of blocks of two elements, so three levels;
two writes at a time and in all, of up to two segments of up to four sectors; two
collectors; a file system or none; a freeze that fails; memory that lacks for a
block, an array or a range.  Two writes and one stop give every interleaving of a
write with the end of a collection; levels are reached by filling half of the tree.

* `LocationIsExact`: the ranges are the sectors at which the pattern went by while
  the collector was at work, no more and no less.  The property names where the code
  fails silently: the result of `sparsebitmap_Set` is dropped
  (`snapdata_collect.c:498-515`); an array that was allocated for a block that could
  not be is left (`sparse_bitmap.c:257-275`); a full root makes one range of the
  size of an element (`433-442` with `465-466`); `_calc_level` drops remainders
  (`348-356`), so that some lengths, such as 5 here, give a tree too low for two
  sectors to be told apart; the loop over a leaf overwrites the error of
  `rangelist_add` (`409-431`); the offset of a segment in its page is added to the
  sector (`snapdata_collect.c:492-496`).
* `CollectorsAreKept`: a collector is not freed under a write that found it, though
  `snapdata_collect_Find` takes no reference: the freeze in `collector_stop` waits for
  the write.  Without a file system, or when the freeze fails (it is only logged),
  nothing does.  And the lists and the references on the hook agree between calls.

### image_queue (pass)

A read and a write of up to two bios each, one open file, one write of the
original that throttles, two kinds of kernel, an overflow at any time.

* `AnswersAreHonest`: one answer, and an error if a bio failed.
* `ImageOutlivesRequests`: at the end of a destruction nobody is inside.
* `RequestsAndDestroyEnd`: requests and destructions end.

A callback may still run when the image is freed (`blk_redirect.c:502` frees the
content first and calls back after that, and the stop waits for contents only):
`ImageOutlivesRequests` leaves that window out by name.

### cbt_storage (pass), cbt_storage_read (violation)

Five pages of three cells, maps of four cells, so that each map goes over the end
of a page and a store of two devices fills all five; two stores.

* `LoadedOnce`: the time of a store starts one load at most, wherever power fails;
  the load of a finished store brings back no cell of an older one; and a torn
  page stops loads and stores.  Of a store that was not finished it does not say the
  second: behind its pages the registers of an older store are loaded, whether or not
  they had been loaded before (`cbt_storage.c:224`, `273-279`).  What that means for
  backups is in `persistent_cbt`.
* `FinishedStoreIsRead`: the reader of a finished store gets its registers in
  order, up to the first that reports an error.
* `ReadsWhole`, violated: later pieces of a field are copied to the start of the
  destination (`cbt_storage.c:362-363`).

### persistent_cbt (pass)

One device, four maps, one mount, the number wraps after 2, room for two registers
in the storage.  A stale register needs two maps, a duplicate a third, a reload of
both a fourth; two registers are the least for a store that is cut off in front of an
old one.  One mount tells apart a file system that was mounted since and one that was
not, which is all that the checks compare.

* `IncrementalIsSound`: when the generation the driver reports is the one of the
  service's last backup, a device that changed is reported.  This holds although
  the module start gives loaded maps to trackers without any check
  (`cbt_persistent.c:657-680`), although a register that exists is kept when a
  tracker is made anew (`824-829`), and although loads add duplicates.  The reason
  is what the mutant takes away: the stored data has no `generationId_previous`,
  so a loaded map reports a random generation until the number wraps.  The same
  fact means that an incremental backup never continues over a reload.

  The exception is a register that is loaded again behind a store that was cut off.
  Two maps then go on from one stored generation, one after the other.  If it had
  not been through a snapshot when it was stored, the first snapshot of each reports
  it, and the second has no mark of what changed since a backup made from the first.  The
  property leaves out maps that were loaded again and backups made of such.
  The contents of the maps are taken to be read as they were written
  (`cbt_storage_read` shows that they are not).

## 4. Fairness

`copy_on_write`, `snapshot_lifecycle`, `snapdata_collect`, `cbt_storage` and
`persistent_cbt` check safety only and assume none.

* `ChangeTracking`: weak fairness of each writer inside the hook, of the defer IO
  thread and of a capture or release that has begun: they are running code on a
  scheduler.  Nobody has to start, and no freeze has to succeed or to fail.
* `TrackerDisk`: weak fairness of calls and requests that have begun.
* `SnapstoreStretch`: weak fairness of copiers and of the service's calls, while
  it lives.  Strong fairness of a read of the pipe that succeeds: a service whose
  buffer is too small tries again with a larger one (`ctrl_pipe.c:80-140` puts the
  command back), so reads that could succeed are not put off for ever.
* `DeferredCopy`: weak fairness of the thread, `Copier`: it runs on a scheduler, and
  the timer of `wait_for_completion_timeout` ends its wait.  Nothing is assumed of
  the devices.
* `ImageQueue`: weak fairness of `Progress`, the disjunction of what the
  submitters, the threads, the bios and the destruction can do.  None of them can
  go on for ever without the others, so one step of any is enough.

`CHECK_DEADLOCK FALSE` is in every configuration: all the systems may rest, with
no request and no call, or at a bound.

## 5. The proofs

Each proof module has an inductive invariant, or two (`IInv`, `FileInv`,
`CollectInv`), that TLC checked on the instance of the run before it was proved.  Beside it stand the assumptions on
the constants that the model declares (`CowAssumption` and so on; numbers are
natural, sets that are counted finite, bounds not zero), which TLC evaluates on each
run.  Nothing else is assumed, but for the theorems about `SnapshotLifecycle`, which
say so and assume what its run does.  So the
theorems hold for every number of devices, blocks, pages, requests, bios, commands,
maps, snapshots, callers, and every bound.  `MapAssumption` is of another kind: it
is what `SnapdataCollect` relies on of its bitmap, which TLC evaluates for the trees of
the run and nothing proves of `SparseBitmap` in general.

| module | theorem | statement |
|---|---|---|
| `CopyOnWriteProofs` | `TypeCorrect`, `InvariantHolds` | `Spec => []TypeOK`, `Spec => []IInv` |
| | `ImageIsPointInTime` | `Spec => []PointInTime` |
| | `ChangesAreMarked` | `Spec => []DirtyCoversWrites` |
| | `ReadsAreConsistent` | `Spec => []ReadsSnapshot` |
| | `Refinement` | `Spec => ImplementsImage` |
| | `CopiesAreMadeFirst` | `Spec => CopyBeforeWrite` |
| | `RequestsKeepTheirOrder` | `Spec => []NothingLost` |
| `ChangeTrackingProofs` | `TypeCorrect` | `Spec => []TypeOK` |
| | `DeferIoIsThere` | `Spec => []NoStaleDeferIo` |
| | `BackupsAreExact` | `Spec => []IncrementalIsExact` |
| `TrackerDiskProofs` | `TypeCorrect` | `Spec => []TypeOK` |
| | `RefsCounted` | `Spec => []RefsAreExact` |
| | `SerialCallersKeepOneHook` | `Spec => []SerialOneHook` |
| | `RequestsServed` | `Spec => []TrackedRequestsAreServed` |
| `SnapshotLifecycleProofs` | `TypeCorrect` | `Careful` gives `Spec => []TypeOK` |
| | `SnapshotsAreComplete` | `Careful` gives `Spec => []SnapshotIsComplete` |
| | `OwnershipExact` | `Careful` gives `Spec => []OwnershipIsExact` |
| `SnapstoreProofs` | `TypeCorrect` | `Spec => []TypeOK` |
| | `NoticesRight` | `Spec => []NoticesAreRight` |
| | `TerminateLast` | `Spec => []TerminateIsLast` |
| | `CollectInvariant`, `CollectTypeCorrect` | `CollectSpec => []CollectInv`, `CollectSpec => []CollectTypeOK` |
| | `LocationExact` | `CollectSpec => []LocationIsExact` |
| | `CollectorsKept` | `CollectSpec => []CollectorsAreKept` |
| `DeferredCopyProofs` | `TypeCorrect` | `Spec => []TypeOK` |
| | `WaiterIsWoken` | `Spec => []NoLostWakeup` |
| | `FreedWhenUnused` | `Spec => []FreedAlone` |
| | `CopiesAreHonest` | `Spec => []SuccessIsHonest` |
| `ImageQueueProofs` | `TypeCorrect` | `Spec => []TypeOK` |
| | `AnswersHonest` | `Spec => []AnswersAreHonest` |
| | `ImageIsFreedLast` | `Spec => []ImageOutlivesRequests` |
| `PersistentCbtProofs` | `TypeCorrect` | `Spec => []TypeOK` |
| | `IncrementalSound` | `Spec => []IncrementalIsSound` |
| | `FileInvariant`, `FileTypeCorrect` | `FileSpec => []FileInv`, `FileSpec => []FileTypeOK` |
| | `StoredDataIsLoadedOnce` | `FileSpec => []LoadedOnce` |
| | `FinishedStoreIsReadBack` | `FileSpec => []FinishedStoreIsRead` |

### CopyOnWrite

`PointInTime` is not inductive.  It says that the copy of a block, or the
original if there is none, is the snapshot's content; to keep it while a write is
submitted one has to know that the blocks of the write are stored by then, and
while a copy is read that nobody writes the original meanwhile.  So `IInv` adds:

* `LockInv`: the mutex belongs to the thread between its lock and unlock;
* `RequestInv`: a block waits for its copy only while the holder of the mutex is
  at the stage that the state of the block names, so no other thread finds a
  half-made copy;
* `BatchInv`: all blocks of the writes in the batch are stored, unless the thread
  stops or the device is corrupted;
* `StopInv`: the image stops before the release, the release before the thread,
  so there is no image once copies have ended;
* `ImageWriteInv`: a write to the image marked its blocks before it copies them,
  which `DirtyCoversWrites` needs.

The proof that steps preserve it has one part for the
defer IO thread, one for the image thread and one for the users, with a lemma for
each operator the actions share (`PrepareCopy`, `CopyKeepsInvariant`,
`SubmitKeepsImage`, `SubmitMarks`, `BatchKept`, `ImageKept`).  `Refinement` uses
`IInv` and `PendingInv`, which says when the image thread has a request and of which
kind.  It maps `ImageRequest` to `Ask`, the end of a read to `Read`, the last step of a
write to `Write`, a write that fails to `WriteFails`, each other step that disturbs the
image to `GiveUp` (lemma `OnlyGivesUp`), and the rest to a stutter.
`CopiesAreMadeFirst` is an action property that follows from `IInv` step by step
(lemma `CopiesComeFirst`).  `NothingLost` needs `BatchIsOver` beside it: the thread
drains the queue only when its batch is empty.  Lemma `OrderKept` regroups the three
sequences at each step that moves a request.

### ChangeTracking

`NoStaleDeferIo` compares two pieces of state that the code changes in two steps
(`defer_io` and `is_captured`, `tracker.c:431-442`).  `AdminInv` says why no request
is between: `Phases` gives both flags and the freeze at each point of the capture and
of the release, `Stillness` that a writer which saw `is_captured` has the object
around it unless a release overtook it unfrozen, and `ThreadHasRequest` that the
thread is at work for a request of its queue.  Nothing is asked of the freezes.

`IncrementalIsExact` is about a map that three actors change and that was switched
some snapshots ago.  `BackupInv` carries it through: `NumbersInOrder` (a backup of a
generation that goes on is older than the active number, which is where a wraparound
without a new generation would break it), `CapacitiesInOrder` (a map that is still in
action was made for the device's capacity, or the backup was made before the resize),
`MarkedBeforeSubmit` (a write that is about to reach the device has its mark in the
active number), and three forms of the property itself: an unmarked block is as the
last backup read it (`BackupOfDevice`), as the snapshot found it (`ImageOfDevice`),
and so the image is as the backup (`BackupOfImage`).  Each of the three leaves out the
blocks in `late` and `missed`, and those that the thread has copied and has still to
mark (`Pending`, `Owing`): the map can be switched between the two.

### TrackerDisk

`CountInv` is `RefsAreExact` with what the pointers of each partition can be at each
step of `tracking_add` and `tracking_remove` (`PointersInv`) and that the list is
without duplicates (`ListInv`); it does not ask callers to take turns.  Counting is
done by one lemma: when one pointer moves from a disk to another, one count goes
down by one and one up.  `SerialInv` is for callers that take turns: one is inside a
call (`OneAtATime`), the only hook keeps the driver's fops and no other comes between
the look for it and its insertion (`HookInv`), and a request that has to be served
holds the hook and the tracker of its partition (`ServedInv`).

### SnapshotLifecycle

The theorems assume `Careful`: callers avoid what `Avoided` names in the run
(`MembersAreMarked` shows that they have to).  What can fail, in how many calls at
once, is left open.  `IInv` has four groups, proved one after the other, each from
those before it.

* Control (`ControlInv`): calls under way have snapshots of their own, and go
  through what is left of its devices; snapshots share no device and no sectors; a
  listed snapshot is not being destroyed.
* Trackers (`TrackersInv`): for each call and each of its loops, what is done for the
  devices behind it (`CallCaptured`, `CallReleased`), so that a created snapshot is
  captured, and a captured device belongs to a snapshot.  Lemma `PhasesKept` says that a
  step of one call leaves the devices of the others alone; `AddEffect` is the place
  where `tracking_add` removes other trackers.
* Images (`ImagesInv`): a device has one image at most, made and destroyed at its turn.
* Counts (`CountsInv`): each count is the number of owners, where a set of owners is
  a set of devices, of objects, or of positions in a list.  `AtAppend` and `AtRemove`
  count positions; `PutDeferEffect` and `PutStoreDeviceEffect` follow a reference
  that is put down to the snapstore.  A release that failed leaves trackers
  captured that `tracking_add` later drops, so with it counts are only not too small
  (`DefersInv`); without it, that nothing is dropped follows from the second group
  (`DropsNothing`).

Beside them `HollowInv`, that a device has one tracker, hollow or not, is all that
`TypeCorrect` needs of the trackers that could not open their device.

### SnapstoreStretch

What is in the pipe, in a reader's hands and heard is one sequence, `Sent`.  `IInv`
has the references as numbers of holders (`HoldsInv`), what cannot be before the
pipe is attached or after it is closed (`PhasesInv`), that after `terminate` comes
`closed` only (`SentInv`: what keeps it is that `terminate` is sent by the last to let
go of the snapstore, so no copier is left to send), and the two parts of the
property with the fact that nobody reports an overflow before there is one
(`NoticesInv`).

### DeferredCopy

`NoLostWakeup` is about a sum that many ends of bios add to.  No sum over the bios
is needed: the pages of a stage's bios do not meet and cover what was sent
(`CoverInv`), so the sectors counted are as many as the pages of the bios that were
added (`CountInv`), and a full sum means that all were (lemma `FullSum`), and the
other way round (`SumIsFull`).  `WakeInv` says that while the sum is full a completion
was called or an end is still to do so, and that there is no completion before, but
from an end that was overtaken with the full sum in hand; that end is what can
end the second stage too early.  `BehindInv` and `SettledInv` say which ends of bios the thread may
have overtaken at each point, `DataInv` what the bios that did not fail have brought;
with them `FreedAlone` and `SuccessIsHonest` are inductive, and the two windows that
these properties name are shown to be the only ones.

### ImageQueue

Each request has its parts in balance with the count (`RequestOK`, for all of them
`RequestInv`); the queue has the requests that are in it (`QueueInv`); the counters
are between what the requests account for (`CountsInv`: `own_cnt` is not exact, for
a content that cannot be pushed leaves its hold behind); and `PhasesInv` relates the
thread, the disk and the destruction, differently for the two kinds of kernel.

### PersistentCbt

The invariant is stated of registers, trackers, maps and entries as arguments
(`Good`), because a load builds new ones register by register, which the proof follows
one by one.  `IncrementalIsSound` rests on `Apart`: a generation belongs to one map
or to one entry in the storage, among those that were not loaded `again`, so a loaded
map reports a generation that nobody has backed up until it has been through a
snapshot.  That a store keeps this, whole or cut off at any register with old ones
behind it, is `EntriesAreStored` and `CutOffIsStored`: what was stored is new and comes
from different maps, what is behind it was in the storage, and a load marks as `again`
all that it takes (`EmptiedEntries`).  `Checksums` says when a register's
checksum is still that of the file system, `Holders` who may hold a map, `InOrder`
and `Reporting` relate numbers and marks to the last backup as `BackupInv` does.

### CbtStorage

`FileInv` is proved part by part, each from those before it.

* `CheckedInv`: only a module that comes up or goes down looks at the pages, and
  after a check that failed it neither loads nor stores.
* `ClaimInv`: the time marker of the first page is the claim on a load.  Each store has
  a time of its own (they are numbered); the load takes the marker away before it reads
  on, and what was loaded is older than any marker that comes later.  From this the
  first part of `LoadedOnce` follows.  Between, a store that has written its first page and
  failed leaves a marker that is not the one of a finished store.
* `ContentInv`: a store has written the beginning of its stream, page by page, and
  has the rest in hand (`MatchesOneMore`, `RestOfStream`); so the whole stream of a
  finished store is in the file as long as its marker, or a load of it, lives.
* `ReadInv`: a load of a finished store has read the registers that were stored, in
  their order, and is at the start of the next (`FindsRegister`); `FinishedStoreIsRead`
  is its last step.  What the maps contain it leaves open, but for cells of the map
  that was stored or blanks, as the code does.

A stream is the concatenation of the cells of its entries.  That the register after
the first `n` begins where their cells end (`StreamShape`, `PlaceOf`) is an induction over
the entries; it is done here by the least number for which it would be false
(`LeastOne`, from the well-foundedness of `<`), which needs no induction theorem with
an operator as its parameter.

### SnapdataCollect

`CollectorsAreKept` is about writes that hold a pointer to a collector with no
reference.  `ListsInv` has the lists: each collector that is there is on one of them,
or is the one that is just started, and what is stopped is the first of the active
ones.  `HookInv` says that a write with a collector keeps it among the active ones:
once its hook is put the file system is frozen and no write is inside, until the
collector is on the other list; or it was stopped with nothing frozen (`bare`).

`LocationIsExact` relates a set kept by several writes, bit by bit, to what
went by.  `BitsInv` holds at each step between: the bits are between what the
collector had to see and what it saw, where a write that is at its segments has still
the sectors of these to set.  `MustInv` says which collector a write has to meet:
the first one when it entered, as long as this is active; others are put behind it
(`OnAppend`), and a collector that was freed is never used again.  `SeenInv` bounds
what was seen by the device and says when a map can be trusted.  That a segment sets the
bits of its sectors and no others (`SetAllWell`) goes bit by bit with
`MapAssumption`, again by the least bit for which it would be false.  The theorem
covers any number of writes of any number of segments, lengths of the device, and
collectors, of which the run has two each.

### Only model-checked

* Liveness (`AdminFinishes`, `ControlEnds`, `OverflowIsHeard`,
  `RequestsAndDestroyEnd`, `CopyEnds`): fairness and `ENABLED` are beyond the prover.
* `MembersAreMarked` of `SnapshotLifecycle` is what the code does not keep.
* `SparseBitmap`: the tree is recursive (`RECURSIVE` operators), and what it computes
  is a matter of induction over its levels.  That it does what `MapAssumption` says
  TLC evaluates for every tree of three levels that can be grown, every bit and every
  failure, not for the trees of the driver.

## 6. What the models leave out

* The calls to `snapdata_collect.c` come one at a time and for one device.  Two of
  them at once would both stop the collector they found
  (`snapdata_collect.c:184-199` tests and clears `tr_disk` under no lock).
  `sparsebitmap_Get` and clearing a bit have no caller.  Of a write's data a segment
  has only which of its sectors begin with the pattern.
* In `CopyOnWrite` a copy is read in one step and stored in another.
  `DeferredCopy` has the bios, but the two are not composed: the windows in which a
  failed copy is taken for a good one are those of `SuccessIsHonest`.
* `snapstore_create` that fails leaves an empty snapstore
  (`snapstore.c:120-133`).
* `TrackerRemove` of `ChangeTracking` waits until no request is inside the hook; the
  code has a freeze for that, which can fail there too.  What a request meets when it
  does not wait is followed for the release only.
* Before Linux 4.4 the block layer does not count who is inside a `make_request_fn`
  (`snapimage.c:651-658`): these kernels are not among the `Kernels` of `ImageQueue`.
* Hazards without a property (`PROJECT.json` has a note for each): those that a model
  reaches and that the code runs into, which the properties leave out by name so that
  they can say what holds otherwise; those of callers that do not take turns or do what
  `Avoided` names; and the two that no model has, the lock that stays held
  (`cbt_persistent.c:452`) and the callback after the image is freed
  (`blk_redirect.c:502`), of which `ImageQueue` lets the callback outlive the image.
* A store of registers that finds no memory returns with the list locked
  (`cbt_persistent.c:452-453`).
* Two readers of one pipe would take commands off the list under a shared lock
  (`container.c:206-213`); the service reads from one thread, and so does the model.
* The service sends no portion for a snapstore that it is destroying; the driver
  looks the snapstore up without a reference (`snapstore.c:232`).
* `add_disk` that fails in the thread of an image ends the thread before it is
  told to stop.
* `own_cnt` of an image that refuses a request is never put back, and nothing
  waits for it.
* In `PersistentCbt` the attach of a device is one step (the check of the file
  system and the start of the tracker are two in the code), and memory is there.  A
  load reads all registers or none: a page that fails in the middle of one is in
  `CbtStorage` only.  What of a register lies in which page is abstracted: a store is
  cut off between two registers or within the map of one.
* The parser of parameters, sysfs, logging, symbols and the build: no state that
  another part depends on.

Things the code does otherwise than it says, met on the way and not the subject
of a run: `defer_io.c:171` says "waiting for all sent request complete", and only
submits them; `cbt_notify.c` looks a device up by comparing pointers to its name,
so a detach never finds it; a device that is mounted at shutdown stores a
register of an error, which ends the load of those behind it
(`cbt_persistent.c:126-163`); `cbt_storage.c:224` logs that data of two stores is
skipped, and the load that follows (`273-279`) takes the time again and loads it;
`tracking.c:316` says "check space already under tracking", and removes only the first
of the trackers that it finds there (`tracker.c:80-117`).

## 7. Plan

In this order: the most important behaviour first.

1. Done: `CopyOnWrite` with its abstract specification and proofs;
   `ChangeTracking`; `TrackerDisk`; `SnapshotLifecycle`; `SnapstoreStretch`;
   `ImageQueue`; `CbtStorage`; `PersistentCbt`; `DeferredCopy`; `SparseBitmap` and
   `SnapdataCollect`.
   Proofs about `CopyOnWrite`, `ChangeTracking`, `TrackerDisk`, `SnapshotLifecycle`,
   `SnapstoreStretch`, `DeferredCopy`, `ImageQueue`, `PersistentCbt`, `CbtStorage` and
   `SnapdataCollect`: all safety properties of their runs that pass.
2. Proofs: `TypeOK` of `SnapshotLifecycle` without `Careful`.
3. `PersistentCbt` finer: the attach in two steps, racing with a mount and with
   `tracking_add`; the lock left held; faults of memory.
4. `RangeVector` (the ranges of zeroes of an image) as operators.
5. The undo of module start (`veeamsnap_main.c`); a load of `PersistentCbt` that ends
   in the middle; the removal of a tracker in `ChangeTracking` with a freeze that fails.
