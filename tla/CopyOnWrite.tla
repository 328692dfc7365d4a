----------------------------- MODULE CopyOnWrite -----------------------------
(***************************************************************************)
(* One captured block device of veeamsnap.  Writers of the original device *)
(* are redirected into the defer IO queue (defer_io.c); the defer IO       *)
(* thread copies the blocks a write is about to overwrite into the         *)
(* snapstore (snapstore_device.c, snapstore.c) and only then submits the   *)
(* write; the thread of the snapshot image reads, and writes, the image    *)
(* through the same map of stored blocks, under the same mutex.            *)
(*                                                                         *)
(* Data is abstract: the content of a block is the number of the request   *)
(* that last wrote it, 0 being what it held when the snapshot was taken.   *)
(* A write takes effect when it is submitted.  A read of the image that    *)
(* goes to the original device is only submitted under the locker; until   *)
(* it completes, its blocks are in flying.                                 *)
(***************************************************************************)
EXTENDS Integers, Sequences, FiniteSets

CONSTANTS
  LastBlock,      \* the device holds the snapstore blocks 0 .. LastBlock
  MaxIo,          \* bound: requests issued, to the original and to the image
  PoolBlocks,     \* empty blocks in the snapstore when the snapshot is taken
  PortionBlocks,  \* blocks that one further portion of the snapstore adds
  MaxPortions,    \* bound: portions that user space adds
  EmptyLimit,     \* snapstore->empty_limit, in blocks
  MaxDios,        \* DEFER_IO_DIO_REQUEST_LENGTH
  MaxDioBlocks,   \* DEFER_IO_DIO_REQUEST_SECTORS_COUNT, in blocks
  OrigRequests,   \* the requests that users make to the original device
  ImageRequests   \* the requests that users make to the snapshot image

Blocks == 0 .. LastBlock
Values == 0 .. MaxIo
NoData == -1                      \* what a store block holds before it is written
Ranges == {lo .. hi : lo, hi \in Blocks} \ {{}}
Request == [write : BOOLEAN, blks : Ranges]

ASSUME CowAssumption ==
  /\ LastBlock \in Nat
  /\ MaxIo \in Nat
  /\ PoolBlocks \in Nat
  /\ PortionBlocks \in Nat
  /\ MaxPortions \in Nat
  /\ EmptyLimit \in Nat
  /\ MaxDios \in Nat \ {0}
  /\ MaxDioBlocks \in Nat \ {0}
  /\ OrigRequests \subseteq Request
  /\ ImageRequests \subseteq Request

VARIABLES
  orig,        \* content of the original device
  copy,        \* store_block_map and the progress of each block's copy
  store,       \* content of the copy of a block
  corrupted,   \* snapstore_device->corrupted
  locker,      \* who holds store_block_map_locker
  empty,       \* blocks left in the pool of the snapstore
  overflowed,  \* snapstore->overflowed
  halffilled,  \* snapstore->halffilled
  portions,    \* portions added so far
  captured,    \* tracker->is_captured
  entering,    \* requests that saw is_captured and are not yet redirected
  queue,       \* defer_io->dio_queue
  queueActive, \* its active_state
  inProcess,   \* queue_in_process of the defer IO thread
  dios,        \* dios_count of _defer_io_copy_prepare
  dioBlocks,   \* dios_sectors_count of _defer_io_copy_prepare, in blocks
  pc,          \* control state of the defer IO thread and the image thread
  stop,        \* kthread_should_stop() of the defer IO thread
  imaging,     \* the snapshot image serves requests
  ireq,        \* the request that the image thread processes
  flying,      \* blocks of image reads on their way to the original device
  dirty,       \* blocks the CBT map marks since the capture
  nextIo,      \* number of the next request
  snap,        \* history: what the image of every block must be
  bypassed,    \* history: blocks overwritten without a copy
  received,    \* history: requests the queue accepted, in order
  submitted    \* history: those of them submitted to the device, in order

originVars == <<orig, dirty, captured, entering, nextIo>>
storeVars  == <<copy, store, corrupted, locker>>
poolVars   == <<empty, overflowed, halffilled, portions>>
queueVars  == <<queue, queueActive, inProcess, dios, dioBlocks, stop>>
imageVars  == <<imaging, ireq, flying>>
history    == <<snap, bypassed, received, submitted>>
vars == <<originVars, storeVars, poolVars, queueVars, imageVars, history, pc>>

Bio == [id : 1 .. MaxIo, write : BOOLEAN, blks : Ranges]
NoRequest == [id |-> 0, write |-> FALSE, blks |-> {}]

Defer == "defer"                  \* the defer IO thread
Image == "image"                  \* the thread of the snapshot image
Actors == {Defer, Image}
Free  == "free"

-----------------------------------------------------------------------------
(* The map of stored blocks.                                               *)
(*   none   no descriptor for the block                                    *)
(*   asked  a descriptor, and the block is in the pending copy request     *)
(*   read   the original content is in the buffer of the copy request      *)
(*   done   the snapstore holds the content                                *)
(*   junk   a descriptor whose block was never filled                      *)

CopyState == {"none", "asked", "read", "done", "junk"}

Stored(b) == copy[b] # "none"

Asked == {b \in Blocks : copy[b] = "asked"}

Missing(blks) == {b \in blks : ~Stored(b)}

(* The content a block of the image stands for: the copy once there is     *)
(* one, else the original.                                                 *)
View(b) == IF copy[b] \in {"read", "done"} THEN store[b] ELSE orig[b]

(* Blocks of the image that neither a failed read of the original nor an   *)
(* uncopied write has touched.                                             *)
Trusted(b) == copy[b] # "junk" /\ b \notin bypassed

Advance(from, to) == [b \in Blocks |-> IF copy[b] = from THEN to ELSE copy[b]]

TakeLock(a) == locker = Free /\ locker' = a

-----------------------------------------------------------------------------
Init ==
  /\ orig = [b \in Blocks |-> 0]
  /\ copy = [b \in Blocks |-> "none"]
  /\ store = [b \in Blocks |-> NoData]
  /\ corrupted = FALSE
  /\ locker = Free
  /\ empty = PoolBlocks
  /\ overflowed = FALSE
  /\ halffilled = FALSE
  /\ portions = 0
  /\ captured = TRUE
  /\ entering = {}
  /\ queue = <<>>
  /\ queueActive = TRUE
  /\ inProcess = <<>>
  /\ dios = 0
  /\ dioBlocks = 0
  /\ pc = [a \in Actors |-> "idle"]
  /\ stop = FALSE
  /\ imaging = TRUE
  /\ ireq = NoRequest
  /\ flying = {}
  /\ dirty = {}
  /\ nextIo = 1
  /\ snap = [b \in Blocks |-> 0]
  /\ bypassed = {}
  /\ received = <<>>
  /\ submitted = <<>>

-----------------------------------------------------------------------------
(* Requests of the original device: tracking_make_request.                 *)

(* Mutant: the last block of a request is not marked.                      *)
SubmitMutant(bio) ==
  IF bio.write
  THEN /\ orig' = [b \in Blocks |-> IF b \in bio.blks THEN bio.id ELSE orig[b]]
       /\ dirty' = dirty \cup {b \in bio.blks : b + 1 \in bio.blks}
  ELSE UNCHANGED <<orig, dirty>>

(* The effect of handing a request to the device: the CBT map is marked    *)
(* and the device takes the new content.                                   *)
Submit(bio) ==
  IF bio.write
  THEN /\ orig' = [b \in Blocks |-> IF b \in bio.blks THEN bio.id ELSE orig[b]]
       /\ dirty' = dirty \cup bio.blks
  ELSE UNCHANGED <<orig, dirty>>

(* The request bypasses the defer IO queue.                                *)
LowLevel(bio) ==
  /\ Submit(bio)
  /\ bypassed' = IF bio.write
                 THEN bypassed \cup {b \in bio.blks : copy[b] \in {"none", "asked"}}
                 ELSE bypassed

(* A request that finds the device captured goes on to the queue.          *)
Enter(write, blks) ==
  /\ nextIo <= MaxIo
  /\ captured
  /\ entering' = entering \cup {[id |-> nextIo, write |-> write, blks |-> blks]}
  /\ nextIo' = nextIo + 1
  /\ UNCHANGED <<orig, dirty, captured, storeVars, poolVars, queueVars,
                 imageVars, history, pc>>

(* A request that finds it not captured goes to the device.                *)
PassThrough(write, blks) ==
  /\ nextIo <= MaxIo
  /\ ~captured
  /\ LowLevel([id |-> nextIo, write |-> write, blks |-> blks])
  /\ nextIo' = nextIo + 1
  /\ UNCHANGED <<captured, entering, storeVars, poolVars, queueVars, imageVars,
                 snap, received, submitted, pc>>

(* defer_io_redirect_bio succeeds.                                         *)
Redirect(bio) ==
  /\ bio \in entering
  /\ ~corrupted
  /\ queueActive
  /\ queue' = Append(queue, bio)
  /\ received' = Append(received, bio.id)
  /\ entering' = entering \ {bio}
  /\ UNCHANGED <<orig, dirty, captured, nextIo, storeVars, poolVars,
                 queueActive, inProcess, dios, dioBlocks, stop, imageVars,
                 snap, bypassed, submitted, pc>>

(* defer_io_redirect_bio fails: the snapshot is corrupted, the queue is    *)
(* closed, or there is no memory for the queue element, which can happen   *)
(* at any time.  The request then goes straight to the device.             *)
RedirectFails(bio) ==
  /\ bio \in entering
  /\ LowLevel(bio)
  /\ entering' = entering \ {bio}
  /\ UNCHANGED <<captured, nextIo, storeVars, poolVars, queueVars, imageVars,
                 snap, received, submitted, pc>>

-----------------------------------------------------------------------------
(* Copying blocks into the snapstore, by whoever holds the locker: the     *)
(* defer IO thread for its batch, the image thread for its own write.      *)

AfterCopy(a) == IF a = Defer THEN "finish" ELSE "unlock"

(* Mutant: nobody asks whether the pool has a block left.                  *)
PrepareRequestsMutant(blks) ==
  /\ ~overflowed
  /\ empty' = empty - Cardinality(Missing(blks))
  /\ copy' = [b \in Blocks |-> IF b \in Missing(blks) THEN "asked" ELSE copy[b]]
  /\ UNCHANGED <<store, corrupted, overflowed, halffilled, portions>>

(* snapstore_device_prepare_requests succeeds: every block that the range  *)
(* touches and that is not stored gets a descriptor and joins the request. *)
PrepareRequests(blks) ==
  /\ Missing(blks) # {} => ~overflowed /\ Cardinality(Missing(blks)) <= empty
  /\ empty' = empty - Cardinality(Missing(blks))
  /\ copy' = [b \in Blocks |-> IF b \in Missing(blks) THEN "asked" ELSE copy[b]]
  /\ UNCHANGED <<store, corrupted, overflowed, halffilled, portions>>

(* snapstore_device_prepare_requests fails at block k: the pool is used up *)
(* ("pool"), the descriptor does not fit the map ("map"), or there is no   *)
(* memory for the copy ("alloc").  The copy request is dropped.            *)
PrepareRequestsFail(blks) ==
  \E k \in Missing(blks), cause \in {"pool", "map", "alloc"} :
    LET before == {b \in Missing(blks) : b < k}
        mapped == IF cause = "alloc" THEN before \cup {k} ELSE before
        taken  == Cardinality(before) + (IF cause = "pool" THEN 0 ELSE 1)
    IN /\ taken <= empty
       /\ overflowed => cause = "pool" /\ before = {}
       /\ cause = "pool" => overflowed \/ taken = empty
       /\ empty' = empty - taken
       /\ overflowed' = (overflowed \/ cause = "pool")
       /\ copy' = [b \in Blocks |-> IF b \in mapped \cup Asked THEN "junk" ELSE copy[b]]
       /\ corrupted' = TRUE
       /\ UNCHANGED <<store, halffilled, portions>>

(* blk_deferred_request_read_original fills the buffers of the request.    *)
ReadOriginal(a) ==
  /\ pc[a] = "read"
  /\ store' = [b \in Blocks |-> IF b \in Asked THEN orig[b] ELSE store[b]]
  /\ copy' = Advance("asked", "read")
  /\ pc' = [pc EXCEPT ![a] = "store"]
  /\ UNCHANGED <<originVars, corrupted, locker, poolVars, queueVars, imageVars,
                 history>>

(* ... or fails: an I/O error, or no answer within a minute.  Nobody marks *)
(* the snapstore device as corrupted.                                      *)
ReadOriginalFails(a) ==
  /\ pc[a] = "read"
  /\ copy' = Advance("asked", "junk")
  /\ pc' = [pc EXCEPT ![a] = AfterCopy(a)]
  /\ UNCHANGED <<originVars, store, corrupted, locker, poolVars, queueVars,
                 imageVars, history>>

(* snapstore_request_store asks user space for space before it stores.     *)
CheckHalffill == halffilled' = (halffilled \/ empty < EmptyLimit)

(* snapstore_device_store writes the buffers to the snapstore.             *)
StoreCopy(a) ==
  /\ pc[a] = "store"
  /\ CheckHalffill
  /\ copy' = Advance("read", "done")
  /\ pc' = [pc EXCEPT ![a] = AfterCopy(a)]
  /\ UNCHANGED <<originVars, store, corrupted, locker, empty, overflowed,
                 portions, queueVars, imageVars, history>>

StoreCopyFails(a) ==
  /\ pc[a] = "store"
  /\ CheckHalffill
  /\ copy' = Advance("read", "junk")
  /\ corrupted' = TRUE
  /\ pc' = [pc EXCEPT ![a] = AfterCopy(a)]
  /\ UNCHANGED <<originVars, store, locker, empty, overflowed, portions,
                 queueVars, imageVars, history>>

CopyStep(a) ==
  \/ ReadOriginal(a)
  \/ ReadOriginalFails(a)
  \/ StoreCopy(a)
  \/ StoreCopyFails(a)

-----------------------------------------------------------------------------
(* The defer IO thread: defer_io_work_thread.                              *)

DeferLock ==
  /\ pc[Defer] = "idle"
  /\ queue # <<>>
  /\ TakeLock(Defer)
  /\ pc' = [pc EXCEPT ![Defer] = "prepare"]
  /\ UNCHANGED <<originVars, copy, store, corrupted, poolVars, queueVars,
                 imageVars, history>>

RoomInBatch == queue # <<>> /\ dios < MaxDios /\ dioBlocks < MaxDioBlocks

(* Mutant: the batch is built in reverse.                                  *)
PopDioMutant ==
  /\ pc[Defer] = "prepare"
  /\ RoomInBatch
  /\ queue' = Tail(queue)
  /\ inProcess' = <<Head(queue)>> \o inProcess
  /\ UNCHANGED <<queueActive, stop>>

(* One turn of the loop of _defer_io_copy_prepare.                         *)
PopDio ==
  /\ pc[Defer] = "prepare"
  /\ RoomInBatch
  /\ queue' = Tail(queue)
  /\ inProcess' = Append(inProcess, Head(queue))
  /\ UNCHANGED <<queueActive, stop>>

(* Mutant: only the first request of a batch is copied for.                *)
NeedsCopyMutant(bio) == bio.write /\ ~stop /\ ~corrupted /\ dios = 0

NeedsCopy(bio) == bio.write /\ ~stop /\ ~corrupted

DeferPrepare ==
  /\ PopDio
  /\ LET bio == Head(queue)
     IN IF NeedsCopy(bio)
        THEN /\ PrepareRequests(bio.blks)
             /\ dioBlocks' = dioBlocks + Cardinality(bio.blks)
        ELSE UNCHANGED <<copy, store, corrupted, poolVars, dioBlocks>>
  /\ dios' = dios + 1
  /\ UNCHANGED <<originVars, locker, imageVars, history, pc>>

DeferPrepareFails ==
  /\ PopDio
  /\ NeedsCopy(Head(queue))
  /\ PrepareRequestsFail(Head(queue).blks)
  /\ pc' = [pc EXCEPT ![Defer] = "finish"]
  /\ UNCHANGED <<originVars, locker, dios, dioBlocks, imageVars, history>>

(* Mutant: the batch is submitted without the copy it asked for.           *)
DeferPreparedMutant ==
  /\ pc[Defer] = "prepare"
  /\ ~RoomInBatch
  /\ pc' = [pc EXCEPT ![Defer] = "finish"]
  /\ UNCHANGED <<originVars, storeVars, poolVars, queueVars, imageVars, history>>

DeferPrepared ==
  /\ pc[Defer] = "prepare"
  /\ ~RoomInBatch
  /\ pc' = [pc EXCEPT ![Defer] = IF Asked = {} THEN "finish" ELSE "read"]
  /\ UNCHANGED <<originVars, storeVars, poolVars, queueVars, imageVars, history>>

(* The worker submits a request it took from the queue.                    *)
SubmitDeferred(bio) ==
  /\ Submit(bio)
  /\ submitted' = Append(submitted, bio.id)
  /\ UNCHANGED <<captured, entering, nextIo, storeVars, poolVars, queueActive,
                 dios, dioBlocks, stop, imageVars, snap, bypassed, received>>

(* One turn of the loop of _defer_io_finish over the batch.                *)
DeferFinish ==
  /\ pc[Defer] = "finish"
  /\ inProcess # <<>>
  /\ SubmitDeferred(Head(inProcess))
  /\ inProcess' = Tail(inProcess)
  /\ UNCHANGED <<queue, pc>>

DeferUnlock ==
  /\ pc[Defer] = "finish"
  /\ inProcess = <<>>
  /\ locker' = Free
  /\ pc' = [pc EXCEPT ![Defer] = "idle"]
  /\ dios' = 0
  /\ dioBlocks' = 0
  /\ UNCHANGED <<originVars, copy, store, corrupted, poolVars, queue,
                 queueActive, inProcess, stop, imageVars, history>>

(* The thread leaves its loop, closes the queue, and submits what slipped  *)
(* in between.                                                             *)
DeferExit ==
  /\ pc[Defer] = "idle"
  /\ stop
  /\ queue = <<>>
  /\ pc' = [pc EXCEPT ![Defer] = "exit"]
  /\ UNCHANGED <<originVars, storeVars, poolVars, queueVars, imageVars, history>>

DeferClose ==
  /\ pc[Defer] = "exit"
  /\ queueActive' = FALSE
  /\ pc' = [pc EXCEPT ![Defer] = "drain"]
  /\ UNCHANGED <<originVars, storeVars, poolVars, queue, inProcess, dios,
                 dioBlocks, stop, imageVars, history>>

DeferDrain ==
  /\ pc[Defer] = "drain"
  /\ queue # <<>>
  /\ SubmitDeferred(Head(queue))
  /\ queue' = Tail(queue)
  /\ UNCHANGED <<inProcess, pc>>

DeferDone ==
  /\ pc[Defer] = "drain"
  /\ queue = <<>>
  /\ pc' = [pc EXCEPT ![Defer] = "done"]
  /\ UNCHANGED <<originVars, storeVars, poolVars, queueVars, imageVars, history>>

DeferStep ==
  \/ DeferLock \/ DeferPrepare \/ DeferPrepareFails \/ DeferPrepared
  \/ CopyStep(Defer)
  \/ DeferFinish \/ DeferUnlock
  \/ DeferExit \/ DeferClose \/ DeferDrain \/ DeferDone

-----------------------------------------------------------------------------
(* The thread of the snapshot image: snapstore_device_read and             *)
(* snapstore_device_write.                                                 *)

(* A request that finds the snapshot corrupted fails and leaves no trace;  *)
(* a write first marks its blocks in the CBT map (cbt_map_set_both).       *)
ImageRequest(write, blks) ==
  /\ pc[Image] = "idle"
  /\ imaging
  /\ ~corrupted
  /\ nextIo <= MaxIo
  /\ nextIo' = nextIo + 1
  /\ ireq' = [id |-> nextIo, write |-> write, blks |-> blks]
  /\ dirty' = IF write THEN dirty \cup blks ELSE dirty
  /\ pc' = [pc EXCEPT ![Image] = IF write THEN "cow" ELSE "fetch"]
  /\ UNCHANGED <<orig, captured, entering, storeVars, poolVars, queueVars,
                 imaging, flying, history>>

(* What a read delivers: stored blocks come from the snapstore, the others *)
(* from the original.                                                      *)
Fetched(b) == IF Stored(b) THEN store[b] ELSE orig[b]

(* Mutant: the read does not take the locker.                              *)
FetchingMutant == pc[Image] = "fetch"

(* The read submits its requests under the locker: Fetched(b) is what each *)
(* of its blocks brings back if nothing overtakes it.                      *)
Fetching == pc[Image] = "fetch" /\ locker = Free

ImageDone == pc' = [pc EXCEPT ![Image] = "idle"] /\ ireq' = NoRequest

ImageRead ==
  /\ Fetching
  /\ ImageDone
  /\ flying' = flying \cup Missing(ireq.blks)
  /\ UNCHANGED <<originVars, storeVars, poolVars, queueVars, imaging, history>>

(* The original device answers a read of the image.                        *)
FetchCompletes ==
  /\ \E b \in flying : flying' = flying \ {b}
  /\ UNCHANGED <<originVars, storeVars, poolVars, queueVars, imaging, ireq,
                 history, pc>>

(* _snapstore_device_copy_on_write                                         *)
ImageLock ==
  /\ pc[Image] = "cow"
  /\ TakeLock(Image)
  /\ pc' = [pc EXCEPT ![Image] = "prepare"]
  /\ UNCHANGED <<originVars, copy, store, corrupted, poolVars, queueVars,
                 imageVars, history>>

ImagePrepare ==
  /\ pc[Image] = "prepare"
  /\ PrepareRequests(ireq.blks)
  /\ pc' = [pc EXCEPT ![Image] =
              IF Missing(ireq.blks) = {} THEN "unlock" ELSE "read"]
  /\ UNCHANGED <<originVars, locker, queueVars, imageVars, history>>

ImagePrepareFails ==
  /\ pc[Image] = "prepare"
  /\ PrepareRequestsFail(ireq.blks)
  /\ pc' = [pc EXCEPT ![Image] = "unlock"]
  /\ UNCHANGED <<originVars, locker, queueVars, imageVars, history>>

ImageUnlock ==
  /\ pc[Image] = "unlock"
  /\ locker' = Free
  /\ pc' = [pc EXCEPT ![Image] = "redirect"]
  /\ UNCHANGED <<originVars, copy, store, corrupted, poolVars, queueVars,
                 imageVars, history>>

(* The second half of snapstore_device_write, whatever the copy came to.   *)
ImageWrite ==
  /\ pc[Image] = "redirect"
  /\ locker = Free
  /\ Missing(ireq.blks) = {}
  /\ store' = [b \in Blocks |-> IF b \in ireq.blks THEN ireq.id ELSE store[b]]
  /\ snap' = [b \in Blocks |-> IF b \in ireq.blks THEN ireq.id ELSE snap[b]]
  /\ ImageDone
  /\ UNCHANGED <<originVars, copy, corrupted, locker, poolVars, queueVars,
                 imaging, flying, bypassed, received, submitted>>

(* A block without a descriptor, or a redirection that fails.              *)
ImageWriteFails ==
  /\ pc[Image] = "redirect"
  /\ locker = Free
  /\ corrupted' = TRUE
  /\ ImageDone
  /\ UNCHANGED <<originVars, copy, store, locker, poolVars, queueVars,
                 imaging, flying, history>>

ImageStep ==
  \/ ImageRead
  \/ ImageLock \/ ImagePrepare \/ ImagePrepareFails
  \/ CopyStep(Image)
  \/ ImageUnlock \/ ImageWrite \/ ImageWriteFails

-----------------------------------------------------------------------------
(* The other users of the snapstore, and the end of the snapshot.          *)

(* snapstore_add_file: a portion arrives and halffilled is reset.          *)
AddPortion ==
  /\ portions < MaxPortions
  /\ portions' = portions + 1
  /\ empty' = empty + PortionBlocks
  /\ halffilled' = FALSE
  /\ UNCHANGED <<originVars, storeVars, overflowed, queueVars, imageVars,
                 history, pc>>

(* Another device of the same snapstore takes a block.                     *)
OtherDeviceTakes ==
  /\ ~overflowed
  /\ empty' = IF empty = 0 THEN 0 ELSE empty - 1
  /\ overflowed' = (empty = 0)
  /\ UNCHANGED <<originVars, storeVars, halffilled, portions, queueVars,
                 imageVars, history, pc>>

(* _snapshot_destroy stops the image first ...                             *)
StopImage ==
  /\ imaging
  /\ pc[Image] = "idle"
  /\ imaging' = FALSE
  /\ UNCHANGED <<originVars, storeVars, poolVars, queueVars, ireq, flying,
                 history, pc>>

(* ... then _tracker_release_snapshot takes the device out of capture ...  *)
Release ==
  /\ ~imaging
  /\ captured
  /\ captured' = FALSE
  /\ UNCHANGED <<orig, dirty, entering, nextIo, storeVars, poolVars, queueVars,
                 imageVars, history, pc>>

(* ... and defer_io_stop stops the thread.                                 *)
StopDefer ==
  /\ ~captured
  /\ ~stop
  /\ stop' = TRUE
  /\ UNCHANGED <<originVars, storeVars, poolVars, queue, queueActive,
                 inProcess, dios, dioBlocks, imageVars, history, pc>>

Next ==
  \/ \E r \in OrigRequests : Enter(r.write, r.blks) \/ PassThrough(r.write, r.blks)
  \/ \E r \in ImageRequests : ImageRequest(r.write, r.blks)
  \/ \E bio \in entering : Redirect(bio) \/ RedirectFails(bio)
  \/ DeferStep
  \/ ImageStep
  \/ FetchCompletes \/ AddPortion \/ OtherDeviceTakes
  \/ StopImage \/ Release \/ StopDefer

Spec == Init /\ [][Next]_vars

-----------------------------------------------------------------------------
(* Properties.                                                             *)

(* Every variable keeps its type.                                          *)
TypeOK ==
  /\ orig \in [Blocks -> Values]
  /\ copy \in [Blocks -> CopyState]
  /\ store \in [Blocks -> Values \cup {NoData}]
  /\ corrupted \in BOOLEAN
  /\ locker \in Actors \cup {Free}
  /\ empty \in Nat
  /\ overflowed \in BOOLEAN
  /\ halffilled \in BOOLEAN
  /\ portions \in 0 .. MaxPortions
  /\ captured \in BOOLEAN
  /\ entering \in SUBSET Bio
  /\ queue \in Seq(Bio)
  /\ queueActive \in BOOLEAN
  /\ inProcess \in Seq(Bio)
  /\ dios \in Nat
  /\ dioBlocks \in Nat
  /\ pc \in [Actors -> {"idle", "prepare", "read", "store", "finish", "unlock",
                        "exit", "drain", "done", "fetch", "cow", "redirect"}]
  /\ stop \in BOOLEAN
  /\ imaging \in BOOLEAN
  /\ ireq \in [id : Values, write : BOOLEAN, blks : SUBSET Blocks]
  /\ flying \in SUBSET Blocks
  /\ dirty \in SUBSET Blocks
  /\ nextIo \in 1 .. MaxIo + 1
  /\ snap \in [Blocks -> Values]
  /\ bypassed \in SUBSET Blocks
  /\ received \in Seq(1 .. MaxIo)
  /\ submitted \in Seq(1 .. MaxIo)

(* The image is the device as it was at the capture plus the writes made   *)
(* to the image, whatever the original's writers, the defer IO thread and  *)
(* the image thread are in the middle of: as long as the snapshot device   *)
(* is not marked corrupted, the only blocks that can differ are those      *)
(* whose original could not be read for the copy and those a request       *)
(* overwrote because it could not be queued.                               *)
PointInTime ==
  imaging /\ ~corrupted => \A b \in Blocks : Trusted(b) => View(b) = snap[b]

(* snapstore_device_read asks for the data of the snapshot: when the       *)
(* device is not corrupted at that moment, what a read finds for each      *)
(* trusted block is the content the image must have, never a copy that is  *)
(* still under way nor an original that has been overwritten.              *)
ReadsSnapshot ==
  Fetching /\ ~corrupted
    => \A b \in ireq.blks : Trusted(b) => Fetched(b) = snap[b]

Ids(bios) == [i \in DOMAIN bios |-> bios[i].id]

(* A request that defer_io_redirect_bio accepted is in exactly one place   *)
(* and overtakes no other: what was accepted is what was submitted,        *)
(* followed by the batch of the thread, followed by the queue, through     *)
(* failed copies, corruption, stop and the closing of the queue.           *)
NothingLost == received = submitted \o Ids(inProcess) \o Ids(queue)

(* Each block that changed on the original, and each block written through *)
(* the image, is marked in the CBT map, whichever path the write took.     *)
DirtyCoversWrites ==
  \A b \in Blocks : orig[b] # 0 \/ snap[b] # 0 => b \in dirty

(* An uncopied overwrite is only possible with the device corrupted, the   *)
(* thread stopping, or the block already on record as bypassed or junk:    *)
(* a step that changes the original of a clean block finds its copy done.  *)
CopyBeforeWrite ==
  [][\A b \in Blocks :
       orig'[b] # orig[b] =>
         \/ corrupted \/ stop
         \/ copy[b] \in {"read", "done"}
         \/ ~Trusted(b)']_vars

(* The image that a reader sees, for the abstract specification.           *)
AbstractImage ==
  [b \in Blocks |->
     IF imaging /\ ~corrupted /\ Trusted(b) THEN View(b) ELSE NoData]

Abstract ==
  INSTANCE PointInTimeImage
  WITH Contents <- Values, Initial <- 0, Unknown <- NoData,
       image <- AbstractImage, request <- ireq

(* The copy-on-write machinery implements a point-in-time image: as long   *)
(* as a block is not given up, only the step that carries out the pending  *)
(* write of the image changes it, and only to that write's content.  A     *)
(* writer of the original, the defer IO thread, a copy by either thread or *)
(* a portion of the snapstore leaves the block alone, and a block that was *)
(* once given up stays so.  Given up are the blocks that are not Trusted,  *)
(* and all blocks of a corrupted or a stopped snapshot.                    *)
ImplementsImage == Abstract!Spec

-----------------------------------------------------------------------------
(* The inductive invariant behind PointInTime and DirtyCoversWrites.       *)

(* The locker belongs to the thread that is between its lock and unlock.   *)
LockInv ==
  /\ pc[Defer] \in {"prepare", "read", "store", "finish"} <=> locker = Defer
  /\ pc[Image] \in {"prepare", "read", "store", "unlock"} <=> locker = Image

(* A block waits for its copy only while the holder of the locker is in    *)
(* the stage that the state of the block names.                            *)
RequestInv ==
  \A b \in Blocks :
    /\ copy[b] = "asked" => \/ locker = Defer /\ pc[Defer] \in {"prepare", "read"}
                            \/ locker = Image /\ pc[Image] = "read"
    /\ copy[b] = "read" => \/ locker = Defer /\ pc[Defer] = "store"
                           \/ locker = Image /\ pc[Image] = "store"

(* Every write in the batch of the defer IO thread has its blocks stored.  *)
BatchInv ==
  ~stop /\ ~corrupted =>
    \A i \in 1 .. Len(inProcess) :
      inProcess[i].write => \A b \in inProcess[i].blks : Stored(b)

(* The image stops between two requests, the defer IO thread stops after   *)
(* the image, so an image never outlives its copies.                       *)
StopInv ==
  /\ pc[Image] # "idle" => imaging
  /\ ~captured => ~imaging
  /\ stop => ~captured
  /\ pc[Defer] \in {"exit", "drain", "done"} => stop

(* A write to the image has marked its blocks before it copies them.       *)
ImageWriteInv ==
  pc[Image] \notin {"idle", "fetch"} => ireq.blks \subseteq dirty

(* Outside of its locked section the defer IO thread holds no batch: with  *)
(* this NothingLost is inductive.                                          *)
BatchIsOver ==
  pc[Defer] \in {"idle", "exit", "drain", "done"} => inProcess = <<>>

(* The image thread has a request exactly between two idle states, and the *)
(* way it takes is the one of a read or of a write.                        *)
PendingInv ==
  /\ pc[Image] = "idle" <=> ireq = NoRequest
  /\ pc[Image] = "fetch" => ~ireq.write
  /\ pc[Image] \notin {"idle", "fetch"} => ireq.write

IInv ==
  LockInv /\ RequestInv /\ BatchInv /\ StopInv /\ ImageWriteInv
  /\ PointInTime /\ DirtyCoversWrites

=============================================================================
