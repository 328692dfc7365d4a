----------------------------- MODULE ImageQueue -----------------------------
(***************************************************************************)
(* The block device of one snapshot image (snapimage.c): users submit      *)
(* requests to it, which wait until the defer IO queue of the original is  *)
(* empty and then go into a queue of their own; the thread of the image    *)
(* takes them from there and redirects each to the devices that hold its   *)
(* blocks (blk_redirect.c), whose answers come in any order.  When the     *)
(* snapshot is destroyed the queue is closed, the thread is joined, and    *)
(* the image is freed.                                                     *)
(*                                                                         *)
(* Where the data of a request lies is in CopyOnWrite; here a request is   *)
(* so many parts, each a bio of its own, or it is answered from memory.    *)
(***************************************************************************)
EXTENDS Integers, Sequences, FiniteSets

CONSTANTS
  Requests,    \* requests of users, each submitted once
  Writes,      \* those that write
  NoRequest,   \* the thread has no request at hand
  MaxParts,    \* bound: bios that a request is redirected to
  MaxOpens,    \* bound: open files of the image
  MaxDefer,    \* bound: writes that pass the defer IO queue
  Kernels      \* what the block layer does: see kernel

ASSUME ImageAssumption ==
  /\ IsFiniteSet(Requests) /\ NoRequest \notin Requests
  /\ Writes \subseteq Requests
  /\ MaxParts \in Nat \ {0}
  /\ MaxOpens \in Nat
  /\ MaxDefer \in Nat
  /\ Kernels \subseteq [stops : BOOLEAN, waits : {"delete", "cleanup"}]

VARIABLES
  kernel,     \* stops: blk_stop_queue marks this queue as stopped;
              \* waits: del_gendisk, or the clean-up of the queue, refuses new
              \* requests and waits for those inside submit_bio
  files,      \* open files of the disk
  open_cnt,   \* image->open_cnt
  submit,     \* where each submitter is inside _snapimage_submit_bio
  place,      \* where each request is
  answer,     \* how it was answered
  queue,      \* image->rq_proc_queue
  active,     \* its active_state
  alloc,      \* its alloc_cnt
  own,        \* image->own_cnt
  parts,      \* of each request: bios not yet sent, under way, and ending;
              \* bio_endio_count; err
  broken,     \* history: requests one of whose bios failed
  answers,    \* history: how often each request was answered
  thread,     \* control state of snapimage_processor_thread
  current,    \* the request it processes
  disk,       \* the disk as the block layer sees it
  stopped,    \* blk_queue_stopped
  should,     \* kthread_should_stop() of the thread
  corrupted,  \* the snapstore device is corrupted
  defer,      \* writes in the defer IO queue of the original
  deferred,   \* how many have passed
  admin       \* control state of snapshot_Destroy for this image

userVars    == <<files, open_cnt>>
requestVars == <<submit, place, answer, parts, broken, answers>>
queueVars   == <<queue, active, alloc, own>>
threadVars  == <<thread, current, disk>>
deferVars   == <<corrupted, defer, deferred>>
adminVars   == <<stopped, should, admin>>
vars == <<kernel, userVars, requestVars, queueVars, threadVars, deferVars, adminVars>>

NoParts == [unsent |-> 0, flying |-> 0, ending |-> 0, count |-> 0, err |-> FALSE]

Init ==
  /\ kernel \in Kernels
  /\ files = 0 /\ open_cnt = 0
  /\ submit = [r \in Requests |-> "out"]
  /\ place = [r \in Requests |-> "user"]
  /\ answer = [r \in Requests |-> "none"]
  /\ parts = [r \in Requests |-> NoParts]
  /\ broken = {}
  /\ answers = [r \in Requests |-> 0]
  /\ queue = <<>> /\ active = TRUE /\ alloc = 0 /\ own = 0
  /\ thread = "created" /\ current = NoRequest
  /\ disk = "none"
  /\ stopped = FALSE /\ should = FALSE
  /\ corrupted = FALSE /\ defer = 0 /\ deferred = 0
  /\ admin = "idle"

Listed == admin \notin {"cleanup", "done"}

-----------------------------------------------------------------------------
(* The disk is opened and closed under snap_image_destroy_lock, which      *)
(* snapimage_destroy holds from the moment it takes the image off the list *)
(* until it has freed it; after that private_data is gone.                 *)

Locked == admin = "cleanup"

Open ==
  /\ disk = "added" /\ ~Locked
  /\ files < MaxOpens
  /\ files' = files + 1
  /\ open_cnt' = open_cnt + 1
  /\ UNCHANGED <<kernel, requestVars, queueVars, threadVars, deferVars, adminVars>>

Close ==
  /\ files > 0 /\ ~Locked
  /\ files' = files - 1
  /\ open_cnt' = IF Listed THEN open_cnt - 1 ELSE open_cnt
  /\ UNCHANGED <<kernel, requestVars, queueVars, threadVars, deferVars, adminVars>>

-----------------------------------------------------------------------------
(* A user submits a request: _snapimage_submit_bio.                        *)

Inside(r) == submit[r] # "out"

Goes(r, from, to) == submit[r] = from /\ submit' = [submit EXCEPT ![r] = to]

(* _snapimage_bio_complete: the request is answered.                       *)
Answer(r, how) ==
  /\ place' = [place EXCEPT ![r] = "answered"]
  /\ answer' = [answer EXCEPT ![r] = how]
  /\ answers' = [answers EXCEPT ![r] = @ + 1]

Refuse(r, from) ==
  /\ Goes(r, from, "leave")
  /\ Answer(r, "error")
  /\ UNCHANGED <<kernel, userVars, parts, broken, queueVars, threadVars, deferVars, adminVars>>

(* The block layer lets nothing through once the disk, or its queue, dies. *)
LetsThrough ==
  \/ disk = "added"
  \/ disk = "deleted" /\ kernel.waits = "cleanup" /\ Listed

(* own_cnt is taken, then active_state read; nobody waits for own_cnt.     *)
Enter(r) ==
  /\ LetsThrough /\ files > 0
  /\ place[r] = "user" /\ ~Inside(r) /\ ~stopped
  /\ own' = own + 1
  /\ \/ /\ active
        /\ Goes(r, "out", "active")
        /\ UNCHANGED <<place, answer, answers>>
     \/ /\ ~active
        /\ Goes(r, "out", "leave")
        /\ Answer(r, "error")
  /\ UNCHANGED <<kernel, userVars, parts, broken, queue, active, alloc, threadVars, deferVars, adminVars>>

EnterStopped(r) ==
  /\ LetsThrough /\ files > 0
  /\ place[r] = "user" /\ ~Inside(r) /\ stopped
  /\ Answer(r, "error")
  /\ UNCHANGED <<kernel, userVars, submit, parts, broken, queueVars, threadVars, deferVars, adminVars>>

SeeTrusted(r) ==
  /\ ~corrupted
  /\ Goes(r, "active", "throttle")
  /\ UNCHANGED <<kernel, userVars, place, answer, parts, broken, answers, queueVars, threadVars,
                 deferVars, adminVars>>

(* Mutant: own_cnt is not taken for the content.                           *)
ThrottledMutant(r) ==
  /\ defer = 0
  /\ Goes(r, "throttle", "push")
  /\ alloc' = alloc + 1
  /\ UNCHANGED <<kernel, userVars, place, answer, parts, broken, answers, queue, active, own,
                 threadVars, deferVars, adminVars>>

(* _snapimage_throttling waits until the defer IO queue is empty; then the *)
(* content is allocated, and own_cnt taken for it.                         *)
Throttled(r) ==
  /\ defer = 0
  /\ Goes(r, "throttle", "push")
  /\ alloc' = alloc + 1
  /\ own' = own + 1
  /\ UNCHANGED <<kernel, userVars, place, answer, parts, broken, answers, queue, active, threadVars,
                 deferVars, adminVars>>

(* The image is corrupted; a signal while it waits, or no memory.          *)
Refused(r) ==
  \/ corrupted /\ Refuse(r, "active")
  \/ Refuse(r, "throttle")

(* Mutant: queue_sl_push_back does not look at active_state.               *)
PushMutant(r) ==
  /\ Goes(r, "push", "leave")
  /\ queue' = Append(queue, r)
  /\ place' = [place EXCEPT ![r] = "queue"]
  /\ UNCHANGED <<kernel, userVars, answer, parts, broken, answers, active, alloc, own, threadVars,
                 deferVars, adminVars>>

Push(r) ==
  /\ active
  /\ Goes(r, "push", "leave")
  /\ queue' = Append(queue, r)
  /\ place' = [place EXCEPT ![r] = "queue"]
  /\ UNCHANGED <<kernel, userVars, answer, parts, broken, answers, active, alloc, own, threadVars,
                 deferVars, adminVars>>

(* The content is freed, but not the hold on the image that it stands for. *)
PushFails(r) ==
  /\ ~active
  /\ Goes(r, "push", "leave")
  /\ alloc' = alloc - 1
  /\ Answer(r, "error")
  /\ UNCHANGED <<kernel, userVars, parts, broken, queue, active, own, threadVars, deferVars, adminVars>>

Leave(r) ==
  /\ Goes(r, "leave", "out")
  /\ own' = own - 1
  /\ UNCHANGED <<kernel, userVars, place, answer, parts, broken, answers, queue, active, alloc,
                 threadVars, deferVars, adminVars>>

Submitter(r) ==
  SeeTrusted(r) \/ Throttled(r) \/ Refused(r) \/ Push(r) \/ PushFails(r) \/ Leave(r)

-----------------------------------------------------------------------------
(* blk_redirect_complete: the content is freed first, then                 *)
(* _snapimage_bio_complete_cb answers the request and lets the image go.   *)

FreeContent(r, how) ==
  /\ place' = [place EXCEPT ![r] = "callback"]
  /\ answer' = [answer EXCEPT ![r] = how]
  /\ alloc' = alloc - 1

Callback(r) ==
  /\ place[r] = "callback"
  /\ Answer(r, answer[r])
  /\ own' = own - 1
  /\ current' = IF current = r THEN NoRequest ELSE current
  /\ UNCHANGED <<kernel, userVars, submit, parts, broken, queue, active, alloc, thread, disk,
                 deferVars, adminVars>>

-----------------------------------------------------------------------------
(* snapimage_processor_thread.                                             *)

Runs(from, to) ==
  /\ thread = from /\ current = NoRequest
  /\ thread' = to
  /\ UNCHANGED <<kernel, userVars, requestVars, queueVars, current, deferVars, adminVars>>

(* kthread_stop before the thread ever ran, or a disk that is not added,   *)
(* end the thread at once.                                                 *)
AddDisk ==
  \/ ~should /\ Runs("created", "loop") /\ disk' = "added"
  \/ Runs("created", "done") /\ UNCHANGED disk

Loop == Runs("loop", IF should THEN "delete" ELSE "wait") /\ UNCHANGED disk

(* The queue is empty, and the wait ends without a request.                *)
WaitEnds == queue = <<>> /\ should /\ Runs("wait", "loop") /\ UNCHANGED disk

(* del_gendisk: no more requests, and on some kernels the wait for those   *)
(* that are inside.                                                        *)
DeleteDisk == Runs("delete", "deleting") /\ disk' = "deleted"

Deleted ==
  /\ kernel.waits = "delete" => \A r \in Requests : ~Inside(r)
  /\ Runs("deleting", "drain")
  /\ UNCHANGED disk

(* Mutant: the thread ends without a look at the queue.                    *)
ThreadEndsMutant == Runs("drain", "done") /\ UNCHANGED disk

ThreadEnds == queue = <<>> /\ Runs("drain", "done") /\ UNCHANGED disk

(* _snapimage_processing takes the first request of the queue.             *)
Take ==
  /\ thread \in {"wait", "drain"} /\ current = NoRequest
  /\ queue # <<>>
  /\ current' = Head(queue)
  /\ queue' = Tail(queue)
  /\ place' = [place EXCEPT ![Head(queue)] = "thread"]
  /\ thread' = IF thread = "wait" THEN "loop" ELSE thread
  /\ UNCHANGED <<kernel, userVars, submit, answer, parts, broken, answers, active, alloc, own, disk,
                 deferVars, adminVars>>

(* The blocks of the request lie on devices: it becomes n bios, counted    *)
(* before the first of them is sent.                                       *)
Redirect ==
  \E r \in Requests, n \in 1 .. MaxParts :
    /\ current = r /\ place[r] = "thread" /\ parts[r].count = 0
    /\ ~corrupted
    /\ parts' = [parts EXCEPT ![r].unsent = n, ![r].count = n]
    /\ UNCHANGED <<kernel, userVars, submit, place, answer, broken, answers, queueVars, threadVars,
                   deferVars, adminVars>>

(* They lie in memory, are known to be zeroes, or the request has no data. *)
Served ==
  \E r \in Requests :
    /\ current = r /\ place[r] = "thread" /\ parts[r].count = 0
    /\ ~corrupted
    /\ FreeContent(r, "ok")
    /\ UNCHANGED <<kernel, userVars, submit, parts, broken, answers, queue, active, own, threadVars,
                   deferVars, adminVars>>

(* The image is corrupted, or the request cannot be redirected; a write    *)
(* that cannot leaves the image corrupted.                                 *)
NotServed ==
  \E r \in Requests :
    /\ current = r /\ place[r] = "thread" /\ parts[r].count = 0
    /\ FreeContent(r, "error")
    /\ corrupted' = (corrupted \/ r \in Writes)
    /\ UNCHANGED <<kernel, userVars, submit, parts, broken, answers, queue, active, own, threadVars,
                   defer, deferred, adminVars>>

(* blk_dev_redirect_submit.                                                *)
Send ==
  \E r \in Requests :
    /\ current = r /\ parts[r].unsent > 0
    /\ place' = [place EXCEPT ![r] = "device"]
    /\ parts' = [parts EXCEPT ![r].unsent = @ - 1, ![r].flying = @ + 1]
    /\ current' = IF parts[r].unsent = 1 THEN NoRequest ELSE r
    /\ UNCHANGED <<kernel, userVars, submit, answer, broken, answers, queueVars, thread, disk,
                   deferVars, adminVars>>

Thread ==
  \/ AddDisk \/ Loop \/ WaitEnds \/ DeleteDisk \/ Deleted \/ ThreadEnds
  \/ Take \/ Redirect \/ Served \/ NotServed \/ Send

-----------------------------------------------------------------------------
(* A bio ends on its device, in any order and on any processor:            *)
(* blk_redirect_bio_endio keeps an error, then counts the bio.             *)

(* Mutant: the bio that ends last decides.                                 *)
PartEndsMutant(r) ==
  \E ok \in BOOLEAN :
    /\ parts[r].flying > 0
    /\ broken' = IF ok THEN broken ELSE broken \cup {r}
    /\ parts' = [parts EXCEPT ![r].flying = @ - 1, ![r].ending = @ + 1, ![r].err = ~ok]
    /\ UNCHANGED <<kernel, userVars, submit, place, answer, answers, queueVars, threadVars, deferVars,
                   adminVars>>

PartEnds(r) ==
  \E ok \in BOOLEAN :
    /\ parts[r].flying > 0
    /\ broken' = IF ok THEN broken ELSE broken \cup {r}
    /\ parts' = [parts EXCEPT ![r].flying = @ - 1, ![r].ending = @ + 1, ![r].err = @ \/ ~ok]
    /\ UNCHANGED <<kernel, userVars, submit, place, answer, answers, queueVars, threadVars, deferVars,
                   adminVars>>

PartCounted(r) ==
  /\ parts[r].ending > 0 /\ parts[r].count > 1
  /\ parts' = [parts EXCEPT ![r].ending = @ - 1, ![r].count = @ - 1]
  /\ UNCHANGED <<kernel, userVars, submit, place, answer, broken, answers, queueVars, threadVars,
                 deferVars, adminVars>>

LastCounted(r) ==
  /\ parts[r].ending > 0 /\ parts[r].count = 1
  /\ parts' = [parts EXCEPT ![r].ending = @ - 1, ![r].count = 0]
  /\ FreeContent(r, IF parts[r].err THEN "error" ELSE "ok")
  /\ UNCHANGED <<kernel, userVars, submit, broken, answers, queue, active, own, threadVars, deferVars,
                 adminVars>>

Endio(r) == PartEnds(r) \/ PartCounted(r) \/ LastCounted(r) \/ Callback(r)

-----------------------------------------------------------------------------
(* snapshot_Destroy, as far as it touches the image: snapimage_stop, then  *)
(* tracker_release_snapshot, then snapimage_destroy.                       *)

Admin(from, to) ==
  /\ admin = from /\ admin' = to
  /\ UNCHANGED <<kernel, userVars, requestVars, queue, alloc, own, threadVars, deferVars>>

CloseQueue ==
  /\ Admin("idle", "stopThread")
  /\ active' = FALSE
  /\ UNCHANGED <<stopped, should>>

(* The block layer is told to stop the queue, and kthread_stop the thread. *)
StopThread ==
  /\ Admin("stopThread", "join")
  /\ stopped' = kernel.stops
  /\ should' = TRUE
  /\ UNCHANGED active

Join == thread = "done" /\ Admin("join", "unactive") /\ UNCHANGED <<active, stopped, should>>

(* queue_sl_is_unactive.                                                   *)
Unactive ==
  /\ ~active /\ alloc = 0
  /\ Admin("unactive", "release")
  /\ UNCHANGED <<active, stopped, should>>

(* defer_io_stop waits until the defer IO queue is empty.                  *)
Release == defer = 0 /\ Admin("release", "remove") /\ UNCHANGED <<active, stopped, should>>

Remove == Admin("remove", "cleanup") /\ UNCHANGED <<active, stopped, should>>

(* The queue of the disk is cleaned up, and the image freed.               *)
CleanUp ==
  /\ kernel.waits = "cleanup" => \A r \in Requests : ~Inside(r)
  /\ Admin("cleanup", "done")
  /\ UNCHANGED <<active, stopped, should>>

Destroy ==
  StopThread \/ Join \/ Unactive \/ Release \/ Remove \/ CleanUp

-----------------------------------------------------------------------------
(* The original device: writes pass its defer IO queue until the release,  *)
(* and its snapstore may overflow.                                         *)

Captured == admin \notin {"remove", "cleanup", "done"}

DeferWrite ==
  /\ Captured /\ deferred < MaxDefer
  /\ defer' = defer + 1
  /\ deferred' = deferred + 1
  /\ UNCHANGED <<kernel, userVars, requestVars, queueVars, threadVars, corrupted, adminVars>>

DeferDone ==
  /\ defer > 0
  /\ defer' = defer - 1
  /\ UNCHANGED <<kernel, userVars, requestVars, queueVars, threadVars, corrupted, deferred, adminVars>>

Overflow ==
  /\ Captured /\ ~corrupted
  /\ corrupted' = TRUE
  /\ UNCHANGED <<kernel, userVars, requestVars, queueVars, threadVars, defer, deferred, adminVars>>

-----------------------------------------------------------------------------
Next ==
  \/ Open \/ Close
  \/ \E r \in Requests : Enter(r) \/ EnterStopped(r) \/ Submitter(r) \/ Endio(r)
  \/ Thread
  \/ CloseQueue \/ Destroy
  \/ DeferWrite \/ DeferDone \/ Overflow

Spec == Init /\ [][Next]_vars

(* A submitter that has come in runs on, the thread and the defer IO       *)
(* thread are scheduled, bios end, and a destruction that has begun goes   *)
(* on.  None of them can step for ever, so it is enough that one of those  *)
(* that can step does.  Nobody has to submit, to open or to destroy.       *)
Progress ==
  \/ \E r \in Requests : Submitter(r) \/ Endio(r)
  \/ Thread \/ Destroy \/ DeferDone

FairSpec == Spec /\ WF_vars(Progress)

-----------------------------------------------------------------------------
PartsOf == [unsent : 0 .. MaxParts, flying : 0 .. MaxParts, ending : 0 .. MaxParts,
            count : 0 .. MaxParts, err : BOOLEAN]

(* Types; the open files are counted while the image exists (the log of    *)
(* _snapimage_close has "negative reference counter").                     *)
TypeOK ==
  /\ kernel \in Kernels
  /\ files \in 0 .. MaxOpens
  /\ open_cnt \in 0 .. MaxOpens
  /\ submit \in [Requests -> {"out", "active", "throttle", "push", "leave"}]
  /\ place \in [Requests -> {"user", "queue", "thread", "device", "callback", "answered"}]
  /\ answer \in [Requests -> {"none", "ok", "error"}]
  /\ parts \in [Requests -> PartsOf]
  /\ broken \subseteq Requests
  /\ answers \in [Requests -> 0 .. MaxParts + 1]
  /\ queue \in Seq(Requests)
  /\ active \in BOOLEAN
  /\ alloc \in 0 .. Cardinality(Requests)
  /\ own \in 0 .. 2 * Cardinality(Requests)
  /\ thread \in {"created", "loop", "wait", "delete", "deleting", "drain", "done"}
  /\ current \in Requests \cup {NoRequest}
  /\ disk \in {"none", "added", "deleted"}
  /\ stopped \in BOOLEAN /\ should \in BOOLEAN /\ corrupted \in BOOLEAN
  /\ defer \in 0 .. MaxDefer /\ deferred \in 0 .. MaxDefer
  /\ admin \in {"idle", "stopThread", "join", "unactive", "release", "remove", "cleanup", "done"}

(* A request is answered once, however many bios it became and whoever     *)
(* answers it, and with an error if any of its bios failed                 *)
(* (blk_redirect_bio_endio, _snapimage_processing).                        *)
AnswersAreHonest ==
  \A r \in Requests :
    /\ answers[r] <= 1
    /\ place[r] = "answered" /\ r \in broken => answer[r] = "error"

(* When the image is freed no submitter is inside, no request waits or is  *)
(* under way, and the thread is gone (_snapimage_stop, _snapimage_free).   *)
ImageOutlivesRequests ==
  admin = "done" =>
    /\ thread = "done" /\ queue = <<>>
    /\ \A r \in Requests :
         ~Inside(r) /\ place[r] \in {"user", "callback", "answered"}

RequestsAreAnswered ==
  []<>(\A r \in Requests : ~Inside(r) /\ place[r] \in {"user", "answered"})

DestroyEnds == admin = "stopThread" ~> admin = "done"

(* Every request that comes in is answered and its submitter gets out,     *)
(* though it is throttled by the writes of the original and the image may  *)
(* go meanwhile: again and again there is none on its way.  And a          *)
(* destruction that has begun ends, whatever still comes in.               *)
RequestsAndDestroyEnd == RequestsAreAnswered /\ DestroyEnds

=============================================================================
