--------------------------- MODULE SnapstoreStretch ---------------------------
(***************************************************************************)
(* How a snapstore grows (snapstore.c, blk_descr_pool.c, ctrl_pipe.c).     *)
(* The copiers of its devices take blocks from one pool.  One that finds   *)
(* the pool low asks the backup service for more, once, through the ctrl   *)
(* pipe; the service writes the next portion into the pipe.  A copier that *)
(* finds the pool empty reports an overflow, once and for all.  The end of *)
(* the snapstore, when its last device is put, is reported too.            *)
(*                                                                         *)
(* A copier is the defer IO thread of a device, which holds the locker of  *)
(* the device; the pool has a mutex, the flags are atomics.  The service   *)
(* has a thread that owns the pipe and one that makes the ioctls; it makes *)
(* no portion for a snapstore while it takes the snapstore down.           *)
(***************************************************************************)
EXTENDS Integers, Sequences, FiniteSets, SequencesExt

CONSTANTS
  Devices,      \* the devices of the snapstore
  EmptyLimit,   \* stretch_empty_limit, in blocks
  Needs,        \* the blocks that a request to each device may need
  Portions,     \* sizes of the portions, in blocks
  MaxPortions,  \* bound: portions written
  MaxDropped    \* bound: kinds of commands that find no memory

ASSUME StretchAssumption ==
  /\ IsFiniteSet(Devices)
  /\ EmptyLimit \in Nat
  /\ Needs \in [Devices -> SUBSET (Nat \ {0})]
  /\ Portions \subseteq Nat \ {0}
  /\ MaxPortions \in Nat
  /\ MaxDropped \in Nat

VARIABLES
  total,      \* pool.total_cnt
  taken,      \* pool.take_cnt
  halffilled, \* snapstore->halffilled
  overflowed, \* snapstore->overflowed
  attached,   \* snapstore->ctrl_pipe is set
  devRefs,    \* own_cnt of each snapstore_device_t
  listed,     \* SnapstoreDevices
  captured,   \* devices whose defer IO object holds the snapstore device
  corrupted,  \* devices that are corrupted
  pc,         \* control state of each copier
  need,       \* blocks it still has to take
  pipeRefs,   \* own_cnt of the ctrl pipe
  cmds,       \* pipe->cmd_to_user
  owner,      \* control state of the thread that owns the pipe
  adding,     \* blocks of the portion that it still has to add
  portions,   \* portions written so far
  holding,    \* the command that ctrl_pipe_read has taken from the list
  told,       \* commands that the service has read
  asked,      \* it has been asked for a portion and did not try yet
  dropped,    \* history: commands dropped for want of memory; a request for a
              \* portion only until the flag halffilled is lowered
  stale       \* history: a command was sent into a released pipe

poolVars   == <<total, taken, halffilled, overflowed>>
deviceVars == <<attached, devRefs, listed, captured>>
copierVars == <<corrupted, pc, need>>
pipeVars   == <<pipeRefs, cmds, dropped, stale>>
ownerVars  == <<owner, adding, portions, holding, told, asked>>
vars == <<poolVars, deviceVars, copierVars, pipeVars, ownerVars>>

Alive(d) == devRefs[d] > 0
Told(kind) == Contains(told, kind)

-----------------------------------------------------------------------------
Init ==
  /\ total = 0
  /\ taken = 0
  /\ halffilled = 0
  /\ overflowed = 0
  /\ attached = FALSE
  /\ devRefs = [d \in Devices |-> 0]
  /\ listed = {}
  /\ captured = {}
  /\ corrupted = {}
  /\ pc = [d \in Devices |-> "idle"]
  /\ need = [d \in Devices |-> 0]
  /\ pipeRefs = 0
  /\ cmds = <<>>
  /\ owner = "closed"
  /\ adding = 0
  /\ portions = 0
  /\ holding = <<>>
  /\ told = <<>>
  /\ asked = FALSE
  /\ dropped = {}
  /\ stale = FALSE

-----------------------------------------------------------------------------
(* ctrl_pipe_push_request; without memory the command is dropped.          *)
Push(kind) ==
  /\ stale' = (stale \/ pipeRefs = 0)
  /\ \/ cmds' = Append(cmds, kind) /\ UNCHANGED dropped
     \/ /\ dropped' = dropped \cup {kind}
        /\ Cardinality(dropped') <= MaxDropped
        /\ UNCHANGED cmds

(* The pool is low: empty_blocks < empty_limit.                            *)
Low == total - taken < EmptyLimit

-----------------------------------------------------------------------------
(* The copier of a device.                                                 *)

Goes(d, from, to) == pc[d] = from /\ pc' = [pc EXCEPT ![d] = to]

(* A request to the device, n blocks of which are not stored yet.          *)
CopyBegin(d, n) ==
  /\ d \in captured
  /\ d \notin corrupted
  /\ Goes(d, "idle", "take")
  /\ need' = [need EXCEPT ![d] = n]
  /\ UNCHANGED <<poolVars, deviceVars, corrupted, pipeVars, ownerVars>>

(* The block is refused: the device is corrupted for good.                 *)
Refused(d, from) ==
  /\ Goes(d, from, "idle")
  /\ corrupted' = corrupted \cup {d}

(* snapstore_get_empty_block: no block after an overflow ...               *)
TakeBlock(d) ==
  /\ \/ overflowed = 0 /\ Goes(d, "take", "pool") /\ UNCHANGED corrupted
     \/ overflowed > 0 /\ Refused(d, "take")
  /\ UNCHANGED <<poolVars, deviceVars, need, pipeVars, ownerVars>>

(* Mutant: the last descriptor is taken twice.                             *)
PoolTakeMutant(d) ==
  /\ IF taken <= total
     THEN /\ Goes(d, "pool", IF need[d] > 1 THEN "take" ELSE "store")
          /\ taken' = taken + 1
          /\ need' = [need EXCEPT ![d] = @ - 1]
     ELSE Goes(d, "pool", "overflow") /\ UNCHANGED <<taken, need>>
  /\ UNCHANGED <<total, halffilled, overflowed, deviceVars, corrupted,
                 pipeVars, ownerVars>>

(* ... and else the next one of the pool, blk_descr_pool_take.             *)
PoolTake(d) ==
  /\ IF taken < total
     THEN /\ Goes(d, "pool", IF need[d] > 1 THEN "take" ELSE "store")
          /\ taken' = taken + 1
          /\ need' = [need EXCEPT ![d] = @ - 1]
     ELSE Goes(d, "pool", "overflow") /\ UNCHANGED <<taken, need>>
  /\ UNCHANGED <<total, halffilled, overflowed, deviceVars, corrupted,
                 pipeVars, ownerVars>>

(* The first one to find the pool empty reports the overflow.              *)
MarkOverflow(d) ==
  LET first == overflowed = 0 /\ attached
  IN /\ overflowed' = overflowed + 1
     /\ \/ first /\ Goes(d, "overflow", "report") /\ UNCHANGED corrupted
        \/ ~first /\ Refused(d, "overflow")
     /\ UNCHANGED <<total, taken, halffilled, deviceVars, need, pipeVars, ownerVars>>

ReportOverflow(d) ==
  /\ Refused(d, "report")
  /\ Push("overflow")
  /\ UNCHANGED <<poolVars, deviceVars, need, pipeRefs, ownerVars>>

(* snapstore_request_store, when the request has its blocks: a copier that *)
(* finds the flag clear looks at the level, without the mutex ...          *)
StoreCheck(d) ==
  /\ Goes(d, "store", IF attached /\ halffilled = 0 THEN "level" ELSE "idle")
  /\ UNCHANGED <<poolVars, deviceVars, corrupted, need, pipeVars, ownerVars>>

CheckLevel(d) ==
  /\ Goes(d, "level", IF Low THEN "mark" ELSE "idle")
  /\ UNCHANGED <<poolVars, deviceVars, corrupted, need, pipeVars, ownerVars>>

(* ... and the first one that raises the flag asks for a portion.          *)
MarkHalffill(d) ==
  /\ halffilled' = halffilled + 1
  /\ Goes(d, "mark", IF halffilled = 0 THEN "ask" ELSE "idle")
  /\ UNCHANGED <<total, taken, overflowed, deviceVars, corrupted, need,
                 pipeVars, ownerVars>>

AskPortion(d) ==
  /\ Goes(d, "ask", "idle")
  /\ Push("halffill")
  /\ UNCHANGED <<poolVars, deviceVars, corrupted, need, pipeRefs, ownerVars>>

Copier(d) ==
  \/ TakeBlock(d) \/ PoolTake(d) \/ MarkOverflow(d) \/ ReportOverflow(d)
  \/ StoreCheck(d) \/ CheckLevel(d) \/ MarkHalffill(d) \/ AskPortion(d)

-----------------------------------------------------------------------------
(* The thread of the service that owns the pipe.                           *)

OwnerGoes(from, to) == owner = from /\ owner' = to

(* ctrl_open, once: the file holds the pipe.                               *)
Open ==
  /\ pipeRefs = 0 /\ told = <<>>
  /\ OwnerGoes("closed", "new")
  /\ pipeRefs' = 1
  /\ UNCHANGED <<poolVars, deviceVars, copierVars, cmds, dropped, stale, adding,
                 portions, holding, told, asked>>

(* VEEAMSNAP_CHARCMD_INITIATE: snapstore_create makes the snapstore and a  *)
(* snapstore device for each device ...                                    *)
Create ==
  /\ OwnerGoes("new", "attach")
  /\ devRefs' = [d \in Devices |-> 1]
  /\ listed' = Devices
  /\ UNCHANGED <<poolVars, attached, captured, copierVars, pipeVars, adding,
                 portions, holding, told, asked>>

(* ... or takes all of them back when one cannot be made ...               *)
CreateFails ==
  /\ OwnerGoes("new", "failed")
  /\ UNCHANGED <<poolVars, deviceVars, copierVars, pipeVars, adding, portions,
                 holding, told, asked>>

(* ... snapstore_stretch_initiate gives the snapstore the pipe ...         *)
Attach ==
  /\ OwnerGoes("attach", "acknowledge")
  /\ attached' = TRUE
  /\ pipeRefs' = pipeRefs + 1
  /\ UNCHANGED <<poolVars, devRefs, listed, captured, copierVars, cmds, dropped,
                 stale, adding, portions, holding, told, asked>>

(* ... and the result is acknowledged.                                     *)
Acknowledge ==
  /\ \/ OwnerGoes("acknowledge", "open") /\ Push("acknowledge")
     \/ OwnerGoes("failed", "refused") /\ Push("refuse")
  /\ UNCHANGED <<poolVars, deviceVars, copierVars, pipeRefs, adding, portions,
                 holding, told, asked>>

(* ctrl_pipe_read takes the first command off the list ...                 *)
ReadFirst ==
  /\ owner \in {"open", "refused"}
  /\ holding = <<>>
  /\ cmds # <<>>
  /\ holding' = <<Head(cmds)>>
  /\ cmds' = Tail(cmds)
  /\ UNCHANGED <<poolVars, deviceVars, copierVars, pipeRefs, dropped, stale,
                 owner, adding, portions, told, asked>>

(* ... and copies it to the user ...                                       *)
ReadCopies ==
  /\ holding # <<>>
  /\ holding' = <<>>
  /\ told' = told \o holding
  /\ asked' = (asked \/ holding[1] = "halffill")
  /\ UNCHANGED <<poolVars, deviceVars, copierVars, pipeVars, owner, adding, portions>>

(* Mutant: a command that was not delivered goes to the end of the list.   *)
ReadPutsBackMutant ==
  /\ holding # <<>>
  /\ holding' = <<>>
  /\ cmds' = cmds \o holding
  /\ UNCHANGED <<poolVars, deviceVars, copierVars, pipeRefs, dropped, stale,
                 owner, adding, portions, told, asked>>

(* Mutant: a command that was not delivered is lost.                       *)
ReadPutsBackMutant2 ==
  /\ holding # <<>>
  /\ holding' = <<>>
  /\ UNCHANGED <<poolVars, deviceVars, copierVars, pipeVars, owner, adding,
                 portions, told, asked>>

(* ... or, when the buffer is too small, puts it back on top.              *)
ReadPutsBack ==
  /\ holding # <<>>
  /\ holding' = <<>>
  /\ cmds' = holding \o cmds
  /\ UNCHANGED <<poolVars, deviceVars, copierVars, pipeRefs, dropped, stale,
                 owner, adding, portions, told, asked>>

(* VEEAMSNAP_CHARCMD_NEXT_PORTION, on the service's own account or because *)
(* it was asked: snapstore_add_file finds the snapstore ...                *)
PortionBegin(n) ==
  /\ holding = <<>>
  /\ Told("acknowledge")
  /\ ~Told("terminate")
  /\ portions < MaxPortions
  /\ \E d \in Devices : Alive(d)
  /\ OwnerGoes("open", "adding")
  /\ adding' = n
  /\ portions' = portions + 1
  /\ asked' = FALSE
  /\ UNCHANGED <<poolVars, deviceVars, copierVars, pipeVars, holding, told>>

(* ... adds block after block to the pool, each under the mutex ...        *)
AddBlock ==
  /\ owner = "adding"
  /\ adding > 0
  /\ total' = total + 1
  /\ adding' = adding - 1
  /\ UNCHANGED <<taken, halffilled, overflowed, deviceVars, copierVars, pipeVars,
                 owner, portions, holding, told, asked>>

(* ... leaves them there when it fails on the way; the write returns the   *)
(* error ...                                                               *)
AddFails ==
  /\ adding > 0
  /\ OwnerGoes("adding", "open")
  /\ adding' = 0
  /\ asked' = TRUE
  /\ UNCHANGED <<poolVars, deviceVars, copierVars, pipeVars, portions, holding, told>>

(* Mutant: the flag stays up.                                              *)
PortionEndMutant ==
  /\ adding = 0
  /\ OwnerGoes("adding", "open")
  /\ UNCHANGED <<poolVars, deviceVars, copierVars, pipeVars, adding, portions,
                 holding, told, asked>>

(* ... and in the end lowers the flag.                                     *)
PortionEnd ==
  /\ adding = 0
  /\ OwnerGoes("adding", "open")
  /\ halffilled' = 0
  /\ dropped' = dropped \ {"halffill"}
  /\ UNCHANGED <<total, taken, overflowed, deviceVars, copierVars, pipeRefs, cmds,
                 stale, adding, portions, holding, told, asked>>

(* ctrl_release, at any time between two calls: the service may die.       *)
Close ==
  /\ holding = <<>>
  /\ owner \in {"new", "open", "refused"}
  /\ owner' = "closed"
  /\ pipeRefs' = pipeRefs - 1
  /\ cmds' = IF pipeRefs = 1 THEN <<>> ELSE cmds
  /\ told' = Append(told, "closed")
  /\ UNCHANGED <<poolVars, deviceVars, copierVars, dropped, stale, adding,
                 portions, holding, asked>>

Owner ==
  \/ Create \/ CreateFails \/ Attach \/ Acknowledge
  \/ ReadFirst \/ ReadCopies \/ ReadPutsBack
  \/ AddBlock \/ AddFails \/ PortionEnd

-----------------------------------------------------------------------------
(* The ioctls that capture devices and take them and the snapstore down.   *)

(* tracker_capture_snapshot: the defer IO object holds the device.  The    *)
(* service makes no snapshot before the snapstore was acknowledged.        *)
Capture(d) ==
  /\ Told("acknowledge")
  /\ d \in listed
  /\ d \notin captured
  /\ captured' = captured \cup {d}
  /\ devRefs' = [devRefs EXCEPT ![d] = @ + 1]
  /\ UNCHANGED <<poolVars, attached, listed, copierVars, pipeVars, ownerVars>>

(* snapstore_device_put_resource; the last device takes the snapstore with *)
(* it, which reports that and puts the pipe.                               *)
PutDevice(d) ==
  /\ devRefs' = [devRefs EXCEPT ![d] = @ - 1]
  /\ IF attached /\ \A e \in Devices : devRefs'[e] = 0
     THEN /\ attached' = FALSE
          /\ Push("terminate")
          /\ pipeRefs' = pipeRefs - 1
     ELSE UNCHANGED <<attached, pipeVars>>

(* tracker_release_snapshot: the defer IO thread ends, and with the defer  *)
(* IO object a reference of the snapstore device.                          *)
Release(d) ==
  /\ d \in captured
  /\ pc[d] = "idle"
  /\ owner # "adding"
  /\ captured' = captured \ {d}
  /\ PutDevice(d)
  /\ UNCHANGED <<poolVars, listed, copierVars, ownerVars>>

(* snapstore_device_cleanup takes device after device off the list.        *)
CleanupDevice(d) ==
  /\ Told("acknowledge") \/ Told("closed")
  /\ d \in listed
  /\ owner # "adding"
  /\ listed' = listed \ {d}
  /\ PutDevice(d)
  /\ UNCHANGED <<poolVars, captured, copierVars, ownerVars>>

Next ==
  \/ \E d \in Devices : \E n \in Needs[d] : CopyBegin(d, n)
  \/ \E d \in Devices : Copier(d) \/ Capture(d) \/ Release(d) \/ CleanupDevice(d)
  \/ Open \/ Owner \/ Close
  \/ \E n \in Portions : PortionBegin(n)

Spec == Init /\ [][Next]_vars

(* Copiers run.  The service, as long as it lives, reads the pipe with a   *)
(* buffer that is large enough in the end, and finishes what it writes.    *)
Fairness ==
  /\ \A d \in Devices : WF_vars(Copier(d))
  /\ WF_vars(ReadFirst)
  /\ SF_vars(ReadCopies)
  /\ WF_vars(Create \/ CreateFails \/ Attach \/ Acknowledge)
  /\ WF_vars(AddBlock \/ AddFails \/ PortionEnd)

FairSpec == Spec /\ Fairness

-----------------------------------------------------------------------------
(* Properties.                                                             *)

CommandKinds == {"acknowledge", "refuse", "halffill", "overflow", "terminate"}

(* Every variable keeps its type, and no block is taken that is not there. *)
TypeOK ==
  /\ total \in Nat
  /\ taken \in 0 .. total
  /\ halffilled \in Nat
  /\ overflowed \in Nat
  /\ attached \in BOOLEAN
  /\ devRefs \in [Devices -> Nat]
  /\ listed \subseteq Devices
  /\ captured \subseteq Devices
  /\ corrupted \subseteq Devices
  /\ pc \in [Devices -> {"idle", "take", "pool", "overflow", "report", "store",
                         "level", "mark", "ask"}]
  /\ need \in [Devices -> Nat]
  /\ pipeRefs \in 0 .. 2
  /\ cmds \in Seq(CommandKinds)
  /\ owner \in {"closed", "new", "attach", "acknowledge", "failed", "refused",
                "open", "adding"}
  /\ adding \in Nat
  /\ portions \in 0 .. MaxPortions
  /\ holding \in Seq(CommandKinds)
  /\ told \in Seq(CommandKinds \cup {"closed"})
  /\ asked \in BOOLEAN
  /\ dropped \subseteq CommandKinds
  /\ stale \in BOOLEAN

(* The commands that were sent, in the order the service gets them.        *)
Sent == told \o holding \o cmds
Sends(kind) == Contains(Sent, kind)
Copies(kind) == Cardinality({i \in DOMAIN Sent : Sent[i] = kind})

(* The flag that keeps copiers from asking is up only while a portion is   *)
(* on its way: asked for in the pipe or about to be, read by the service,  *)
(* or being added.  Else a low snapstore would never ask again.  It can    *)
(* not be so when there was no memory for the request: ctrl_pipe_request_  *)
(* halffill drops it and nobody lowers the flag that its caller has set.   *)
(* That lasts until the service adds a portion unasked; from then on the   *)
(* flag is right again.                                                    *)
FlagMeansAsked ==
  attached /\ halffilled > 0 /\ owner # "closed" /\ "halffill" \notin dropped =>
    \/ \E d \in Devices : pc[d] = "ask"
    \/ Contains(holding \o cmds, "halffill")
    \/ asked
    \/ owner = "adding"

(* An overflow of the snapstore is reported exactly once, whichever        *)
(* copiers run into it, unless there is no memory for the report; a device *)
(* is corrupted for want of blocks only if there is one.                   *)
OverflowIsReported ==
  /\ corrupted # {} => overflowed > 0
  /\ attached /\ overflowed > 0 /\ "overflow" \notin dropped =>
       Copies("overflow") + Cardinality({d \in Devices : pc[d] = "report"}) = 1

(* The messages that say how full the snapstore is are right when there is *)
(* memory for them: a request for more that found memory is not believed   *)
(* sent when it was already served or never made, an overflow is sent once.*)
NoticesAreRight == FlagMeansAsked /\ OverflowIsReported

(* Nothing is sent after the end of the snapstore was reported, and none   *)
(* of its devices is captured then; and the pipe lives as long as somebody *)
(* can send into it, also when the service has died.                       *)
TerminateIsLast ==
  /\ ~stale
  /\ Sends("terminate") =>
       /\ captured = {}
       /\ \A i \in 1 .. Len(Sent) - 1 :
            Sent[i] = "terminate" => Sent[i + 1] = "closed"

(* A service that lives hears of an overflow, whatever else is in the pipe *)
(* and however often its buffer is too small.                              *)
OverflowIsHeard ==
  attached /\ overflowed > 0
    ~> Told("overflow") \/ "overflow" \in dropped \/ owner = "closed"

=============================================================================
