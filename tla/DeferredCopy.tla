---------------------------- MODULE DeferredCopy ----------------------------
(***************************************************************************)
(* One deferred request (blk_deferred.c): the copy of a batch of blocks    *)
(* from the original device to the snapstore.  The thread that copies      *)
(* sends a bio for each piece of the blocks, waits until the sectors that  *)
(* ended add up to those of the request, and does the same again to store  *)
(* them.  The ends of the bios run on any processor: each adds its         *)
(* sectors, then reads the sum, then wakes the waiter if all are there,    *)
(* and only then leaves its error; between these the thread may go on.     *)
(*                                                                         *)
(* CopyOnWrite takes each of the two stages as one step.  This module says *)
(* when that is so.  A page stands for the eight sectors of one.           *)
(***************************************************************************)
EXTENDS Integers, Sequences, FiniteSets, FiniteSetsExt

CONSTANTS
  Blocks,      \* blocks of the request
  BlockPages,  \* pages of a block
  Cuts,        \* the pages at which a range of the snapstore ends within a block
  Stores       \* where the snapstore lies: in "file" (or on devices), in "mem"

ASSUME DeferredAssumption ==
  /\ Blocks \in Nat \ {0}
  /\ BlockPages \in Nat \ {0}
  /\ Cuts \subseteq 1 .. BlockPages * Blocks
  /\ Stores \subseteq {"file", "mem"}

VARIABLES
  store,      \* snapstore->file or snapstore->mem
  at,         \* control state of the thread
  pos,        \* pages of this stage that bios were sent for
  bios,       \* the bios, in the order they were sent
  processed,  \* dio_req->sect_processed
  done,       \* the count of dio_req->complete
  result,     \* dio_req->result
  outcome,    \* what the thread takes the copy for
  buffer,     \* pages that hold the content of the original
  stored,     \* pages whose content is in the snapstore
  cut,        \* history: the thread gave up with bios of the read under way
  hurt        \* history: the end of a bio touched a request that was freed

requestVars == <<processed, done, result>>
dataVars    == <<buffer, stored>>
history     == <<cut, hurt>>
vars == <<store, at, pos, bios, requestVars, outcome, dataVars, history>>

Length == BlockPages * Blocks     \* dio_req->sect_len
Pages  == 1 .. Length

(* The last pages of the pieces that are contiguous on the device of a     *)
(* stage: the blocks on the original, their ranges in the snapstore.       *)
Ends(stage) ==
  {BlockPages * b : b \in 1 .. Blocks} \cup IF stage = "store" THEN Cuts ELSE {}

(* The last page of the piece that page pos + 1 belongs to.                *)
EndOfExtent(stage) == Min({e \in Ends(stage) : e > pos})

PagesOf(bio) == bio.first .. bio.first + bio.cnt - 1
Between(bio) == bio.at \in {"added", "all", "compared"}

Init ==
  /\ store \in Stores
  /\ at = "read" /\ pos = 0 /\ bios = <<>>
  /\ processed = 0 /\ done = 0 /\ result = "ok"
  /\ outcome = "none"
  /\ buffer = {} /\ stored = {}
  /\ cut = FALSE /\ hurt = FALSE

(* History: the thread goes on; where it overtakes the ends of the bios.   *)
GoOn ==
  bios' = [i \in DOMAIN bios |->
             IF Between(bios[i]) /\ bios[i].behind = "no"
             THEN [bios[i] EXCEPT !.behind = bios[i].at] ELSE bios[i]]

-----------------------------------------------------------------------------
(* The thread.                                                             *)

(* Mutant: not limited by the piece.                                       *)
SubmitPagesMutant(stage) ==
  /\ at = stage /\ pos < Length
  /\ \E cnt \in 1 .. BlockPages :
       /\ bios' = Append(bios, [stage |-> stage, first |-> pos + 1, cnt |-> cnt,
                                at |-> "sent", err |-> FALSE, behind |-> "no"])
       /\ pos' = pos + cnt
  /\ UNCHANGED <<store, at, requestVars, outcome, dataVars, history>>

(* _blk_deferred_submit_pages: as many pages as there is a bio for, which  *)
(* may be fewer than the rest of the piece.                                *)
SubmitPages(stage) ==
  /\ at = stage /\ pos < Length
  /\ \E cnt \in 1 .. EndOfExtent(stage) - pos :
       /\ bios' = Append(bios, [stage |-> stage, first |-> pos + 1, cnt |-> cnt,
                                at |-> "sent", err |-> FALSE, behind |-> "no"])
       /\ pos' = pos + cnt
  /\ UNCHANGED <<store, at, requestVars, outcome, dataVars, history>>

(* No bio at all: a read gives up without waiting for those it sent; to    *)
(* store is a BUG_ON.                                                      *)
SubmitFails(stage) ==
  /\ at = stage /\ pos < Length
  /\ IF stage = "read"
     THEN /\ at' = "copied" /\ outcome' = "error"
          /\ cut' = \E i \in DOMAIN bios : bios[i].at # "over"
     ELSE at' = "bug" /\ UNCHANGED <<outcome, cut>>
  /\ UNCHANGED <<store, pos, bios, requestVars, dataVars, hurt>>

Submitted(stage) ==
  /\ at = stage /\ pos = Length
  /\ at' = IF stage = "read" THEN "readWait" ELSE "storeWait"
  /\ UNCHANGED <<store, pos, bios, requestVars, outcome, dataVars, history>>

(* blk_deferred_request_read_original ends; blk_deferred_request_store_file*)
(* begins with blk_deferred_request_waiting_skip, to store in memory does  *)
(* not.                                                                    *)
ReadDone ==
  /\ at = "readWait" /\ done > 0 /\ GoOn
  /\ CASE result = "error" ->
            at' = "copied" /\ outcome' = "error" /\ done' = done - 1 /\ UNCHANGED <<pos, processed>>
       [] result = "ok" /\ store = "file" ->
            at' = "store" /\ pos' = 0 /\ processed' = 0 /\ done' = 0 /\ UNCHANGED outcome
       [] result = "ok" /\ store = "mem" ->
            at' = "storeMem" /\ done' = done - 1 /\ UNCHANGED <<pos, processed, outcome>>
  /\ UNCHANGED <<store, result, dataVars, history>>

(* blk_deffered_request_store_mem: the thread copies by itself, and counts *)
(* the sectors once more.                                                  *)
StoreMem ==
  /\ at = "storeMem"
  /\ at' = "copied" /\ outcome' = "ok"
  /\ stored' = buffer
  /\ processed' = processed + Length
  /\ done' = IF processed' = Length THEN done + 1 ELSE done
  /\ UNCHANGED <<store, pos, bios, result, buffer, history>>

(* Mutant: the result of the request is not looked at.                     *)
StoreDoneMutant ==
  /\ at = "storeWait" /\ done > 0 /\ GoOn
  /\ at' = "copied" /\ outcome' = "ok" /\ done' = done - 1
  /\ UNCHANGED <<store, pos, processed, result, dataVars, history>>

(* blk_deferred_request_store_file and _multidev end.                      *)
StoreDone ==
  /\ at = "storeWait" /\ done > 0 /\ GoOn
  /\ at' = "copied" /\ outcome' = result /\ done' = done - 1
  /\ UNCHANGED <<store, pos, processed, result, dataVars, history>>

(* Mutant: to store is waited for without an end.                          *)
TimeoutMutant ==
  /\ at = "readWait" /\ done = 0
  /\ at' = "copied" /\ outcome' = "deadlock"
  /\ UNCHANGED <<store, pos, bios, requestVars, dataVars, history>>

(* A minute has gone by: -EDEADLK.                                         *)
Timeout ==
  /\ at \in {"readWait", "storeWait"} /\ done = 0
  /\ at' = "copied" /\ outcome' = "deadlock"
  /\ UNCHANGED <<store, pos, bios, requestVars, dataVars, history>>

(* Mutant: the request that timed out is freed as well.                    *)
FreeMutant ==
  /\ at = "copied"
  /\ at' = "freed"
  /\ UNCHANGED <<store, pos, bios, requestVars, outcome, dataVars, history>>

(* The request is freed, or put aside when its bios may still be under way.*)
Free ==
  /\ at = "copied"
  /\ at' = IF outcome = "deadlock" THEN "parked" ELSE "freed"
  /\ UNCHANGED <<store, pos, bios, requestVars, outcome, dataVars, history>>

(* blk_deferred_done: the module goes; a request that was put aside is     *)
(* freed if all its sectors are counted, or stays in memory.               *)
Unload ==
  /\ at = "parked"
  /\ at' = IF processed = Length THEN "freed" ELSE "left"
  /\ GoOn
  /\ UNCHANGED <<store, pos, requestVars, outcome, dataVars, history>>

Copier ==
  \/ SubmitPages("read") \/ SubmitPages("store")
  \/ SubmitFails("read") \/ SubmitFails("store")
  \/ Submitted("read") \/ Submitted("store")
  \/ ReadDone \/ StoreMem \/ StoreDone \/ Timeout \/ Free

-----------------------------------------------------------------------------
(* The devices, and the ends of the bios: blk_deferred_complete in steps.  *)

(* The device is through with a bio; its end begins with atomic64_add.     *)
AddSectors(i) ==
  /\ bios[i].at = "sent"
  /\ \E err \in BOOLEAN :
       /\ bios' = [bios EXCEPT ![i].at = "added", ![i].err = err]
       /\ buffer' = IF err \/ bios[i].stage = "store" THEN buffer
                    ELSE buffer \cup PagesOf(bios[i])
       /\ stored' = IF err \/ bios[i].stage = "read" THEN stored
                    ELSE stored \cup (PagesOf(bios[i]) \cap buffer)
  /\ processed' = processed + bios[i].cnt
  /\ UNCHANGED <<done, result>>

(* What is left of the end of a bio once it is through with the sum.       *)
Rest(bio) == IF bio.err THEN "compared" ELSE "over"

(* Mutant: takes the sum before its own addition.                          *)
ReadSumMutant(i) ==
  /\ bios[i].at = "added"
  /\ bios' = [bios EXCEPT ![i].at =
                 IF processed - bios[i].cnt = Length THEN "all" ELSE Rest(bios[i])]
  /\ UNCHANGED <<requestVars, dataVars>>

(* atomic64_read                                                           *)
ReadSum(i) ==
  /\ bios[i].at = "added"
  /\ bios' = [bios EXCEPT ![i].at = IF processed = Length THEN "all" ELSE Rest(bios[i])]
  /\ UNCHANGED <<requestVars, dataVars>>

(* complete                                                                *)
CallComplete(i) ==
  /\ bios[i].at = "all"
  /\ bios' = [bios EXCEPT ![i].at = Rest(bios[i])]
  /\ done' = done + 1
  /\ UNCHANGED <<processed, result, dataVars>>

LeaveError(i) ==
  /\ bios[i].at = "compared"
  /\ bios' = [bios EXCEPT ![i].at = "over"]
  /\ result' = "error"
  /\ UNCHANGED <<processed, done, dataVars>>

(* Each of the steps is one in the request.  When it was freed, what they  *)
(* do is undefined, and the model ends with the first; so it does when the *)
(* module is gone, or stopped at a BUG_ON.                                 *)
BioEnd(i) ==
  /\ at \notin {"left", "bug"} /\ ~hurt
  /\ AddSectors(i) \/ ReadSum(i) \/ CallComplete(i) \/ LeaveError(i)
  /\ hurt' = (at = "freed")
  /\ UNCHANGED <<store, at, pos, outcome, cut>>

Next == Copier \/ Unload \/ \E i \in DOMAIN bios : BioEnd(i)

Spec == Init /\ [][Next]_vars

(* The scheduler runs the thread, and its timer ends the wait; nothing is  *)
(* assumed of the devices.                                                 *)
FairSpec == Spec /\ WF_vars(Copier)

-----------------------------------------------------------------------------
Stages == {"read", "store"}

TypeOK ==
  /\ store \in Stores
  /\ at \in Stages \cup {"readWait", "storeMem", "storeWait", "copied", "freed",
                         "parked", "left", "bug"}
  /\ pos \in 0 .. Length
  /\ bios \in Seq([stage : Stages, first : Pages, cnt : 1 .. BlockPages,
                   at : {"sent", "added", "all", "compared", "over"}, err : BOOLEAN,
                   behind : {"no", "added", "all", "compared"}])
  /\ processed \in 0 .. 2 * Length
  /\ done \in Nat
  /\ result \in {"ok", "error"}
  /\ outcome \in {"none", "ok", "error", "deadlock"}
  /\ buffer \subseteq Pages /\ stored \subseteq Pages
  /\ cut \in BOOLEAN /\ hurt \in BOOLEAN

(* A copy that is taken for good holds the content of the original, page   *)
(* for page, however its bios were split, failed and came in.  There are   *)
(* two exceptions, both where the thread overtakes the end of a bio        *)
(* (blk_deferred_complete): one that failed and has not left its error,    *)
(* and one that saw the sum with another and is about to complete the wait *)
(* of the next stage.                                                      *)
SuccessIsHonest ==
  at \in {"copied", "freed"} /\ outcome = "ok" =>
    \/ stored = Pages
    \/ \E i \in DOMAIN bios :
         bios[i].behind = "all" \/ (bios[i].behind # "no" /\ bios[i].err)

(* The request and its pages are freed when no bio needs them any more, or *)
(* never when the wait was given up.  Again but for the end of a bio that  *)
(* was overtaken with something left to do in the request, and for a read  *)
(* that gave up in the middle of sending.                                  *)
FreedAlone ==
  hurt =>
    \/ cut
    \/ \E i \in DOMAIN bios :
         bios[i].behind # "no"

(* The waiter is not forgotten: when the ends of all bios of its stage are *)
(* over, the completion was called, though each of them adds and reads in  *)
(* two steps and the count starts anew for the second stage.               *)
NoLostWakeup ==
  at \in {"readWait", "storeWait"} /\ (\A i \in DOMAIN bios : bios[i].at = "over") => done > 0

(* The thread comes out of the copy, also when a device never answers.     *)
CopyEnds == <>(at \in {"freed", "parked", "left", "bug"})

=============================================================================
