--------------------------- MODULE PointInTimeImage ---------------------------
(***************************************************************************)
(* What a snapshot image promises to its user, who asks for one request at *)
(* a time: its blocks change only in the step that carries out the pending *)
(* write, which changes the blocks it asked for and no other, to what it   *)
(* asked for.  A block may be given up, one at a time or all together when *)
(* the snapshot is corrupted or taken away, and a block that was given up  *)
(* never comes back.                                                       *)
(***************************************************************************)
CONSTANTS
  Blocks,    \* the blocks of the image
  Contents,  \* what a block can hold
  Initial,   \* what each of them holds when the snapshot is taken
  Unknown,   \* none of Contents: the content of a block that was given up
  NoRequest  \* nothing is asked of the image

VARIABLES
  image,   \* what each block of the image holds
  request  \* the request that the user waits for

Request == [id : Contents, write : BOOLEAN, blks : SUBSET Blocks]

Init == image = [b \in Blocks |-> Initial] /\ request = NoRequest

(* The user asks for a read or a write.                                    *)
Ask(req) ==
  /\ request = NoRequest
  /\ request' = req
  /\ UNCHANGED image

Answered == request # NoRequest /\ request' = NoRequest

(* A read is over: whatever it delivered, the image is as it was.          *)
Read == Answered /\ ~request.write /\ UNCHANGED image

(* The pending write is carried out.                                       *)
Write ==
  /\ Answered
  /\ request.write
  /\ image' = [b \in Blocks |->
                 IF b \in request.blks /\ image[b] # Unknown
                 THEN request.id ELSE image[b]]

(* The pending write fails, and the whole image is given up with it.       *)
WriteFails ==
  /\ Answered
  /\ request.write
  /\ image' = [b \in Blocks |-> Unknown]

GiveUp(blks) ==
  /\ image' = [b \in Blocks |-> IF b \in blks THEN Unknown ELSE image[b]]
  /\ UNCHANGED request

Next ==
  \/ \E req \in Request : Ask(req)
  \/ Read \/ Write \/ WriteFails
  \/ \E blks \in SUBSET Blocks : GiveUp(blks)

Spec == Init /\ [][Next]_<<image, request>>

=============================================================================
