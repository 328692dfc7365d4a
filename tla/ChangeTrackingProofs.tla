------------------------ MODULE ChangeTrackingProofs ------------------------
(***************************************************************************)
(* Theorems about ChangeTracking, for every device, every set of writers,  *)
(* every largest snapshot number and any number of snapshots.              *)
(***************************************************************************)
EXTENDS ChangeTracking, SequenceTheorems, TLAPS

(* What the thread has done, it has done for a request in its queue.       *)
ThreadHasRequest == deferPc # "idle" => queue # <<>>

(* tracker->is_captured, tracker->defer_io and the freeze, at each point   *)
(* of _tracker_capture_snapshot and _tracker_release_snapshot.             *)
Phases ==
  /\ captured <=> admin \in {"switch", "thaw", "held", "clear"}
  /\ deferIo = "running" <=> admin \in {"capture", "switch", "thaw", "held", "clear"}
  /\ deferIo = "stopping" <=> admin \in {"rethaw", "stop"}
  /\ frozen => admin \in {"create", "capture", "switch", "thaw", "clear", "rethaw"}

(* A request that no release has overtaken without a freeze is redirected  *)
(* while the device is captured; requests are queued only while there is a *)
(* thread; and a tracker is replaced when no request is on its way.        *)
Stillness ==
  /\ \A w \in Writers \ exposed :
       pc[w] = "redirect" => admin \in {"switch", "thaw", "held", "clear"}
  /\ queue # <<>> => deferIo # "none"
  /\ admin = "untracked" => \A w \in Writers : pc[w] \in {"idle", "dead"}

AdminInv == ThreadHasRequest /\ Phases /\ Stillness

-----------------------------------------------------------------------------
(* The numbers: the map that a service reads is of the generation that     *)
(* genPrevious names, and a backup is older than the number being marked.  *)
NumbersInOrder ==
  /\ active # 1 => genPrevious = genActive
  /\ genPrevious = genActive => previous < active
  /\ backup.gen = genActive => backup.number < active
  /\ admin \in {"thaw", "held"} /\ backup.gen = genPrevious => backup.number <= previous

(* A map that stays in action has the capacity of the device, or the       *)
(* device has been resized since the last backup.                          *)
CapacitiesInOrder ==
  /\ mapCapacity <= capacity
  /\ backup.capacity <= capacity
  /\ admin \in {"freeze", "create", "capture", "switch"} =>
       /\ backup.capacity <= mapCapacity
       /\ mapActive \/ mapCapacity < capacity

(* A request is marked with the active number when the device takes it,    *)
(* because it holds the lock of the map from the mark to the submission.   *)
MarkedBeforeSubmit ==
  mapActive =>
    /\ \A w \in Writers : pc[w] = "submit" =>
         w \in readers /\ \A b \in req[w].blks : writeMap[b] >= active
    /\ deferPc = "marked" =>
         Defer \in readers /\ \A b \in Head(queue).blks : writeMap[b] >= active

(* The block has not been marked since the number.                         *)
Unmarked(b, gen, number) ==
  /\ gen = genActive
  /\ mapActive
  /\ admin # "untracked"
  /\ writeMap[b] <= number

(* The defer IO thread has copied the block and not yet marked it.         *)
Pending(b) == deferPc = "copied" /\ b \in Head(queue).blks

(* ... and the map may have been switched in between.                      *)
Owing(b) == Pending(b) /\ admin \in {"thaw", "held", "clear", "rethaw", "stop"}

(* A block that is marked before the switch is reported for this image.    *)
LateIsMarked ==
  admin \in {"capture", "switch"} /\ mapActive => \A b \in late : writeMap[b] >= active

(* An unmarked block of the device is still as the last backup read it.    *)
BackupOfDevice ==
  \A b \in Blocks : Unmarked(b, backup.gen, backup.number) =>
    \/ backup.data[b] = orig[b]
    \/ b \in late \cup missed
    \/ Owing(b)

(* An unmarked block of the device is still as the snapshot shows it, and  *)
(* as the snapshot found it when nothing marked it during the capture.     *)
ImageOfDevice ==
  /\ admin = "switch" /\ mapActive =>
       \A b \in Blocks : writeMap[b] < active => image[b] = orig[b]
  /\ admin \in {"capture", "switch"} =>
       \A b \in Blocks : store[b] = NoCopy \/ b \in late \/ Pending(b)
  /\ admin \in {"thaw", "held"} =>
       \A b \in Blocks : Unmarked(b, genPrevious, previous) =>
         /\ readMap[b] < previous => image[b] = orig[b]
         /\ View(b) = orig[b] \/ b \in late \/ Pending(b)

(* What IncrementalIsExact says, from the switch of the map on.            *)
BackupOfImage ==
  admin \in {"thaw", "held"} /\ (genPrevious = backup.gen => previous # backup.number) =>
    \A b \in Unreported \ missed : backup.data[b] = image[b]

BackupInv ==
  /\ NumbersInOrder
  /\ CapacitiesInOrder
  /\ MarkedBeforeSubmit
  /\ LateIsMarked
  /\ BackupOfDevice
  /\ ImageOfDevice
  /\ BackupOfImage

-----------------------------------------------------------------------------
(* Raised keeps the type of a map and only raises its numbers.             *)
LEMMA RaisedMap ==
  ASSUME NEW map \in [Blocks -> Numbers], NEW blks, NEW number \in Numbers
  PROVE  /\ Raised(map, blks, number) \in [Blocks -> Numbers]
         /\ \A b \in Blocks : Raised(map, blks, number)[b] >= map[b]
         /\ \A b \in Blocks : b \in blks => Raised(map, blks, number)[b] >= number
         /\ \A b \in Blocks : b \notin blks => Raised(map, blks, number)[b] = map[b]
BY TrackingAssumption DEF Raised, Numbers

(* What the marking of a request does to the map and to its lock.          *)
LEMMA CbtMarkEffect ==
  ASSUME TypeOK, NEW who \in Writers \cup {Defer}, NEW blks, CbtMark(who, blks)
  PROVE  /\ readers' \subseteq Writers \cup {Defer}
         /\ writeMap' \in [Blocks -> Numbers]
         /\ mapActive' \in BOOLEAN
         /\ mapActive' => mapActive
         /\ mapActive' => who \in readers' /\ readers \subseteq readers'
         /\ ~mapActive' /\ mapActive => mapCapacity # capacity
         /\ UNCHANGED <<readMap, mapCapacity>>
         /\ \A b \in Blocks : writeMap'[b] >= writeMap[b]
         /\ mapActive' => \A b \in Blocks \cap blks : writeMap'[b] >= active
<1>1. active \in Numbers /\ \A b \in Blocks : writeMap[b] \in Int
  BY TrackingAssumption DEF TypeOK, Numbers
<1>2. CASE mapActive /\ mapCapacity = capacity
  <2>1. /\ readers' = readers \cup {who}
        /\ writeMap' = Raised(writeMap, blks, active)
        /\ UNCHANGED <<readMap, mapActive, mapCapacity>>
    BY <1>2 DEF CbtMark, CbtSet
  <2>2. mapActive' \in BOOLEAN /\ readers' \subseteq Writers \cup {Defer}
    BY <2>1 DEF TypeOK
  <2>3. writeMap \in [Blocks -> Numbers]
    BY DEF TypeOK
  <2>4. QED
    BY <1>1, <1>2, <2>1, <2>2, <2>3, RaisedMap
<1>3. CASE mapActive /\ mapCapacity # capacity
  <2>1. /\ readers' = readers \cup {who}
        /\ mapActive' = FALSE
        /\ UNCHANGED <<readMap, writeMap, mapCapacity>>
    BY <1>3 DEF CbtMark, CbtSet
  <2>2. ~mapActive'
    BY <2>1
  <2>3. readers' \subseteq Writers \cup {Defer} /\ writeMap' \in [Blocks -> Numbers]
    BY <2>1 DEF TypeOK
  <2>4. mapActive' \in BOOLEAN
    BY <2>1
  <2>5. writeMap' = writeMap /\ \A b \in Blocks : writeMap[b] >= writeMap[b]
    BY <1>1, <2>1
  <2>6. QED
    BY <1>3, <2>1, <2>2, <2>3, <2>4, <2>5
<1>4. CASE ~mapActive
  <2>1. UNCHANGED <<readers, readMap, writeMap, mapActive, mapCapacity>>
    BY <1>4 DEF CbtMark, mapVars
  <2>2. QED
    BY <1>1, <1>4, <2>1 DEF TypeOK
<1>5. QED
  BY <1>2, <1>3, <1>4

(* The content of the device keeps its type.                               *)
LEMMA SubmitType ==
  ASSUME TypeOK, NEW r, r.id \in Writes, Submit(r)
  PROVE  orig' \in [Blocks -> Writes]
BY DEF TypeOK, Submit

(* A queue that is not empty has a request at its head, and a queue behind *)
(* it.                                                                     *)
LEMMA HeadIsRequest ==
  ASSUME queue \in Seq(Request), queue # <<>>
  PROVE  Head(queue) \in Request /\ Tail(queue) \in Seq(Request)
BY HeadTailProperties

-----------------------------------------------------------------------------
(* Spec keeps every variable in its type: the numbers of the snapshots fit *)
(* the byte that the map keeps for a block, whatever is resized and        *)
(* however often the number starts again.                                  *)
LEMMA TypeInit == Init => TypeOK /\ ThreadHasRequest
<1> SUFFICES ASSUME Init PROVE TypeOK /\ ThreadHasRequest
  OBVIOUS
<1>1. /\ 0 \in Writes /\ 0 \in Numbers /\ 0 \in 0 .. MaxResizes /\ 0 \in 0 .. MaxSnapshots
      /\ 1 \in 1 .. MaxWrites + 1 /\ 1 \in 1 .. MaxNumber
  BY TrackingAssumption DEF Writes, Numbers
<1>2. req \in [Writers -> Request]
  BY <1>1 DEF Init, Request
<1>3. pc \in [Writers -> {"idle", "redirect", "lowlevel", "submit", "dead"}] /\ queue \in Seq(Request)
  BY DEF Init
<1>4. backup \in [gen : 0 .. generations, number : Numbers,
                  capacity : 0 .. MaxResizes, data : [Blocks -> Writes]]
  BY <1>1 DEF Init, NoBackup
<1>5. /\ orig \in [Blocks -> Writes] /\ image \in [Blocks -> Writes]
      /\ store \in [Blocks -> Writes \cup {NoCopy}]
      /\ readMap \in [Blocks -> Numbers] /\ writeMap \in [Blocks -> Numbers]
  BY <1>1 DEF Init
<1>6. /\ genActive \in 1 .. generations /\ genPrevious \in 1 .. generations
      /\ generations \in Nat
  BY DEF Init
<1>7. QED
  BY <1>1, <1>2, <1>3, <1>4, <1>5, <1>6 DEF Init, TypeOK, ThreadHasRequest

LEMMA WritersKeepType ==
  ASSUME TypeOK, ThreadHasRequest, NEW w \in Writers,
         \/ \E blks \in Requests : MakeRequest(w, blks) \/ UntrackedRequest(w, blks)
         \/ WriterStep(w)
  PROVE  TypeOK' /\ ThreadHasRequest'
<1> USE DEF TypeOK, ThreadHasRequest, deviceVars, writerVars, deferVars, adminVars, numberVars,
            mapVars, serviceVars, history
<1>1. ASSUME NEW blks \in Requests, MakeRequest(w, blks)
      PROVE  TypeOK' /\ ThreadHasRequest'
  <2>1. nextWrite \in Writes /\ blks \subseteq Blocks /\ nextWrite' \in 1 .. MaxWrites + 1
    BY <1>1, TrackingAssumption DEF MakeRequest, MayBegin, Writes
  <2>2. [id |-> nextWrite, blks |-> blks, by |-> w] \in Request
    BY <2>1 DEF Request
  <2>3. req' \in [Writers -> Request]
    BY <1>1, <2>2 DEF MakeRequest
  <2>4. pc' \in [Writers -> {"idle", "redirect", "lowlevel", "submit", "dead"}]
    BY <1>1 DEF MakeRequest
  <2>5. QED
    BY <1>1, <2>1, <2>3, <2>4 DEF MakeRequest
<1>2. ASSUME NEW blks \in Requests, UntrackedRequest(w, blks)
      PROVE  TypeOK' /\ ThreadHasRequest'
  <2>1. nextWrite \in Writes /\ nextWrite' \in 1 .. MaxWrites + 1
    BY <1>2, TrackingAssumption DEF UntrackedRequest, MayBegin, Writes
  <2>2. orig' \in [Blocks -> Writes]
    BY <1>2, <2>1, SubmitType DEF UntrackedRequest
  <2>3. QED
    BY <1>2, <2>1, <2>2 DEF UntrackedRequest
<1>3. CASE Redirect(w)
  <2>1. queue' \in Seq(Request) /\ queue' # <<>>
    BY <1>3, AppendProperties DEF Redirect
  <2>2. QED
    BY <1>3, <2>1 DEF Redirect
<1>4. CASE RedirectFails(w)
  BY <1>4 DEF RedirectFails
<1>8. CASE RedirectLate(w)
  <2>1. queue' \in Seq(Request) /\ (queue # <<>> => queue' # <<>>)
    <3>1. CASE queue' = Append(queue, req[w])
      BY <3>1, AppendProperties
    <3>2. CASE queue' = queue
      BY <3>2
    <3>3. QED
      BY <1>8, <3>1, <3>2 DEF RedirectLate
  <2>2. pc' \in [Writers -> {"idle", "redirect", "lowlevel", "submit", "dead"}]
    BY <1>8 DEF RedirectLate
  <2>3. QED
    BY <1>8, <2>1, <2>2 DEF RedirectLate
<1>5. CASE LowLevelMark(w)
  <2>1. pc' \in [Writers -> {"idle", "redirect", "lowlevel", "submit", "dead"}]
    BY <1>5 DEF LowLevelMark
  <2>2. CbtMark(w, req[w].blks)
    BY <1>5 DEF LowLevelMark
  <2>3. QED
    BY <1>5, <2>1, <2>2, CbtMarkEffect DEF LowLevelMark
<1>6. CASE LowLevelSubmit(w)
  <2>1. req[w].id \in Writes
    BY DEF Request
  <2>2. orig' \in [Blocks -> Writes]
    BY <1>6, <2>1, SubmitType DEF LowLevelSubmit
  <2>3. QED
    BY <1>6, <2>2 DEF LowLevelSubmit
<1>7. QED
  BY <1>1, <1>2, <1>3, <1>4, <1>5, <1>6, <1>8 DEF WriterStep

LEMMA DeferKeepsType ==
  ASSUME TypeOK, ThreadHasRequest, DeferStep
  PROVE  TypeOK' /\ ThreadHasRequest'
<1> USE DEF TypeOK, ThreadHasRequest, deviceVars, writerVars, adminVars, numberVars,
            mapVars, serviceVars, history
<1>1. CASE DeferCopy
  <2>1. \A b \in Blocks : View(b) \in Writes \cup {NoCopy}
    BY DEF View
  <2>2. store' \in [Blocks -> Writes \cup {NoCopy}]
    BY <1>1, <2>1 DEF DeferCopy
  <2>3. QED
    BY <1>1, <2>2 DEF DeferCopy
<1>2. CASE DeferMark
  <2>1. CbtMark(Defer, Head(queue).blks)
    BY <1>2 DEF DeferMark
  <2>2. Head(queue) \in Request
    BY <1>2, HeadIsRequest DEF DeferMark
  <2>3. late' \subseteq Blocks
    BY <1>2, <2>2 DEF DeferMark, Request
  <2>4. QED
    BY <1>2, <2>1, <2>3, CbtMarkEffect DEF DeferMark
<1>3. CASE DeferSubmit
  <2>1. Head(queue) \in Request /\ Tail(queue) \in Seq(Request)
    BY <1>3, HeadIsRequest DEF DeferSubmit
  <2>2. orig' \in [Blocks -> Writes]
    BY <1>3, <2>1, SubmitType DEF DeferSubmit, Request
  <2>3. QED
    BY <1>3, <2>1, <2>2 DEF DeferSubmit
<1>4. QED
  BY <1>1, <1>2, <1>3 DEF DeferStep

LEMMA AdminKeepsType ==
  ASSUME TypeOK, ThreadHasRequest, TrackingAdd \/ Capturing \/ StartRelease \/ Releasing
  PROVE  TypeOK' /\ ThreadHasRequest'
<1> USE DEF TypeOK, ThreadHasRequest, AdminGoes, deviceVars, writerVars, deferVars, adminVars,
            numberVars, mapVars, serviceVars, history
<1>1. CASE TrackingAdd
  BY <1>1, TrackingAssumption DEF TrackingAdd
<1>2. CASE TrackerRemove
  BY <1>2 DEF TrackerRemove
<1>3. CASE TrackerCreate
  <2>1. /\ readMap' \in [Blocks -> Numbers] /\ writeMap' \in [Blocks -> Numbers]
        /\ active' \in 1 .. MaxNumber /\ previous' \in Numbers
        /\ generations' \in Nat /\ genActive' \in 1 .. generations'
        /\ genPrevious' \in 1 .. generations' /\ mapCapacity' \in 0 .. MaxResizes
        /\ mapActive' \in BOOLEAN
    BY <1>3, TrackingAssumption DEF TrackerCreate, CbtCreate, Numbers
  <2>2. backup' \in [gen : 0 .. generations', number : Numbers,
                     capacity : 0 .. MaxResizes, data : [Blocks -> Writes]]
    BY <1>3 DEF TrackerCreate, CbtCreate
  <2>3. QED
    BY <1>3, <2>1, <2>2 DEF TrackerCreate
<1>4. ASSUME NEW from, NEW to \in {"create", "clear"}, Freeze(from, to)
      PROVE  TypeOK' /\ ThreadHasRequest'
  BY <1>4 DEF Freeze
<1>12. ASSUME NEW from, NEW to \in {"create", "clear"}, FreezeFails(from, to)
       PROVE  TypeOK' /\ ThreadHasRequest'
  BY <1>12 DEF FreezeFails
<1>13. CASE CaptureFails
  BY <1>13 DEF CaptureFails
<1>5. CASE CreateDeferIo
  BY <1>5 DEF CreateDeferIo
<1>6. CASE SetCaptured
  BY <1>6 DEF SetCaptured
<1>7. CASE SwitchCbt
  <2>1. /\ readMap' \in [Blocks -> Numbers] /\ writeMap' \in [Blocks -> Numbers]
        /\ active' \in 1 .. MaxNumber /\ previous' \in Numbers
        /\ generations' \in Nat /\ generations' >= generations
        /\ genActive' \in 1 .. generations' /\ genPrevious' \in 1 .. generations'
    <3>1. CASE active = MaxNumber
      BY <1>7, <3>1, TrackingAssumption DEF SwitchCbt, CbtSwitch, Numbers
    <3>2. CASE active # MaxNumber
      BY <1>7, <3>2, TrackingAssumption DEF SwitchCbt, CbtSwitch, Numbers
    <3>3. QED
      BY <3>1, <3>2
  <2>2. backup' \in [gen : 0 .. generations', number : Numbers,
                     capacity : 0 .. MaxResizes, data : [Blocks -> Writes]]
    BY <1>7, <2>1 DEF SwitchCbt
  <2>3. QED
    BY <1>7, <2>1, <2>2 DEF SwitchCbt, CbtSwitch
<1>8. ASSUME NEW from, NEW to \in {"held", "stop"}, Thaw(from, to)
      PROVE  TypeOK' /\ ThreadHasRequest'
  BY <1>8 DEF Thaw
<1>9. CASE ClearCaptured
  BY <1>9 DEF ClearCaptured, Overtaken
<1>10. CASE StopDeferIo
  BY <1>10 DEF StopDeferIo
<1>11. QED
  BY <1>1, <1>2, <1>3, <1>4, <1>5, <1>6, <1>7, <1>8, <1>9, <1>10, <1>12, <1>13
     DEF Capturing, StartRelease, Releasing

LEMMA ServiceKeepsType ==
  ASSUME TypeOK, ThreadHasRequest,
         Resize \/ Backup \/ \E blks \in Requests : ImageWrite(blks)
  PROVE  TypeOK' /\ ThreadHasRequest'
<1> USE DEF TypeOK, ThreadHasRequest, deviceVars, writerVars, deferVars, adminVars,
            numberVars, mapVars, serviceVars, history
<1>1. CASE Resize
  BY <1>1, TrackingAssumption DEF Resize
<1>2. CASE Backup
  <2>1. \A b \in Blocks : View(b) \in Writes
    BY DEF View, NoCopy
  <2>2. [b \in Blocks |-> IF b \in Unreported THEN backup.data[b] ELSE View(b)] \in [Blocks -> Writes]
    BY <2>1
  <2>3. backup' \in [gen : 0 .. generations, number : Numbers,
                     capacity : 0 .. MaxResizes, data : [Blocks -> Writes]]
    BY <1>2, <2>2 DEF Backup
  <2>4. QED
    BY <1>2, <2>3 DEF Backup
<1>3. ASSUME NEW blks \in Requests, ImageWrite(blks)
      PROVE  TypeOK' /\ ThreadHasRequest'
  <2>1. nextWrite \in Writes /\ nextWrite' \in 1 .. MaxWrites + 1 /\ active \in Numbers
    BY <1>3, TrackingAssumption DEF ImageWrite, Writes, Numbers
  <2>2. writeMap' \in [Blocks -> Numbers] /\ readMap' \in [Blocks -> Numbers]
    BY <1>3, <2>1, RaisedMap DEF ImageWrite
  <2>3. store' \in [Blocks -> Writes \cup {NoCopy}] /\ image' \in [Blocks -> Writes]
    BY <1>3, <2>1 DEF ImageWrite
  <2>4. QED
    BY <1>3, <2>1, <2>2, <2>3 DEF ImageWrite
<1>4. QED
  BY <1>1, <1>2, <1>3

LEMMA TypeStep == TypeOK /\ ThreadHasRequest /\ [Next]_vars => TypeOK' /\ ThreadHasRequest'
<1> SUFFICES ASSUME TypeOK, ThreadHasRequest, [Next]_vars
             PROVE  TypeOK' /\ ThreadHasRequest'
  OBVIOUS
<1>1. CASE UNCHANGED vars
  BY <1>1 DEF TypeOK, ThreadHasRequest, vars, deviceVars, writerVars, deferVars, adminVars,
              numberVars, mapVars, serviceVars, history
<1>2. QED
  BY <1>1, WritersKeepType, DeferKeepsType, AdminKeepsType, ServiceKeepsType DEF Next

THEOREM TypeCorrect == Spec => []TypeOK
BY TypeInit, TypeStep, PTL DEF Spec

-----------------------------------------------------------------------------
(* is_captured and defer_io go together, whether the device could be       *)
(* frozen or not.                                                          *)
LEMMA AdminInit == Init => AdminInv
BY DEF Init, AdminInv, ThreadHasRequest, Phases, Stillness

LEMMA WritersKeepPhases ==
  ASSUME TypeOK, AdminInv, NEW w \in Writers,
         \/ \E blks \in Requests : MakeRequest(w, blks) \/ UntrackedRequest(w, blks)
         \/ WriterStep(w)
  PROVE  Phases' /\ Stillness'
<1> USE DEF AdminInv, Phases, Stillness, deviceVars, writerVars, deferVars, adminVars, history
<1>1. pc \in [Writers -> {"idle", "redirect", "lowlevel", "submit", "dead"}]
  BY DEF TypeOK
<1>2. UNCHANGED <<captured, deferIo, admin, frozen>>
  BY DEF MakeRequest, UntrackedRequest, WriterStep, Redirect, RedirectFails, RedirectLate,
         LowLevelMark, LowLevelSubmit
<1>3. ASSUME NEW blks \in Requests, MakeRequest(w, blks)
      PROVE  Phases' /\ Stillness'
  <2>1. /\ admin # "untracked" /\ queue' = queue /\ exposed' = exposed
        /\ pc' = [pc EXCEPT ![w] = IF captured THEN "redirect" ELSE "lowlevel"]
    BY <1>3 DEF MakeRequest
  <2>2. \A v \in Writers : pc'[v] = "redirect" => pc[v] = "redirect" \/ captured
    BY <1>1, <2>1
  <2>3. QED
    BY <1>2, <2>1, <2>2
<1>4. ASSUME NEW blks \in Requests, UntrackedRequest(w, blks)
      PROVE  Phases' /\ Stillness'
  BY <1>2, <1>4 DEF UntrackedRequest
<1>5. CASE WriterStep(w)
  <2>1. /\ pc[w] \notin {"idle", "dead"}
        /\ \A v \in Writers : pc'[v] = "redirect" => pc[v] = "redirect" /\ v # w
        /\ exposed \ {w} \subseteq exposed'
        /\ queue' = queue \/ deferIo # "none"
    BY <1>1, <1>5 DEF WriterStep, Redirect, RedirectFails, RedirectLate, LowLevelMark,
       LowLevelSubmit
  <2>2. QED
    BY <1>2, <2>1
<1>6. QED
  BY <1>3, <1>4, <1>5

LEMMA DeferKeepsPhases ==
  ASSUME AdminInv, DeferStep
  PROVE  Phases' /\ Stillness'
<1>1. UNCHANGED <<pc, captured, deferIo, admin, frozen, exposed>> /\ queue # <<>>
  BY DEF AdminInv, ThreadHasRequest, DeferStep, DeferCopy, DeferMark, DeferSubmit, adminVars,
         writerVars, history
<1>2. QED
  BY <1>1 DEF AdminInv, Phases, Stillness

LEMMA AdminKeepsPhases ==
  ASSUME AdminInv, TrackingAdd \/ Capturing \/ StartRelease \/ Releasing
  PROVE  Phases' /\ Stillness'
<1> USE DEF AdminInv, Phases, Stillness, AdminGoes, deviceVars, writerVars, deferVars, history
<1>2. CASE TrackingAdd
  BY <1>2 DEF TrackingAdd
<1>3. CASE TrackerRemove
  BY <1>3 DEF TrackerRemove
<1>4. CASE TrackerCreate
  BY <1>4 DEF TrackerCreate
<1>5. CASE Freeze("freeze", "create") \/ Freeze("held", "clear")
  BY <1>5 DEF Freeze
<1>1. CASE FreezeFails("freeze", "create") \/ FreezeFails("held", "clear") \/ CaptureFails
  BY <1>1 DEF FreezeFails, CaptureFails
<1>6. CASE CreateDeferIo
  BY <1>6 DEF CreateDeferIo
<1>7. CASE SetCaptured
  BY <1>7 DEF SetCaptured
<1>8. CASE SwitchCbt
  BY <1>8 DEF SwitchCbt
<1>9. CASE Thaw("thaw", "held") \/ Thaw("rethaw", "stop")
  BY <1>9 DEF Thaw
<1>10. CASE ClearCaptured
  <2>1. \A w \in Writers \ exposed' : pc[w] # "redirect"
    BY <1>10 DEF ClearCaptured, Overtaken, Quiet
  <2>2. QED
    BY <1>10, <2>1 DEF ClearCaptured
<1>11. CASE StopDeferIo
  BY <1>11 DEF StopDeferIo
<1>12. QED
  BY <1>1, <1>2, <1>3, <1>4, <1>5, <1>6, <1>7, <1>8, <1>9, <1>10, <1>11
     DEF Capturing, Releasing, StartRelease

LEMMA AdminInvStep ==
  TypeOK /\ AdminInv /\ [Next]_vars => AdminInv'
<1> SUFFICES ASSUME TypeOK, AdminInv, [Next]_vars
             PROVE  AdminInv'
  OBVIOUS
<1>1. ThreadHasRequest'
  BY TypeStep DEF AdminInv
<1>2. CASE Resize \/ Backup \/ (\E blks \in Requests : ImageWrite(blks)) \/ UNCHANGED vars
  BY <1>1, <1>2 DEF Resize, Backup, ImageWrite, AdminInv, Phases, Stillness, vars, writerVars,
                    deferVars, adminVars, history
<1>3. QED
  BY <1>1, <1>2, WritersKeepPhases, DeferKeepsPhases, AdminKeepsPhases DEF Next, AdminInv

(* A request that has read is_captured finds a running defer IO object,    *)
(* although the release clears both without a lock that the request takes: *)
(* what protects the request is that the freeze waits for it.  The ones    *)
(* for which nothing waited are those a release overtook whose freeze had  *)
(* failed, and those that bypass the file system.                          *)
THEOREM DeferIoIsThere == Spec => []NoStaleDeferIo
<1>1. AdminInv => NoStaleDeferIo
  BY DEF AdminInv, Phases, Stillness, NoStaleDeferIo
<1>2. TypeOK /\ AdminInv /\ [Next]_vars => AdminInv'
  BY AdminInvStep
<1>3. QED
  BY <1>1, <1>2, AdminInit, TypeCorrect, PTL DEF Spec

-----------------------------------------------------------------------------
(* The backups.  The invariant first holds ...                             *)
LEMMA BackupInit == Init => BackupInv
<1> SUFFICES ASSUME Init PROVE BackupInv
  OBVIOUS
<1>1. NumbersInOrder /\ CapacitiesInOrder
  BY DEF Init, NumbersInOrder, CapacitiesInOrder, NoBackup
<1>2. MarkedBeforeSubmit
  BY DEF Init, MarkedBeforeSubmit
<1>5. LateIsMarked
  BY DEF Init, LateIsMarked
<1>3. BackupOfDevice /\ ImageOfDevice /\ BackupOfImage
  BY DEF Init, BackupOfDevice, ImageOfDevice, BackupOfImage, Unmarked, NoBackup
<1>4. QED
  BY <1>1, <1>2, <1>3, <1>5 DEF BackupInv

(* ... what it relates is not touched by a step that leaves the device,    *)
(* the map, the store and the backup alone ...                             *)
imageVars == <<orig, capacity, store, admin, readMap, writeMap, mapActive, mapCapacity,
               numberVars, image, backup, late, missed, deferPc>>

LEMMA ImageVarsUnchanged ==
  ASSUME BackupInv, UNCHANGED imageVars, MarkedBeforeSubmit',
         deferPc # "idle" => Head(queue)' = Head(queue)
  PROVE  BackupInv'
<1> USE DEF BackupInv, imageVars, numberVars
<1>1. NumbersInOrder' /\ CapacitiesInOrder' /\ LateIsMarked'
  BY DEF NumbersInOrder, CapacitiesInOrder, LateIsMarked
<1>2. BackupOfDevice'
  BY DEF BackupOfDevice, Unmarked, Pending, Owing
<1>3. ImageOfDevice'
  BY DEF ImageOfDevice, Unmarked, View, Pending
<1>4. BackupOfImage'
  BY DEF BackupOfImage, Unreported
<1>5. QED
  BY <1>1, <1>2, <1>3, <1>4

(* A request that the defer IO thread has copied is marked by it.          *)
PendingMarked(blks) ==
  \A b \in Blocks : Pending(b) =>
     \/ Pending(b)'
     \/ b \in blks /\ (admin \in {"capture", "switch"} => b \in late')

(* ... marking more blocks, or putting the map out of action, leaves fewer *)
(* blocks for it to speak of ...                                           *)
LEMMA MarkKeepsBackup ==
  ASSUME TypeOK, BackupInv, MarkedBeforeSubmit', NEW who \in Writers \cup {Defer},
         NEW blks, blks \subseteq Blocks,
         CbtMark(who, blks), late \subseteq late', late' \subseteq late \cup blks,
         PendingMarked(blks),
         UNCHANGED <<orig, capacity, store, admin, numberVars, image, backup, missed>>
  PROVE  BackupInv'
<1> USE DEF BackupInv, numberVars, PendingMarked
<1>1. /\ \A b \in Blocks : writeMap[b] \in Int /\ writeMap'[b] \in Int
      /\ mapActive' => mapActive
      /\ ~mapActive' /\ mapActive => mapCapacity # capacity
      /\ UNCHANGED <<readMap, mapCapacity>>
      /\ \A b \in Blocks : writeMap'[b] >= writeMap[b]
      /\ mapActive' => \A b \in Blocks \cap blks : writeMap'[b] >= active
  <2>1. Numbers \subseteq Int
    BY TrackingAssumption DEF Numbers
  <2>2. writeMap \in [Blocks -> Numbers] /\ writeMap' \in [Blocks -> Numbers]
    BY CbtMarkEffect DEF TypeOK
  <2>3. QED
    BY <2>1, <2>2, CbtMarkEffect
<1>2. /\ previous \in Int /\ backup.number \in Int /\ capacity \in Int /\ mapCapacity \in Int
      /\ active \in Int /\ late \subseteq Blocks
  BY TrackingAssumption DEF TypeOK, Numbers
<1>3. NumbersInOrder'
  BY DEF NumbersInOrder
<1>4. CapacitiesInOrder'
  BY <1>1, <1>2 DEF CapacitiesInOrder
<1>5. ASSUME NEW b \in Blocks
      PROVE  /\ Unmarked(b, backup.gen, backup.number)' =>
                  Unmarked(b, backup.gen, backup.number) /\ b \notin blks
             /\ Unmarked(b, genPrevious, previous)' =>
                  Unmarked(b, genPrevious, previous) /\ b \notin blks
  BY <1>1, <1>2 DEF Unmarked, NumbersInOrder
<1>6. BackupOfDevice'
  BY <1>5 DEF BackupOfDevice, Owing
<1>7. ImageOfDevice'
  <2>1. \A b \in Blocks : View(b)' = View(b)
    BY DEF View
  <2>2. admin' = "switch" /\ mapActive' =>
          \A b \in Blocks : writeMap'[b] < active' => image'[b] = orig'[b]
    BY <1>1, <1>2 DEF ImageOfDevice
  <2>3. admin' \in {"capture", "switch"} =>
          \A b \in Blocks : store'[b] = NoCopy \/ b \in late' \/ Pending(b)'
    BY DEF ImageOfDevice
  <2>4. admin' \in {"thaw", "held"} =>
          \A b \in Blocks : Unmarked(b, genPrevious, previous)' =>
            /\ readMap'[b] < previous' => image'[b] = orig'[b]
            /\ View(b)' = orig'[b] \/ b \in late' \/ Pending(b)'
    BY <1>1, <1>5, <2>1 DEF ImageOfDevice
  <2>5. QED
    BY <2>2, <2>3, <2>4 DEF ImageOfDevice
<1>8. BackupOfImage'
  BY <1>1 DEF BackupOfImage, Unreported
<1>9. LateIsMarked'
  <2>1. SUFFICES ASSUME admin' \in {"capture", "switch"}, mapActive', NEW b \in late'
                 PROVE  writeMap'[b] >= active'
    BY DEF LateIsMarked
  <2>2. CASE b \in late
    <3>1. b \in Blocks /\ writeMap[b] >= active
      BY <1>1, <1>2, <2>1, <2>2 DEF LateIsMarked
    <3>2. writeMap'[b] >= writeMap[b]
      BY <1>1, <3>1
    <3>3. QED
      BY <1>1, <1>2, <3>1, <3>2
  <2>3. CASE b \notin late
    <3>1. b \in blks
      BY <2>1, <2>3
    <3>2. QED
      BY <1>1, <1>2, <2>1, <3>1
  <2>4. QED
    BY <2>2, <2>3
<1>10. QED
  BY <1>3, <1>4, <1>6, <1>7, <1>8, <1>9

(* ... and what the device takes has been marked.                          *)
LEMMA SubmitKeepsBackup ==
  ASSUME TypeOK, BackupInv, MarkedBeforeSubmit', NEW r, Submit(r),
         mapActive => \A b \in r.blks : writeMap[b] >= active,
         \A b \in Blocks : Pending(b)' = Pending(b),
         UNCHANGED <<capacity, store, admin, numberVars, mapVars, image, backup, late, missed>>
  PROVE  BackupInv'
<1> USE DEF BackupInv, numberVars, mapVars
<1>1. /\ \A b \in Blocks : writeMap[b] \in Int
      /\ active \in Int /\ previous \in Int /\ backup.number \in Int
  BY TrackingAssumption DEF TypeOK, Numbers
<1>2. NumbersInOrder' /\ CapacitiesInOrder' /\ LateIsMarked'
  BY DEF NumbersInOrder, CapacitiesInOrder, LateIsMarked
<1>3. ASSUME NEW b \in Blocks
      PROVE  /\ Unmarked(b, backup.gen, backup.number)' =>
                  Unmarked(b, backup.gen, backup.number) /\ orig'[b] = orig[b]
             /\ Unmarked(b, genPrevious, previous)' =>
                  Unmarked(b, genPrevious, previous) /\ orig'[b] = orig[b]
             /\ mapActive /\ writeMap[b] < active => orig'[b] = orig[b]
             /\ orig'[b] = orig[b] => View(b)' = View(b)
  BY <1>1 DEF Unmarked, Submit, NumbersInOrder, View
<1>4. BackupOfDevice'
  BY <1>3 DEF BackupOfDevice, Owing
<1>5. ImageOfDevice'
  <2>1. admin' = "switch" /\ mapActive' =>
          \A b \in Blocks : writeMap'[b] < active' => image'[b] = orig'[b]
    BY <1>3 DEF ImageOfDevice
  <2>2. admin' \in {"capture", "switch"} =>
          \A b \in Blocks : store'[b] = NoCopy \/ b \in late' \/ Pending(b)'
    BY DEF ImageOfDevice
  <2>3. admin' \in {"thaw", "held"} =>
          \A b \in Blocks : Unmarked(b, genPrevious, previous)' =>
            /\ readMap'[b] < previous' => image'[b] = orig'[b]
            /\ View(b)' = orig'[b] \/ b \in late' \/ Pending(b)'
    BY <1>3 DEF ImageOfDevice
  <2>4. QED
    BY <2>1, <2>2, <2>3 DEF ImageOfDevice
<1>6. BackupOfImage'
  BY DEF BackupOfImage, Unreported
<1>7. QED
  BY <1>2, <1>4, <1>5, <1>6

LEMMA WritersKeepBackup ==
  ASSUME TypeOK, AdminInv, BackupInv, NEW w \in Writers,
         \/ \E blks \in Requests : MakeRequest(w, blks) \/ UntrackedRequest(w, blks)
         \/ WriterStep(w)
  PROVE  BackupInv'
<1> USE DEF deviceVars, writerVars, deferVars, adminVars, mapVars, serviceVars, history,
            imageVars
<1>1. /\ pc \in [Writers -> {"idle", "redirect", "lowlevel", "submit", "dead"}]
      /\ req \in [Writers -> Request] /\ queue \in Seq(Request)
      /\ MarkedBeforeSubmit
      /\ deferPc # "idle" => queue # <<>>
      /\ Defer \notin Writers
  BY TrackingAssumption DEF TypeOK, BackupInv, AdminInv, ThreadHasRequest
<1>2. ASSUME NEW blks \in Requests, MakeRequest(w, blks)
      PROVE  BackupInv'
  <2>1. UNCHANGED imageVars /\ queue' = queue
    BY <1>2 DEF MakeRequest
  <2>2. MarkedBeforeSubmit'
    BY <1>1, <1>2 DEF MakeRequest, MarkedBeforeSubmit, numberVars
  <2>3. QED
    BY <2>1, <2>2, ImageVarsUnchanged
<1>3. ASSUME NEW blks \in Requests, UntrackedRequest(w, blks)
      PROVE  BackupInv'
  <2>1. /\ admin = "untracked" /\ admin' = admin
        /\ UNCHANGED <<capacity, numberVars, mapVars, readers, serviceVars, history, pc, req,
                       queue, deferPc>>
    BY <1>3 DEF UntrackedRequest
  <2>2. NumbersInOrder' /\ CapacitiesInOrder' /\ LateIsMarked'
    BY <2>1 DEF BackupInv, NumbersInOrder, CapacitiesInOrder, LateIsMarked, numberVars
  <2>3. MarkedBeforeSubmit'
    BY <1>1, <2>1 DEF MarkedBeforeSubmit, numberVars
  <2>4. BackupOfDevice' /\ ImageOfDevice' /\ BackupOfImage'
    BY <2>1 DEF BackupOfDevice, ImageOfDevice, BackupOfImage, Unmarked
  <2>5. QED
    BY <2>2, <2>3, <2>4 DEF BackupInv
<1>4. CASE Redirect(w) \/ RedirectFails(w) \/ RedirectLate(w)
  <2>1. /\ UNCHANGED imageVars /\ UNCHANGED <<req, readers>>
        /\ pc' \in {[pc EXCEPT ![w] = end] : end \in {"idle", "lowlevel", "dead"}}
        /\ queue' = queue \/ queue' = Append(queue, req[w])
    BY <1>4 DEF Redirect, RedirectFails, RedirectLate
  <2>2. deferPc # "idle" => Head(queue)' = Head(queue)
    <3>1. CASE queue' = queue
      BY <3>1
    <3>2. CASE queue' = Append(queue, req[w])
      BY <1>1, <3>2, AppendProperties
    <3>3. QED
      BY <2>1, <3>1, <3>2
  <2>3. \A v \in Writers : pc'[v] = "submit" => pc[v] = "submit"
    BY <1>1, <2>1
  <2>4. MarkedBeforeSubmit'
    BY <1>1, <2>1, <2>2, <2>3 DEF MarkedBeforeSubmit, numberVars
  <2>5. QED
    BY <2>1, <2>2, <2>4, ImageVarsUnchanged
<1>6. CASE LowLevelMark(w)
  <2>1. CbtMark(w, req[w].blks)
    BY <1>6 DEF LowLevelMark
  <2>2. /\ pc' = [pc EXCEPT ![w] = "submit"]
        /\ UNCHANGED <<req, queue, deferPc, active, history>>
    BY <1>6 DEF LowLevelMark, numberVars
  <2>3. /\ mapActive' => mapActive
        /\ mapActive' => w \in readers' /\ readers \subseteq readers'
        /\ \A b \in Blocks : writeMap'[b] >= writeMap[b]
        /\ mapActive' => \A b \in Blocks \cap req[w].blks : writeMap'[b] >= active
        /\ \A b \in Blocks : writeMap[b] \in Int /\ writeMap'[b] \in Int
        /\ active \in Int
    <3>1. Numbers \subseteq Int /\ active \in Int /\ writeMap \in [Blocks -> Numbers]
      BY TrackingAssumption DEF TypeOK, Numbers
    <3>2. writeMap' \in [Blocks -> Numbers]
      BY <2>1, CbtMarkEffect
    <3>3. QED
      BY <2>1, <3>1, <3>2, CbtMarkEffect
  <2>4. /\ \A v \in Writers : req[v].blks \subseteq Blocks
        /\ deferPc = "marked" => Head(queue).blks \subseteq Blocks
    BY <1>1, HeadIsRequest DEF Request
  <2>5. MarkedBeforeSubmit'
    <3>1. SUFFICES ASSUME mapActive' PROVE
            /\ \A v \in Writers : pc'[v] = "submit" =>
                 v \in readers' /\ \A b \in req'[v].blks : writeMap'[b] >= active'
            /\ deferPc' = "marked" =>
                 Defer \in readers' /\ \A b \in Head(queue)'.blks : writeMap'[b] >= active'
      BY DEF MarkedBeforeSubmit
    <3>2. mapActive /\ readers \subseteq readers' /\ w \in readers'
      BY <2>3, <3>1
    <3>3. \A v \in Writers : v # w /\ pc'[v] = "submit" =>
            v \in readers /\ \A b \in req[v].blks : writeMap[b] >= active
      BY <1>1, <2>2, <3>2 DEF MarkedBeforeSubmit
    <3>4. \A v \in Writers : v # w /\ pc'[v] = "submit" =>
            \A b \in req[v].blks : writeMap'[b] >= active
      BY <2>3, <2>4, <3>3
    <3>5. \A b \in req[w].blks : writeMap'[b] >= active
      BY <2>3, <2>4, <3>1
    <3>6. deferPc = "marked" =>
            Defer \in readers /\ \A b \in Head(queue).blks : writeMap'[b] >= active
      BY <1>1, <2>3, <2>4, <3>2 DEF MarkedBeforeSubmit
    <3>7. QED
      BY <2>2, <3>2, <3>3, <3>4, <3>5, <3>6
  <2>6. \A b \in Blocks : Pending(b)' = Pending(b)
    BY <2>2 DEF Pending
  <2>7. UNCHANGED <<orig, capacity, store, admin, numberVars, image, backup, missed, late>>
    BY <1>6 DEF LowLevelMark
  <2>9. /\ late \subseteq late' /\ late' \subseteq late \cup req[w].blks
        /\ PendingMarked(req[w].blks)
    BY <2>6, <2>7 DEF PendingMarked
  <2>8. QED
    BY <2>1, <2>4, <2>5, <2>7, <2>9, MarkKeepsBackup
<1>7. CASE LowLevelSubmit(w)
  <2>1. /\ pc[w] = "submit" /\ Submit(req[w])
        /\ pc' = [pc EXCEPT ![w] = "idle"]
        /\ readers' = readers \ {w}
        /\ UNCHANGED <<capacity, req, deferVars, admin, numberVars, mapVars, serviceVars,
                       history>>
    BY <1>7 DEF LowLevelSubmit
  <2>2. MarkedBeforeSubmit'
    BY <1>1, <2>1 DEF MarkedBeforeSubmit, numberVars
  <2>3. \A b \in Blocks : Pending(b)' = Pending(b)
    BY <2>1 DEF Pending
  <2>4. mapActive => \A b \in req[w].blks : writeMap[b] >= active
    BY <1>1, <2>1 DEF MarkedBeforeSubmit
  <2>5. QED
    BY <2>1, <2>2, <2>3, <2>4, SubmitKeepsBackup
<1>8. QED
  BY <1>2, <1>3, <1>4, <1>6, <1>7 DEF WriterStep

LEMMA DeferKeepsBackup ==
  ASSUME TypeOK, AdminInv, BackupInv, DeferStep
  PROVE  BackupInv'
<1> USE DEF deviceVars, writerVars, deferVars, adminVars, mapVars, serviceVars, history
<1>1. /\ queue \in Seq(Request) /\ queue # <<>>
      /\ MarkedBeforeSubmit /\ Defer \notin Writers
  BY TrackingAssumption DEF TypeOK, AdminInv, BackupInv, ThreadHasRequest, DeferStep,
     DeferCopy, DeferMark, DeferSubmit
<1>2. /\ Head(queue).blks \subseteq Blocks
      /\ \A w \in Writers : req[w].blks \subseteq Blocks
  BY <1>1, HeadIsRequest DEF TypeOK, Request
<1>3. CASE DeferCopy
  <2>1. /\ UNCHANGED <<orig, capacity, admin, numberVars, mapVars, readers, image, backup,
                       pc, req, queue, late, missed>>
        /\ deferPc = "idle" /\ deferPc' = "copied"
    BY <1>3 DEF DeferCopy
  <2>2. /\ \A b \in Blocks : View(b)' = View(b)
        /\ \A b \in Blocks : store'[b] = store[b] \/ Pending(b)'
        /\ \A b \in Blocks : ~Pending(b)
    BY <1>3, <2>1 DEF DeferCopy, View, Pending
  <2>3. NumbersInOrder' /\ CapacitiesInOrder' /\ LateIsMarked'
    BY <2>1 DEF BackupInv, NumbersInOrder, CapacitiesInOrder, LateIsMarked, numberVars
  <2>4. MarkedBeforeSubmit'
    BY <1>1, <2>1 DEF MarkedBeforeSubmit, numberVars
  <2>5. BackupOfDevice' /\ BackupOfImage'
    BY <2>1, <2>2 DEF BackupInv, BackupOfDevice, BackupOfImage, Unmarked, Unreported, Owing,
       numberVars
  <2>6. ImageOfDevice'
    BY <2>1, <2>2 DEF BackupInv, ImageOfDevice, Unmarked, numberVars
  <2>7. QED
    BY <2>3, <2>4, <2>5, <2>6 DEF BackupInv
<1>4. CASE DeferMark
  <2>1. /\ CbtMark(Defer, Head(queue).blks)
        /\ UNCHANGED <<pc, req, queue, active>>
        /\ deferPc = "copied" /\ deferPc' = "marked"
    BY <1>4 DEF DeferMark, numberVars
  <2>2. /\ mapActive' => mapActive
        /\ mapActive' => Defer \in readers' /\ readers \subseteq readers'
        /\ \A b \in Blocks : writeMap'[b] >= writeMap[b]
        /\ mapActive' => \A b \in Blocks \cap Head(queue).blks : writeMap'[b] >= active
        /\ writeMap' \in [Blocks -> Numbers]
    BY <2>1, CbtMarkEffect
  <2>3. /\ \A b \in Blocks : writeMap[b] \in Int /\ writeMap'[b] \in Int
        /\ active \in Int
    BY <2>2, TrackingAssumption DEF TypeOK, Numbers
  <2>4. MarkedBeforeSubmit'
    <3>1. ASSUME mapActive', NEW v \in Writers, pc[v] = "submit"
          PROVE  v \in readers' /\ \A b \in req[v].blks : writeMap'[b] >= active
      <4>1. v \in readers /\ \A b \in req[v].blks : writeMap[b] >= active
        BY <1>1, <2>2, <3>1 DEF MarkedBeforeSubmit
      <4>2. QED
        BY <1>2, <2>2, <2>3, <3>1, <4>1
    <3>2. mapActive' => Defer \in readers' /\ \A b \in Head(queue).blks : writeMap'[b] >= active
      BY <1>2, <2>2
    <3>3. QED
      BY <2>1, <3>1, <3>2 DEF MarkedBeforeSubmit
  <2>5. /\ late \subseteq late' /\ late' \subseteq late \cup Head(queue).blks
        /\ admin \in {"capture", "switch"} => late' = late \cup Head(queue).blks
        /\ UNCHANGED <<orig, capacity, store, admin, numberVars, image, backup, missed>>
    BY <1>4 DEF DeferMark
  <2>6. PendingMarked(Head(queue).blks)
    BY <2>5 DEF Pending, PendingMarked
  <2>7. QED
    BY <1>2, <2>1, <2>4, <2>5, <2>6, MarkKeepsBackup
<1>5. CASE DeferSubmit
  <2>1. /\ deferPc = "marked" /\ Submit(Head(queue)) /\ deferPc' = "idle"
        /\ readers' = readers \ {Defer}
        /\ UNCHANGED <<capacity, pc, req, store, admin, numberVars, mapVars, serviceVars,
                       late, missed>>
    BY <1>5 DEF DeferSubmit
  <2>2. MarkedBeforeSubmit'
    BY <1>1, <2>1 DEF MarkedBeforeSubmit, numberVars
  <2>3. mapActive => \A b \in Head(queue).blks : writeMap[b] >= active
    BY <1>1, <2>1 DEF MarkedBeforeSubmit
  <2>4. \A b \in Blocks : Pending(b)' = Pending(b)
    BY <2>1 DEF Pending
  <2>5. QED
    BY <2>1, <2>2, <2>3, <2>4, SubmitKeepsBackup
<1>6. QED
  BY <1>3, <1>4, <1>5 DEF DeferStep

(* A new map has a generation of which there is no backup.                 *)
LEMMA CreateKeepsBackup ==
  ASSUME TypeOK, AdminInv, BackupInv, TrackerCreate
  PROVE  BackupInv'
<1>1. /\ active' = 1 /\ previous' = 0 /\ genActive' = generations + 1
      /\ genPrevious' = generations + 1 /\ mapActive' = TRUE /\ mapCapacity' = capacity
      /\ admin = "untracked" /\ admin' = "freeze"
      /\ UNCHANGED <<capacity, pc, queue, deferPc, backup>>
  BY DEF TrackerCreate, CbtCreate, AdminGoes, deviceVars, writerVars, deferVars, serviceVars
<1>2. /\ backup.gen < generations + 1
      /\ backup.capacity <= capacity /\ capacity \in Int
      /\ \A w \in Writers : pc[w] # "submit"
      /\ deferPc = "idle"
  <2>1. backup.gen < generations + 1 /\ capacity \in Int
    BY DEF TypeOK
  <2>2. backup.capacity <= capacity
    BY DEF BackupInv, CapacitiesInOrder
  <2>3. \A w \in Writers : pc[w] # "submit"
    BY <1>1 DEF AdminInv, Stillness
  <2>5. deferIo = "none"
    BY <1>1 DEF TypeOK, AdminInv, Phases
  <2>6. deferPc = "idle"
    BY <2>5 DEF AdminInv, Stillness, ThreadHasRequest
  <2>4. QED
    BY <2>1, <2>2, <2>3, <2>6
<1>3. NumbersInOrder'
  BY <1>1, <1>2 DEF NumbersInOrder
<1>4. CapacitiesInOrder'
  BY <1>1, <1>2 DEF CapacitiesInOrder
<1>5. MarkedBeforeSubmit'
  BY <1>1, <1>2 DEF MarkedBeforeSubmit
<1>6. LateIsMarked' /\ BackupOfDevice' /\ ImageOfDevice' /\ BackupOfImage'
  BY <1>1, <1>2 DEF LateIsMarked, BackupOfDevice, ImageOfDevice, BackupOfImage, Unmarked
<1>7. QED
  BY <1>3, <1>4, <1>5, <1>6 DEF BackupInv

(* The switch hands the map that was being marked to the services.  It     *)
(* waits for the requests that hold the lock of the map.                   *)
LEMMA SwitchKeepsBackup ==
  ASSUME TypeOK, BackupInv, SwitchCbt
  PROVE  BackupInv'
<1>1. /\ readMap' = writeMap /\ previous' = active
      /\ admin = "switch" /\ admin' = "thaw"
      /\ UNCHANGED <<orig, capacity, pc, req, queue, deferPc, store, mapActive, mapCapacity,
                     image, backup, late, missed>>
  BY DEF SwitchCbt, CbtSwitch, AdminGoes, deviceVars, writerVars, deferVars, serviceVars, history
<1>2. genPrevious' = genActive
  BY DEF SwitchCbt, CbtSwitch, BackupInv, NumbersInOrder
<1>3. \/ active' = active + 1 /\ UNCHANGED <<genActive, writeMap>>
      \/ active' = 1 /\ genActive' = generations + 1
  <2>1. CASE active = MaxNumber
    BY <2>1 DEF SwitchCbt, CbtSwitch
  <2>2. CASE active # MaxNumber
    BY <2>2 DEF SwitchCbt, CbtSwitch
  <2>3. QED
    BY <2>1, <2>2
<1>4. mapActive => deferPc # "marked" /\ \A w \in Writers : pc[w] # "submit"
  <2>1. readers = {}
    BY DEF SwitchCbt
  <2>2. QED
    BY <2>1 DEF BackupInv, MarkedBeforeSubmit
<1>5. /\ active \in Int /\ active >= 1 /\ backup.number \in Int
      /\ genActive # generations + 1 /\ backup.gen # generations + 1
      /\ capacity \in Int /\ mapCapacity \in Int /\ backup.capacity \in Int
      /\ \A b \in Blocks : writeMap[b] \in Int
  BY TrackingAssumption DEF TypeOK, Numbers
<1>6. NumbersInOrder'
  BY <1>1, <1>2, <1>3, <1>5 DEF BackupInv, NumbersInOrder
<1>7. CapacitiesInOrder' /\ LateIsMarked'
  BY <1>1 DEF BackupInv, CapacitiesInOrder, LateIsMarked
<1>8. MarkedBeforeSubmit'
  BY <1>1, <1>4 DEF MarkedBeforeSubmit
<1>9. BackupOfDevice'
  <2>1. SUFFICES ASSUME NEW b \in Blocks, Unmarked(b, backup.gen, backup.number)'
                 PROVE  backup.data[b] = orig[b] \/ b \in late \cup missed
    BY <1>1 DEF BackupOfDevice
  <2>2. Unmarked(b, backup.gen, backup.number)
    BY <1>1, <1>3, <1>5, <2>1 DEF Unmarked
  <2>3. ~Owing(b)
    BY <1>1 DEF Owing
  <2>4. QED
    BY <2>2, <2>3 DEF BackupInv, BackupOfDevice
<1>10. ImageOfDevice'
  <2>1. ASSUME NEW b \in Blocks, Unmarked(b, genPrevious, previous)'
        PROVE  /\ readMap'[b] < previous' => image'[b] = orig'[b]
               /\ View(b)' = orig'[b] \/ b \in late' \/ Pending(b)'
    <3>1. mapActive /\ (readMap'[b] < previous' => writeMap[b] < active)
      BY <1>1, <2>1 DEF Unmarked
    <3>2. writeMap[b] < active => image[b] = orig[b]
      BY <1>1, <3>1 DEF BackupInv, ImageOfDevice
    <3>3. store[b] = NoCopy \/ b \in late \/ Pending(b)
      BY <1>1 DEF BackupInv, ImageOfDevice
    <3>4. QED
      BY <1>1, <3>1, <3>2, <3>3 DEF View, Pending
  <2>2. QED
    BY <1>1, <2>1 DEF ImageOfDevice
<1>11. BackupOfImage'
  <2>1. SUFFICES ASSUME NEW b \in Unreported', b \notin missed
                 PROVE  backup.data[b] = image[b]
    BY <1>1 DEF BackupOfImage
  <2>2. /\ b \in Blocks /\ genActive = backup.gen /\ capacity = backup.capacity
        /\ writeMap[b] <= backup.number
    BY <1>1, <1>2, <2>1 DEF Unreported
  <2>3. mapActive
    BY <1>1, <1>5, <2>2 DEF BackupInv, CapacitiesInOrder
  <2>4. Unmarked(b, backup.gen, backup.number) /\ ~Owing(b)
    BY <1>1, <2>2, <2>3 DEF Unmarked, Owing
  <2>5. writeMap[b] < active
    BY <1>5, <2>2 DEF BackupInv, NumbersInOrder
  <2>6. b \notin late
    BY <1>1, <1>5, <2>2, <2>3, <2>5 DEF BackupInv, LateIsMarked
  <2>7. backup.data[b] = orig[b]
    BY <2>1, <2>2, <2>4, <2>6 DEF BackupInv, BackupOfDevice
  <2>8. image[b] = orig[b]
    BY <1>1, <2>2, <2>3, <2>5 DEF BackupInv, ImageOfDevice
  <2>9. QED
    BY <2>7, <2>8
<1>12. QED
  BY <1>6, <1>7, <1>8, <1>9, <1>10, <1>11 DEF BackupInv

LEMMA AdminKeepsBackup ==
  ASSUME TypeOK, AdminInv, BackupInv, TrackingAdd \/ Capturing \/ StartRelease \/ Releasing
  PROVE  BackupInv'
<1> USE DEF AdminGoes, deviceVars, writerVars, deferVars, mapVars, numberVars, serviceVars,
            history
<1>1. MarkedBeforeSubmit
  BY DEF BackupInv
<1>2. CASE TrackingAdd
  <2>1. /\ admin = "idle" /\ admin' \in {"freeze", "remove"}
        /\ admin' = "freeze" => mapActive /\ mapCapacity = capacity
        /\ UNCHANGED <<deviceVars, writerVars, deferVars, numberVars, mapVars, readers,
                       serviceVars, history>>
    BY <1>2 DEF TrackingAdd
  <2>2. QED
    BY <1>1, <2>1 DEF BackupInv, NumbersInOrder, CapacitiesInOrder, MarkedBeforeSubmit,
         LateIsMarked, BackupOfDevice, ImageOfDevice, BackupOfImage, Unmarked, Owing
<1>3. CASE TrackerRemove \/ Freeze("freeze", "create") \/ FreezeFails("freeze", "create")
           \/ CaptureFails \/ Freeze("held", "clear") \/ FreezeFails("held", "clear")
           \/ Thaw("rethaw", "stop") \/ ClearCaptured \/ StopDeferIo
  <2>1. /\ admin' \notin {"freeze", "switch", "capture", "thaw", "held"}
        /\ admin' \in {"create"} => admin = "freeze"
        /\ admin' # "untracked" => admin # "untracked"
        /\ UNCHANGED <<deviceVars, writerVars, queue, deferPc, store, numberVars, mapVars,
                       readers, serviceVars, late, missed>>
    BY <1>3 DEF TrackerRemove, Freeze, FreezeFails, CaptureFails, Thaw, ClearCaptured,
       StopDeferIo
  <2>3. \A b \in Blocks : Owing(b) => Owing(b)'
    <3>1. CASE StopDeferIo
      <4>1. deferPc = "idle"
        BY <3>1 DEF StopDeferIo, AdminInv, ThreadHasRequest
      <4>2. QED
        BY <4>1 DEF Owing, Pending
    <3>2. CASE ~StopDeferIo
      <4>1. admin \in {"thaw", "held", "clear", "rethaw", "stop"} =>
              admin' \in {"thaw", "held", "clear", "rethaw", "stop"}
        BY <1>3, <3>2 DEF TrackerRemove, Freeze, FreezeFails, CaptureFails, Thaw, ClearCaptured
      <4>2. \A b \in Blocks : Pending(b)' = Pending(b)
        BY <2>1 DEF Pending
      <4>3. QED
        BY <4>1, <4>2 DEF Owing
    <3>3. QED
      BY <3>1, <3>2
  <2>4. BackupOfDevice'
    BY <2>1, <2>3 DEF BackupInv, BackupOfDevice, Unmarked
  <2>5. QED
    BY <1>1, <2>1, <2>4 DEF BackupInv, NumbersInOrder, CapacitiesInOrder, MarkedBeforeSubmit,
         LateIsMarked, ImageOfDevice, BackupOfImage
<1>4. CASE CreateDeferIo
  <2>1. /\ admin = "create" /\ admin' = "capture"
        /\ \A b \in Blocks : store'[b] = NoCopy
        /\ late' = {} /\ missed' = missed \cup late
        /\ UNCHANGED <<deviceVars, writerVars, queue, deferPc, numberVars, mapVars, readers,
                       serviceVars>>
    BY <1>4 DEF CreateDeferIo
  <2>2. QED
    BY <1>1, <2>1 DEF BackupInv, NumbersInOrder, CapacitiesInOrder, MarkedBeforeSubmit,
         LateIsMarked, BackupOfDevice, ImageOfDevice, BackupOfImage, Unmarked, Owing
<1>5. CASE SetCaptured
  <2>1. /\ admin = "capture" /\ admin' = "switch" /\ image' = orig
        /\ UNCHANGED <<deviceVars, writerVars, queue, deferPc, store, numberVars, mapVars,
                       readers, backup, late, missed>>
    BY <1>5 DEF SetCaptured
  <2>2. \A b \in Blocks : Pending(b)' = Pending(b)
    BY <2>1 DEF Pending
  <2>3. QED
    BY <1>1, <2>1, <2>2 DEF BackupInv, NumbersInOrder, CapacitiesInOrder, MarkedBeforeSubmit,
         LateIsMarked, BackupOfDevice, ImageOfDevice, BackupOfImage, Unmarked, Owing
<1>6. CASE Thaw("thaw", "held")
  <2>1. /\ admin = "thaw" /\ admin' = "held"
        /\ UNCHANGED <<deviceVars, writerVars, deferVars, numberVars, mapVars, readers,
                       serviceVars, history>>
    BY <1>6 DEF Thaw
  <2>2. \A b \in Blocks : Pending(b)' = Pending(b) /\ View(b)' = View(b)
    BY <2>1 DEF Pending, View
  <2>3. QED
    BY <1>1, <2>1, <2>2 DEF BackupInv, NumbersInOrder, CapacitiesInOrder, MarkedBeforeSubmit,
         LateIsMarked, BackupOfDevice, ImageOfDevice, BackupOfImage, Unmarked, Unreported, Owing
<1>7. QED
  BY <1>2, <1>3, <1>4, <1>5, <1>6, CreateKeepsBackup, SwitchKeepsBackup
     DEF Capturing, StartRelease, Releasing

(* A resized device has no incremental backup ...                          *)
LEMMA ResizeKeepsBackup ==
  ASSUME TypeOK, BackupInv, Resize
  PROVE  BackupInv'
<1>1. /\ capacity' = capacity + 1
      /\ UNCHANGED <<orig, store, admin, mapVars, readers, pc, req, queue, deferPc, numberVars,
                     image, backup, late, missed>>
  BY DEF Resize, writerVars, deferVars, adminVars, serviceVars, history
<1>2. capacity \in Int /\ mapCapacity \in Int /\ backup.capacity \in Int
  BY DEF TypeOK
<1>3. NumbersInOrder'
  BY <1>1 DEF BackupInv, NumbersInOrder, numberVars
<1>4. CapacitiesInOrder'
  BY <1>1, <1>2 DEF BackupInv, CapacitiesInOrder, mapVars
<1>5. MarkedBeforeSubmit'
  BY <1>1 DEF BackupInv, MarkedBeforeSubmit, numberVars, mapVars
<1>9. \A b \in Blocks : /\ Pending(b)' = Pending(b) /\ View(b)' = View(b)
                       /\ Owing(b)' = Owing(b)
  BY <1>1 DEF Pending, View, Owing
<1>6. BackupOfDevice' /\ ImageOfDevice' /\ LateIsMarked'
  BY <1>1, <1>9 DEF BackupInv, BackupOfDevice, ImageOfDevice, LateIsMarked, Unmarked, numberVars,
     mapVars
<1>7. Unreported' = {}
  BY <1>1, <1>2 DEF BackupInv, CapacitiesInOrder, Unreported
<1>8. QED
  BY <1>3, <1>4, <1>5, <1>6, <1>7 DEF BackupInv, BackupOfImage

(* ... a write to the image is marked in the map that the service reads    *)
(* and in the map of the next snapshot ...                                 *)
LEMMA ImageWriteKeepsBackup ==
  ASSUME TypeOK, ThreadHasRequest, BackupInv, NEW blks \in Requests, ImageWrite(blks)
  PROVE  BackupInv'
<1>1. /\ admin = "held" /\ admin' = "held"
      /\ writeMap' = Raised(writeMap, blks, active)
      /\ readMap' = Raised(readMap, blks, previous)
      /\ store' = [b \in Blocks |-> IF b \in blks THEN nextWrite ELSE store[b]]
      /\ image' = [b \in Blocks |-> IF b \in blks THEN nextWrite ELSE image[b]]
      /\ UNCHANGED <<orig, capacity, pc, req, queue, deferPc, mapActive, mapCapacity,
                     readers, numberVars, backup, late, missed>>
  BY DEF ImageWrite, writerVars, adminVars, history
<1>2. /\ active \in Numbers /\ previous \in Numbers /\ Numbers \subseteq Int
      /\ writeMap \in [Blocks -> Numbers] /\ readMap \in [Blocks -> Numbers]
      /\ backup.number \in Int
  BY TrackingAssumption DEF TypeOK, Numbers
<1>3. /\ writeMap' \in [Blocks -> Numbers] /\ readMap' \in [Blocks -> Numbers]
      /\ \A b \in Blocks : writeMap'[b] >= writeMap[b] /\ readMap'[b] >= readMap[b]
      /\ \A b \in Blocks : b \in blks => writeMap'[b] >= active /\ readMap'[b] >= previous
  BY <1>1, <1>2, RaisedMap
<1>4. \A b \in Blocks : /\ writeMap[b] \in Int /\ writeMap'[b] \in Int
                       /\ readMap[b] \in Int /\ readMap'[b] \in Int
  BY <1>2, <1>3
<1>5. NumbersInOrder' /\ CapacitiesInOrder' /\ LateIsMarked'
  BY <1>1 DEF BackupInv, NumbersInOrder, CapacitiesInOrder, LateIsMarked, numberVars
<1>11. \A b \in Blocks : Pending(b)' = Pending(b) /\ Owing(b)' = Owing(b)
  BY <1>1 DEF Pending, Owing
<1>6. MarkedBeforeSubmit'
  <2>1. /\ \A w \in Writers : req[w].blks \subseteq Blocks
        /\ deferPc = "marked" => Head(queue).blks \subseteq Blocks
    BY HeadIsRequest DEF TypeOK, ThreadHasRequest, Request
  <2>2. QED
    BY <1>1, <1>2, <1>3, <1>4, <2>1 DEF BackupInv, MarkedBeforeSubmit, numberVars
<1>7. BackupOfDevice'
  <2>1. \A b \in Blocks : Unmarked(b, backup.gen, backup.number)' => Unmarked(b, backup.gen, backup.number)
    BY <1>1, <1>2, <1>3, <1>4 DEF Unmarked, numberVars
  <2>2. QED
    BY <1>1, <1>11, <2>1 DEF BackupInv, BackupOfDevice
<1>8. ImageOfDevice'
  <2>1. ASSUME NEW b \in Blocks, Unmarked(b, genPrevious, previous)'
        PROVE  b \notin blks /\ Unmarked(b, genPrevious, previous)
    BY <1>1, <1>2, <1>3, <1>4, <2>1 DEF BackupInv, NumbersInOrder, Unmarked, numberVars
  <2>2. ASSUME NEW b \in Blocks, b \notin blks
        PROVE  image'[b] = image[b] /\ View(b)' = View(b)
    BY <1>1, <2>2 DEF View
  <2>3. \A b \in Blocks : b \notin blks => readMap'[b] = readMap[b]
    BY <1>1, <1>2, RaisedMap
  <2>4. QED
    BY <1>1, <1>11, <2>1, <2>2, <2>3 DEF BackupInv, ImageOfDevice, numberVars
<1>9. BackupOfImage'
  <2>1. SUFFICES ASSUME genPrevious = backup.gen => previous # backup.number,
                        NEW b \in Unreported', b \notin missed
                 PROVE  backup.data[b] = image'[b]
    BY <1>1 DEF BackupOfImage, numberVars
  <2>2. /\ b \in Blocks /\ genPrevious = backup.gen /\ capacity = backup.capacity
        /\ readMap'[b] <= backup.number
    BY <1>1, <2>1 DEF Unreported, numberVars
  <2>3. backup.number < previous
    BY <1>1, <1>2, <2>1, <2>2 DEF BackupInv, NumbersInOrder
  <2>4. b \notin blks /\ readMap[b] <= backup.number
    BY <1>2, <1>3, <1>4, <2>2, <2>3
  <2>5. b \in Unreported
    BY <2>2, <2>4 DEF Unreported
  <2>6. QED
    BY <1>1, <2>1, <2>2, <2>4, <2>5 DEF BackupInv, BackupOfImage
<1>10. QED
  BY <1>5, <1>6, <1>7, <1>8, <1>9 DEF BackupInv

(* ... and a backup copies what is reported and keeps the rest.            *)
LEMMA BackupKeepsBackup ==
  ASSUME TypeOK, BackupInv, Backup
  PROVE  BackupInv'
<1>1. /\ admin = "held" /\ admin' = "held"
      /\ backup'.gen = genPrevious /\ backup'.number = previous /\ backup'.capacity = capacity
      /\ \A b \in Blocks :
           backup'.data[b] = IF b \in Unreported THEN backup.data[b] ELSE View(b)
      /\ missed' = missed \cap Unreported
      /\ UNCHANGED <<orig, capacity, pc, req, queue, deferPc, store, mapVars, readers,
                     numberVars, image, late>>
  BY DEF Backup, NewImage, deviceVars, writerVars, deferVars, adminVars
<1>2. /\ capacity \in Int /\ previous \in Int /\ backup.number \in Int
      /\ genPrevious = backup.gen => previous # backup.number
  BY TrackingAssumption DEF TypeOK, Numbers, Backup, NewImage
<1>3. NumbersInOrder' /\ CapacitiesInOrder' /\ LateIsMarked'
  BY <1>1, <1>2 DEF BackupInv, NumbersInOrder, CapacitiesInOrder, LateIsMarked, numberVars, mapVars
<1>9. \A b \in Blocks : /\ Pending(b)' = Pending(b) /\ View(b)' = View(b)
                       /\ Owing(b)' = Owing(b)
  BY <1>1 DEF Pending, View, Owing
<1>4. MarkedBeforeSubmit'
  BY <1>1 DEF BackupInv, MarkedBeforeSubmit, numberVars, mapVars
<1>5. ImageOfDevice'
  BY <1>1, <1>9 DEF BackupInv, ImageOfDevice, Unmarked, numberVars, mapVars
<1>6. BackupOfDevice'
  <2>1. SUFFICES ASSUME NEW b \in Blocks, Unmarked(b, genPrevious, previous),
                        b \notin late, ~Owing(b)
                 PROVE  backup'.data[b] = orig[b] \/ b \in missed'
    BY <1>1, <1>9 DEF BackupOfDevice, Unmarked, numberVars, mapVars
  <2>2. /\ View(b) = orig[b]
        /\ readMap[b] < previous => image[b] = orig[b]
    BY <1>1, <2>1 DEF BackupInv, ImageOfDevice, Owing
  <2>3. CASE b \in Unreported /\ b \notin missed
    <3>1. backup.number < previous /\ readMap[b] <= backup.number /\ readMap[b] \in Int
      BY <1>1, <1>2, <2>3, TrackingAssumption DEF BackupInv, NumbersInOrder, Unreported, TypeOK, Numbers
    <3>2. backup.data[b] = image[b]
      BY <1>1, <1>2, <2>3 DEF BackupInv, BackupOfImage
    <3>3. QED
      BY <1>1, <1>2, <2>2, <2>3, <3>1, <3>2
  <2>4. CASE b \in Unreported /\ b \in missed
    BY <1>1, <2>4
  <2>5. CASE b \notin Unreported
    BY <1>1, <2>2, <2>5
  <2>6. QED
    BY <2>3, <2>4, <2>5
<1>7. BackupOfImage'
  BY <1>1 DEF BackupOfImage, numberVars
<1>8. QED
  BY <1>3, <1>4, <1>5, <1>6, <1>7 DEF BackupInv

LEMMA BackupStep ==
  ASSUME TypeOK, AdminInv, BackupInv, [Next]_vars
  PROVE  BackupInv'
<1>1. CASE UNCHANGED vars
  <2>1. UNCHANGED imageVars
    BY <1>1 DEF vars, imageVars, deviceVars, deferVars, adminVars, mapVars, serviceVars, history
  <2>2. MarkedBeforeSubmit'
    BY <1>1 DEF BackupInv, MarkedBeforeSubmit, vars, writerVars, deferVars, mapVars, numberVars
  <2>3. deferPc # "idle" => Head(queue)' = Head(queue)
    BY <1>1 DEF vars, deferVars
  <2>4. QED
    BY <2>1, <2>2, <2>3, ImageVarsUnchanged
<1>2. ThreadHasRequest
  BY DEF AdminInv
<1>3. QED
  BY <1>1, <1>2, WritersKeepBackup, DeferKeepsBackup, AdminKeepsBackup, ResizeKeepsBackup,
     ImageWriteKeepsBackup, BackupKeepsBackup DEF Next

(* A chain of incremental backups never goes wrong: however many snapshots *)
(* are taken, written to and released, however often the snapshot number   *)
(* starts again and the device is resized, a block that the map does not   *)
(* report is as the last backup read it, unless a deferred request marked  *)
(* it before the switch of a capture that no freeze protected.             *)
THEOREM BackupsAreExact == Spec => []IncrementalIsExact
<1>1. BackupInv => IncrementalIsExact
  BY DEF BackupInv, BackupOfImage, IncrementalIsExact, NewImage
<1>2. TypeOK /\ AdminInv /\ [Next]_vars => AdminInv'
  BY AdminInvStep
<1>3. TypeOK /\ AdminInv /\ BackupInv /\ [Next]_vars => BackupInv'
  BY BackupStep
<1>4. QED
  BY <1>1, <1>2, <1>3, AdminInit, BackupInit, TypeCorrect, PTL DEF Spec

=============================================================================
