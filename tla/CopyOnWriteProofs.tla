-------------------------- MODULE CopyOnWriteProofs --------------------------
(***************************************************************************)
(* Theorems about CopyOnWrite, for every number of blocks, every size of   *)
(* the pool and every number of requests.                                  *)
(***************************************************************************)
EXTENDS CopyOnWrite, FiniteSetTheorems, SequenceTheorems, TLAPS

(* Every block range of a request is a finite set of blocks.               *)
LEMMA RangesAreBlocks ==
  \A blks \in Ranges : blks \subseteq Blocks /\ IsFiniteSet(blks)
<1>1. IsFiniteSet(Blocks)
  BY CowAssumption, FS_Interval DEF Blocks
<1>2. ASSUME NEW blks \in Ranges
      PROVE  blks \subseteq Blocks
  BY CowAssumption DEF Ranges, Blocks
<1>3. QED
  BY <1>1, <1>2, FS_Subset

(* The number of blocks that a range still has to copy is a number.        *)
LEMMA MissingIsCountable ==
  ASSUME NEW blks \in SUBSET Blocks
  PROVE  /\ Missing(blks) \subseteq Blocks
         /\ IsFiniteSet(Missing(blks))
         /\ Cardinality(Missing(blks)) \in Nat
         /\ \A part \in SUBSET Missing(blks) : Cardinality(part) \in Nat
<1>1. IsFiniteSet(Blocks)
  BY CowAssumption, FS_Interval DEF Blocks
<1>2. Missing(blks) \subseteq Blocks
  BY DEF Missing
<1>3. \A part \in SUBSET Missing(blks) : IsFiniteSet(part)
  BY <1>1, <1>2, FS_Subset
<1>4. QED
  BY <1>2, <1>3, FS_CardinalityType

(* What both forms of preparing a copy do to the types they touch.         *)
LEMMA PrepareType ==
  ASSUME TypeOK, NEW blks \in SUBSET Blocks,
         PrepareRequests(blks) \/ PrepareRequestsFail(blks)
  PROVE  /\ copy' \in [Blocks -> CopyState]
         /\ store' = store
         /\ corrupted' \in BOOLEAN
         /\ empty' \in Nat
         /\ overflowed' \in BOOLEAN
         /\ halffilled' = halffilled
         /\ portions' = portions
<1>1. CASE PrepareRequests(blks)
  <2>1. empty' \in Nat
    <3>1. CASE Missing(blks) = {}
      <4>1. Cardinality(Missing(blks)) = 0
        BY <3>1, FS_EmptySet
      <4>2. QED
        BY <1>1, <4>1 DEF PrepareRequests, TypeOK
    <3>2. CASE Missing(blks) # {}
      BY <1>1, <3>2, MissingIsCountable DEF PrepareRequests, TypeOK
    <3>3. QED
      BY <3>1, <3>2
  <2>2. copy' \in [Blocks -> CopyState]
    BY <1>1 DEF PrepareRequests, TypeOK, CopyState
  <2>3. QED
    BY <1>1, <2>1, <2>2 DEF PrepareRequests, TypeOK
<1>2. CASE PrepareRequestsFail(blks)
  <2>1. PICK k \in Missing(blks), cause \in {"pool", "map", "alloc"} :
          LET before == {b \in Missing(blks) : b < k}
              mapped == IF cause = "alloc" THEN before \cup {k} ELSE before
              taken  == Cardinality(before) + (IF cause = "pool" THEN 0 ELSE 1)
          IN /\ taken <= empty
             /\ empty' = empty - taken
             /\ overflowed' = (overflowed \/ cause = "pool")
             /\ copy' = [b \in Blocks |-> IF b \in mapped \cup Asked THEN "junk" ELSE copy[b]]
    BY <1>2 DEF PrepareRequestsFail
  <2> DEFINE before == {b \in Missing(blks) : b < k}
  <2>2. Cardinality(before) \in Nat
    BY MissingIsCountable
  <2>3. empty' \in Nat
    BY <2>1, <2>2 DEF TypeOK
  <2>4. copy' \in [Blocks -> CopyState]
    BY <2>1 DEF TypeOK, CopyState
  <2>5. QED
    BY <1>2, <2>1, <2>3, <2>4 DEF PrepareRequestsFail, TypeOK
<1>3. QED
  BY <1>1, <1>2

-----------------------------------------------------------------------------
(* Spec keeps every variable in its type: the base of the other proofs.    *)
THEOREM TypeCorrect == Spec => []TypeOK
<1>1. Init => TypeOK
  <2> SUFFICES ASSUME Init PROVE TypeOK
    OBVIOUS
  <2>1. /\ queue \in Seq(Bio) /\ inProcess \in Seq(Bio)
        /\ received \in Seq(1 .. MaxIo) /\ submitted \in Seq(1 .. MaxIo)
    BY DEF Init
  <2>2. 0 \in Values /\ 1 \in 1 .. MaxIo + 1 /\ 0 \in 0 .. MaxPortions /\ PoolBlocks \in Nat
    BY CowAssumption DEF Values
  <2>3. ireq \in [id : Values, write : BOOLEAN, blks : SUBSET Blocks]
    BY <2>2 DEF Init, NoRequest
  <2>4. pc \in [Actors -> {"idle"}]
    BY DEF Init
  <2>5. QED
    BY <2>1, <2>2, <2>3, <2>4 DEF Init, TypeOK, CopyState, NoData
<1>2. TypeOK /\ [Next]_vars => TypeOK'
  <2> SUFFICES ASSUME TypeOK, [Next]_vars
               PROVE  TypeOK'
    OBVIOUS
  <2> USE DEF TypeOK, originVars, storeVars, poolVars, queueVars, imageVars, history
  <2>1. ASSUME NEW r \in OrigRequests, Enter(r.write, r.blks)
        PROVE  TypeOK'
    BY <2>1, CowAssumption DEF Enter, Request, Bio
  <2>2. ASSUME NEW r \in OrigRequests, PassThrough(r.write, r.blks)
        PROVE  TypeOK'
    <3>1. nextIo \in 1 .. MaxIo /\ nextIo \in Values /\ r.write \in BOOLEAN
          /\ r.blks \subseteq Blocks /\ nextIo' \in 1 .. MaxIo + 1
      BY <2>2, CowAssumption, RangesAreBlocks DEF PassThrough, Request, Values
    <3>2. orig' \in [Blocks -> Values] /\ dirty' \in SUBSET Blocks /\ bypassed' \in SUBSET Blocks
      BY <2>2, <3>1 DEF PassThrough, LowLevel, Submit
    <3>3. QED
      BY <2>2, <3>1, <3>2 DEF PassThrough
  <2>3. ASSUME NEW r \in ImageRequests, ImageRequest(r.write, r.blks)
        PROVE  TypeOK'
    <3>1. nextIo \in Values /\ r.write \in BOOLEAN
          /\ r.blks \subseteq Blocks /\ nextIo' \in 1 .. MaxIo + 1
      BY <2>3, CowAssumption, RangesAreBlocks DEF ImageRequest, Request, Values
    <3>2. QED
      BY <2>3, <3>1 DEF ImageRequest, Actors
  <2>4. ASSUME NEW bio \in entering, Redirect(bio)
        PROVE  TypeOK'
    BY <2>4 DEF Redirect, Bio
  <2>5. ASSUME NEW bio \in entering, RedirectFails(bio)
        PROVE  TypeOK'
    <3>1. bio.id \in Values /\ bio.blks \subseteq Blocks
      BY CowAssumption, RangesAreBlocks DEF Bio, Values
    <3>2. QED
      BY <2>5, <3>1 DEF RedirectFails, LowLevel, Submit
  <2>6. ASSUME NEW a \in Actors, CopyStep(a)
        PROVE  TypeOK'
    <3>1. CASE ReadOriginal(a)
      BY <3>1 DEF ReadOriginal, Advance, CopyState, Asked, Actors
    <3>2. CASE ReadOriginalFails(a)
      BY <3>2 DEF ReadOriginalFails, Advance, CopyState, AfterCopy, Actors
    <3>3. CASE StoreCopy(a)
      BY <3>3, CowAssumption DEF StoreCopy, Advance, CopyState, AfterCopy, CheckHalffill, Actors
    <3>4. CASE StoreCopyFails(a)
      BY <3>4, CowAssumption DEF StoreCopyFails, Advance, CopyState, AfterCopy, CheckHalffill, Actors
    <3>5. QED
      BY <2>6, <3>1, <3>2, <3>3, <3>4 DEF CopyStep
  <2>7. CASE DeferLock
    BY <2>7 DEF DeferLock, TakeLock, Actors
  <2>8. CASE DeferPrepare \/ DeferPrepareFails
    <3> DEFINE bio == Head(queue)
    <3>1. queue # <<>>
      BY <2>8 DEF DeferPrepare, DeferPrepareFails, PopDio, RoomInBatch
    <3>2. bio \in Bio /\ queue' \in Seq(Bio) /\ inProcess' \in Seq(Bio)
      <4>1. queue' = Tail(queue) /\ inProcess' = Append(inProcess, bio)
        BY <2>8 DEF DeferPrepare, DeferPrepareFails, PopDio
      <4>2. queue \in Seq(Bio) /\ inProcess \in Seq(Bio)
        OBVIOUS
      <4>3. QED
        BY <3>1, <4>1, <4>2
    <3>3. bio.blks \subseteq Blocks /\ Cardinality(bio.blks) \in Nat
      BY <3>2, RangesAreBlocks, FS_CardinalityType DEF Bio
    <3>4. CASE DeferPrepare
      <4>1. dios' \in Nat /\ dioBlocks' \in Nat
        BY <3>3, <3>4 DEF DeferPrepare
      <4>2. /\ copy' \in [Blocks -> CopyState] /\ store' = store
            /\ corrupted' \in BOOLEAN /\ empty' \in Nat
            /\ overflowed' \in BOOLEAN /\ halffilled' = halffilled
            /\ portions' = portions
        BY <3>3, <3>4, PrepareType DEF DeferPrepare
      <4>3. QED
        BY <3>2, <3>4, <4>1, <4>2 DEF DeferPrepare, PopDio
    <3>5. CASE DeferPrepareFails
      <4>1. /\ copy' \in [Blocks -> CopyState] /\ store' = store
            /\ corrupted' \in BOOLEAN /\ empty' \in Nat
            /\ overflowed' \in BOOLEAN /\ halffilled' = halffilled
            /\ portions' = portions
        BY <3>3, <3>5, PrepareType DEF DeferPrepareFails
      <4>2. QED
        BY <3>2, <3>5, <4>1 DEF DeferPrepareFails, PopDio, Actors
    <3>6. QED
      BY <2>8, <3>4, <3>5
  <2>9. CASE DeferPrepared
    BY <2>9 DEF DeferPrepared, Actors
  <2>10. ASSUME NEW bio \in Bio, SubmitDeferred(bio), pc' = pc,
                queue' \in Seq(Bio), inProcess' \in Seq(Bio)
         PROVE  TypeOK'
    <3>1. bio.id \in Values /\ bio.id \in 1 .. MaxIo /\ bio.blks \subseteq Blocks
      BY CowAssumption, RangesAreBlocks DEF Bio, Values
    <3>2. orig' \in [Blocks -> Values] /\ dirty' \in SUBSET Blocks
      BY <2>10, <3>1 DEF SubmitDeferred, Submit
    <3>3. submitted' \in Seq(1 .. MaxIo)
      BY <2>10, <3>1 DEF SubmitDeferred
    <3>4. QED
      BY <2>10, <3>2, <3>3 DEF SubmitDeferred
  <2>23. CASE DeferFinish
    <3>1. Head(inProcess) \in Bio /\ Tail(inProcess) \in Seq(Bio)
      BY <2>23 DEF DeferFinish
    <3>2. QED
      BY <2>10, <2>23, <3>1 DEF DeferFinish
  <2>24. CASE DeferDrain
    <3>1. Head(queue) \in Bio /\ Tail(queue) \in Seq(Bio)
      BY <2>24 DEF DeferDrain
    <3>2. QED
      BY <2>10, <2>24, <3>1 DEF DeferDrain
  <2>11. CASE DeferUnlock
    BY <2>11 DEF DeferUnlock, Actors
  <2>12. CASE DeferExit \/ DeferDone
    BY <2>12 DEF DeferExit, DeferDone, Actors
  <2>13. CASE DeferClose
    BY <2>13 DEF DeferClose, Actors
  <2>14. CASE ImageRead
    BY <2>14, CowAssumption DEF ImageRead, ImageDone, Missing, NoRequest, Values, Actors
  <2>15. CASE ImageLock
    BY <2>15 DEF ImageLock, TakeLock, Actors
  <2>16. CASE ImagePrepare \/ ImagePrepareFails
    <3>1. /\ copy' \in [Blocks -> CopyState] /\ store' = store
          /\ corrupted' \in BOOLEAN /\ empty' \in Nat
          /\ overflowed' \in BOOLEAN /\ halffilled' = halffilled
          /\ portions' = portions
      BY <2>16, PrepareType DEF ImagePrepare, ImagePrepareFails
    <3>2. QED
      BY <2>16, <3>1 DEF ImagePrepare, ImagePrepareFails, Actors
  <2>17. CASE ImageUnlock
    BY <2>17 DEF ImageUnlock, Actors
  <2>18. CASE ImageWrite
    BY <2>18, CowAssumption DEF ImageWrite, ImageDone, NoRequest, Values, Actors
  <2>19. CASE ImageWriteFails
    BY <2>19, CowAssumption DEF ImageWriteFails, ImageDone, NoRequest, Values, Actors
  <2>29. CASE FetchCompletes
    BY <2>29 DEF FetchCompletes
  <2>20. CASE AddPortion \/ OtherDeviceTakes
    <3>1. CASE AddPortion
      <4>1. empty' \in Nat /\ portions' \in 0 .. MaxPortions
        BY <3>1, CowAssumption DEF AddPortion
      <4>2. halffilled' \in BOOLEAN
        BY <3>1 DEF AddPortion
      <4>3. QED
        BY <3>1, <4>1, <4>2 DEF AddPortion
    <3>2. CASE OtherDeviceTakes
      <4>1. empty' \in Nat
        BY <3>2 DEF OtherDeviceTakes
      <4>2. overflowed' \in BOOLEAN
        BY <3>2 DEF OtherDeviceTakes
      <4>3. UNCHANGED <<originVars, storeVars, halffilled, portions, queueVars,
                        imageVars, history, pc>>
        BY <3>2 DEF OtherDeviceTakes
      <4>4. QED
        BY <4>1, <4>2, <4>3
    <3>3. QED
      BY <2>20, <3>1, <3>2
  <2>21. CASE StopImage \/ Release \/ StopDefer
    BY <2>21 DEF StopImage, Release, StopDefer
  <2>22. CASE UNCHANGED vars
    BY <2>22 DEF vars
  <2> HIDE DEF TypeOK
  <2>28. Defer \in Actors /\ Image \in Actors
    BY DEF Actors
  <2>25. CASE DeferStep
    BY <2>25, <2>6, <2>7, <2>8, <2>9, <2>11, <2>12, <2>13, <2>23, <2>24,
       <2>28 DEF DeferStep
  <2>26. CASE ImageStep
    BY <2>26, <2>6, <2>14, <2>15, <2>16, <2>17, <2>18, <2>19, <2>28 DEF ImageStep
  <2>27. QED
    BY <2>1, <2>2, <2>3, <2>4, <2>5, <2>20, <2>21, <2>22, <2>25, <2>26, <2>29 DEF Next
<1>3. QED
  BY <1>1, <1>2, PTL DEF Spec

-----------------------------------------------------------------------------
(* Lemmas about single steps.                                              *)

(* Preparing a copy gives descriptors and takes none away; no block        *)
(* becomes read or done by it, and a failed preparation leaves no block    *)
(* waiting.                                                                *)
LEMMA PrepareCopy ==
  ASSUME TypeOK, NEW blks \in SUBSET Blocks,
         PrepareRequests(blks) \/ PrepareRequestsFail(blks)
  PROVE  /\ store' = store
         /\ corrupted => corrupted'
         /\ \A b \in Blocks :
              /\ Stored(b) => Stored(b)'
              /\ copy[b] # "asked" /\ Stored(b) => copy'[b] = copy[b]
              /\ copy'[b] \in {"asked", "junk", copy[b]}
         /\ PrepareRequests(blks) =>
              /\ corrupted' = corrupted
              /\ Missing(blks)' = {}
              /\ \A b \in Blocks : copy'[b] = "junk" => copy[b] = "junk"
         /\ PrepareRequestsFail(blks) =>
              corrupted' /\ \A b \in Blocks : copy'[b] # "asked"
<1>1. CASE PrepareRequests(blks)
  <2>1. store' = store /\ corrupted' = corrupted
    BY <1>1 DEF PrepareRequests
  <2>2. \A b \in Blocks : copy'[b] = IF b \in Missing(blks) THEN "asked" ELSE copy[b]
    BY <1>1 DEF PrepareRequests
  <2>3. Missing(blks)' = {}
    BY <2>2 DEF Missing, Stored
  <2>5. PrepareRequestsFail(blks) => corrupted' /\ \A b \in Blocks : copy'[b] # "asked"
    BY <2>1, <2>2 DEF PrepareRequestsFail, Asked, Missing, Stored, TypeOK
  <2>6. QED
    BY <2>1, <2>2, <2>3, <2>5 DEF Missing, Stored
<1>2. CASE PrepareRequestsFail(blks) /\ ~PrepareRequests(blks)
  <2>1. PICK k \in Missing(blks), cause \in {"pool", "map", "alloc"} :
          LET before == {b \in Missing(blks) : b < k}
              mapped == IF cause = "alloc" THEN before \cup {k} ELSE before
          IN copy' = [b \in Blocks |-> IF b \in mapped \cup Asked THEN "junk" ELSE copy[b]]
    BY <1>2 DEF PrepareRequestsFail
  <2>2. PICK mapped \in SUBSET Missing(blks) :
          copy' = [b \in Blocks |-> IF b \in mapped \cup Asked THEN "junk" ELSE copy[b]]
    BY <2>1
  <2>3. corrupted' /\ store' = store
    BY <1>2 DEF PrepareRequestsFail
  <2>4. QED
    BY <1>2, <2>2, <2>3 DEF Missing, Stored, Asked
<1>3. QED
  BY <1>1, <1>2

(* The image stays as it is through a step that keeps its contents and     *)
(* does not make a block trusted again.                                    *)
LEMMA ImageKept ==
  ASSUME TypeOK, PointInTime,
         imaging' => imaging, corrupted => corrupted', snap' = snap,
         \A b \in Blocks : Trusted(b)' => Trusted(b) /\ View(b)' = View(b)
  PROVE  PointInTime'
BY DEF PointInTime

(* A request that bypasses the queue leaves the image as it is.            *)
LEMMA LowLevelKeepsImage ==
  ASSUME TypeOK, PointInTime, NEW bio, bio.write \in BOOLEAN, LowLevel(bio),
         RequestInv,
         UNCHANGED <<copy, store, corrupted, imaging, snap>>
  PROVE  PointInTime'
<1>1. \A b \in Blocks : Trusted(b)' => Trusted(b) /\ View(b)' = View(b)
  BY DEF LowLevel, Submit, Trusted, View, TypeOK, CopyState
<1>2. QED
  BY <1>1, ImageKept

(* A request that the defer IO thread submits leaves the image as it is    *)
(* when its blocks have been copied, or nobody can read the image any more. *)
LEMMA SubmitKeepsImage ==
  ASSUME TypeOK, PointInTime, RequestInv, NEW bio \in Bio, SubmitDeferred(bio),
         imaging /\ ~corrupted /\ bio.write =>
           /\ \A b \in bio.blks : Stored(b)
           /\ \A b \in Blocks : copy[b] # "asked"
  PROVE  PointInTime'
<1> USE DEF SubmitDeferred, storeVars, imageVars
<1>1. CASE ~imaging \/ corrupted
  BY <1>1 DEF PointInTime
<1>2. CASE imaging /\ ~corrupted
  <2>1. \A b \in Blocks : Trusted(b)' => Trusted(b) /\ View(b)' = View(b)
    <3> SUFFICES ASSUME NEW b \in Blocks, Trusted(b)'
                 PROVE  Trusted(b) /\ View(b)' = View(b)
      OBVIOUS
    <3>1. CASE bio.write /\ b \in bio.blks
      BY <1>2, <3>1 DEF Stored, Trusted, View, TypeOK, CopyState
    <3>2. CASE ~(bio.write /\ b \in bio.blks)
      BY <3>2 DEF Submit, Trusted, View, Bio
    <3>3. QED
      BY <3>1, <3>2
  <2>2. QED
    BY <2>1, ImageKept
<1>3. QED
  BY <1>1, <1>2

(* Whatever reaches the original is marked.                                *)
LEMMA SubmitMarks ==
  ASSUME TypeOK, DirtyCoversWrites, NEW bio, bio.write \in BOOLEAN,
         Submit(bio), snap' = snap
  PROVE  DirtyCoversWrites' /\ dirty \subseteq dirty'
BY DEF DirtyCoversWrites, Submit, TypeOK

(* The batch keeps its copies while blocks stay stored.                    *)
LEMMA BatchKept ==
  ASSUME TypeOK, BatchInv, inProcess' = inProcess,
         stop => stop', corrupted => corrupted',
         \A b \in Blocks : Stored(b) => Stored(b)'
  PROVE  BatchInv'
<1>1. ASSUME NEW i \in 1 .. Len(inProcess)
      PROVE  inProcess[i].blks \subseteq Blocks
  <2>1. inProcess[i] \in Bio
    BY DEF TypeOK
  <2>2. QED
    BY <2>1, RangesAreBlocks DEF Bio
<1>2. QED
  BY <1>1 DEF BatchInv

(* Copying is done by the holder of the locker, in all of its stages.      *)
LEMMA CopyKeepsInvariant ==
  ASSUME TypeOK, IInv, NEW a \in Actors, CopyStep(a)
  PROVE  IInv'
<1> USE DEF originVars, storeVars, poolVars, queueVars, imageVars, history,
            TypeOK, Actors
<1>1. pc[a] \in {"read", "store"} /\ locker = a /\ a # Free
  BY DEF CopyStep, ReadOriginal, ReadOriginalFails, StoreCopy, StoreCopyFails,
         IInv, LockInv, Defer, Image, Free
<1>2. /\ UNCHANGED <<originVars, locker, queueVars, imageVars, history>>
      /\ \A b \in Blocks : Stored(b) => Stored(b)'
      /\ corrupted => corrupted'
  BY DEF CopyStep, ReadOriginal, ReadOriginalFails, StoreCopy, StoreCopyFails,
         Stored, Advance, Asked
<1>3. \A b \in Blocks : Trusted(b)' => Trusted(b) /\ View(b)' = View(b)
  BY <1>1 DEF CopyStep, ReadOriginal, ReadOriginalFails, StoreCopy, StoreCopyFails,
         Advance, Asked, Trusted, View, CopyState
<1>4. LockInv'
  <2>1. pc' \in {[pc EXCEPT ![a] = "store"], [pc EXCEPT ![a] = AfterCopy(a)]}
    BY DEF CopyStep, ReadOriginal, ReadOriginalFails, StoreCopy, StoreCopyFails
  <2>2. LockInv
    BY DEF IInv
  <2>3. QED
    BY <1>1, <1>2, <2>1, <2>2 DEF LockInv, AfterCopy, Defer, Image
<1>5. RequestInv'
  <2>1. RequestInv
    BY DEF IInv
  <2>2. CASE ReadOriginal(a)
    BY <1>1, <2>1, <2>2 DEF ReadOriginal, RequestInv, Advance, CopyState
  <2>3. CASE ReadOriginalFails(a)
    BY <1>1, <2>1, <2>3 DEF ReadOriginalFails, RequestInv, Advance, CopyState
  <2>4. CASE StoreCopy(a) \/ StoreCopyFails(a)
    <3>1. \A b \in Blocks : copy[b] # "asked"
      BY <1>1, <2>1, <2>4 DEF StoreCopy, StoreCopyFails, RequestInv
    <3>2. \A b \in Blocks : copy'[b] \notin {"asked", "read"}
      BY <2>4, <3>1 DEF StoreCopy, StoreCopyFails, Advance
    <3>3. QED
      BY <3>2 DEF RequestInv
  <2>5. QED
    BY <2>2, <2>3, <2>4 DEF CopyStep
<1>6. BatchInv'
  BY <1>2, BatchKept DEF IInv
<1>7. StopInv'
  <2>1. StopInv
    BY DEF IInv
  <2>2. /\ pc'[Defer] \in {"exit", "drain", "done"} => pc[Defer] \in {"exit", "drain", "done"}
        /\ pc'[Image] # "idle" => pc[Image] # "idle"
    BY <1>1 DEF CopyStep, ReadOriginal, ReadOriginalFails, StoreCopy, StoreCopyFails,
           AfterCopy, Defer, Image
  <2>3. QED
    BY <1>2, <2>1, <2>2 DEF StopInv
<1>8. ImageWriteInv'
  <2>1. pc[Image] \in {"idle", "fetch"} => pc'[Image] \in {"idle", "fetch"}
    BY <1>1 DEF CopyStep, ReadOriginal, ReadOriginalFails, StoreCopy, StoreCopyFails,
           AfterCopy, Defer, Image
  <2>2. QED
    BY <1>2, <2>1 DEF IInv, ImageWriteInv
<1>9. PointInTime'
  BY <1>2, <1>3, ImageKept DEF IInv
<1>10. DirtyCoversWrites'
  BY <1>2 DEF IInv, DirtyCoversWrites
<1>11. QED
  BY <1>4, <1>5, <1>6, <1>7, <1>8, <1>9, <1>10 DEF IInv

(* Preparing the copy of a request, by the thread that holds the locker.   *)
LEMMA PrepareKeepsImage ==
  ASSUME TypeOK, PointInTime, NEW blks \in SUBSET Blocks,
         PrepareRequests(blks) \/ PrepareRequestsFail(blks),
         RequestInv, locker # Free, pc[locker] = "prepare",
         UNCHANGED <<orig, locker, imaging, snap, bypassed>>
  PROVE  PointInTime'
<1>1. \A b \in Blocks : copy[b] # "read"
  BY DEF RequestInv
<1>2. CASE PrepareRequests(blks)
  <2>1. \A b \in Blocks : Trusted(b)' => Trusted(b) /\ View(b)' = View(b)
    BY <1>1, <1>2, PrepareCopy DEF Trusted, View, PrepareRequests, Missing, Stored,
       TypeOK, CopyState
  <2>2. QED
    BY <2>1, PrepareCopy, ImageKept
<1>3. CASE PrepareRequestsFail(blks)
  BY <1>3, PrepareCopy DEF PointInTime
<1>4. QED
  BY <1>2, <1>3

(* The invariant holds when a snapshot is taken.                           *)
LEMMA InvariantInit == Init => IInv
<1> SUFFICES ASSUME Init PROVE IInv
  OBVIOUS
<1> USE DEF Init, Defer, Image, Free, Actors
<1>1. LockInv /\ RequestInv /\ StopInv /\ ImageWriteInv
  BY DEF LockInv, RequestInv, StopInv, ImageWriteInv, NoRequest
<1>2. BatchInv
  BY DEF BatchInv
<1>3. PointInTime /\ DirtyCoversWrites
  BY DEF PointInTime, DirtyCoversWrites, View
<1>4. QED
  BY <1>1, <1>2, <1>3 DEF IInv

(* The steps of the defer IO thread outside of the copy itself.            *)
LEMMA DeferKeepsInvariant ==
  ASSUME TypeOK, IInv, DeferStep, ~CopyStep(Defer)
  PROVE  IInv'
<1> USE DEF originVars, storeVars, poolVars, queueVars, imageVars, history
<1>0. /\ LockInv /\ RequestInv /\ BatchInv /\ StopInv /\ ImageWriteInv
      /\ PointInTime /\ DirtyCoversWrites
  BY DEF IInv
<1>p. pc \in [Actors -> {"idle", "prepare", "read", "store", "finish", "unlock",
                        "exit", "drain", "done", "fetch", "cow", "redirect"}]
      /\ locker \in Actors \cup {Free}
      /\ copy \in [Blocks -> CopyState]
  BY DEF TypeOK
<1>1. ASSUME DeferLock \/ DeferPrepared \/ DeferUnlock \/ DeferExit \/ DeferClose \/ DeferDone
      PROVE  IInv'
  <2>1. /\ UNCHANGED <<originVars, copy, store, corrupted, poolVars, inProcess, stop,
                       imageVars, history>>
        /\ pc'[Image] = pc[Image]
    BY <1>1, <1>p DEF DeferLock, DeferPrepared, DeferUnlock, DeferExit, DeferClose, DeferDone,
       TakeLock, Defer, Image, Actors
  <2>2. LockInv'
    BY <1>0, <1>1, <1>p, <2>1 DEF DeferLock, DeferPrepared, DeferUnlock, DeferExit,
       DeferClose, DeferDone, TakeLock, LockInv, Defer, Image, Free, Actors
  <2>3. RequestInv'
    BY <1>0, <1>1, <1>p, <2>1 DEF DeferLock, DeferPrepared, DeferUnlock, DeferExit,
       DeferClose, DeferDone, TakeLock, LockInv, RequestInv, Asked, Defer, Image, Free, Actors
  <2>4. BatchInv'
    BY <1>0, <2>1, BatchKept DEF Stored
  <2>5. StopInv'
    BY <1>0, <1>1, <1>p, <2>1 DEF DeferLock, DeferPrepared, DeferUnlock, DeferExit,
       DeferClose, DeferDone, StopInv, Defer, Actors
  <2>6. ImageWriteInv' /\ PointInTime' /\ DirtyCoversWrites'
    BY <1>0, <2>1 DEF ImageWriteInv, PointInTime, View, Trusted, DirtyCoversWrites
  <2>7. QED
    BY <2>2, <2>3, <2>4, <2>5, <2>6 DEF IInv
<1>2. ASSUME DeferPrepare \/ DeferPrepareFails
      PROVE  IInv'
  <2>0. PICK bio : bio = Head(queue)
    OBVIOUS
  <2>1. /\ bio \in Bio /\ bio.blks \in SUBSET Blocks
        /\ inProcess \in Seq(Bio) /\ inProcess' = Append(inProcess, bio)
        /\ pc[Defer] = "prepare" /\ locker = Defer /\ locker' = Defer
        /\ UNCHANGED <<originVars, stop, imageVars, history>>
    <3>1. queue # <<>> /\ queue \in Seq(Bio)
      BY <1>2 DEF DeferPrepare, DeferPrepareFails, PopDio, RoomInBatch, TypeOK
    <3>2. bio \in Bio
      BY <2>0, <3>1
    <3>3. bio.blks \in SUBSET Blocks
      BY <3>2, RangesAreBlocks DEF Bio
    <3>4. QED
      BY <1>0, <1>2, <2>0, <3>2, <3>3 DEF DeferPrepare, DeferPrepareFails, PopDio, TypeOK,
         LockInv, Defer, Image, Free
  <2>2. /\ \A b \in Blocks : Stored(b) => Stored(b)'
        /\ corrupted => corrupted'
        /\ \A b \in Blocks : copy'[b] # "read"
    <3>1. \A b \in Blocks : copy[b] # "read"
      BY <1>0, <2>1 DEF RequestInv
    <3>2. CASE PrepareRequests(bio.blks) \/ PrepareRequestsFail(bio.blks)
      BY <2>1, <3>1, <3>2, PrepareCopy
    <3>3. CASE UNCHANGED <<copy, corrupted>>
      BY <3>1, <3>3 DEF Stored
    <3>4. QED
      BY <1>2, <2>0, <3>2, <3>3 DEF DeferPrepare, DeferPrepareFails
  <2>3. ~stop' /\ ~corrupted' /\ bio.write => \A b \in bio.blks : Stored(b)'
    <3>1. CASE NeedsCopy(bio)
      <4>1. PrepareRequests(bio.blks) \/ PrepareRequestsFail(bio.blks)
        BY <1>2, <2>0, <3>1 DEF DeferPrepare, DeferPrepareFails
      <4>2. ~corrupted' => Missing(bio.blks)' = {}
        BY <2>1, <4>1, PrepareCopy
      <4>3. QED
        BY <4>2 DEF Missing
    <3>2. CASE ~NeedsCopy(bio)
      BY <2>1, <2>2, <3>2 DEF NeedsCopy
    <3>3. QED
      BY <3>1, <3>2
  <2>4. BatchInv'
    <3>1. ASSUME ~stop', ~corrupted', NEW i \in 1 .. Len(inProcess'),
                 inProcess'[i].write
          PROVE  \A b \in inProcess'[i].blks : copy'[b] # "none"
      <4>1. CASE i = Len(inProcess) + 1
        BY <2>1, <2>3, <3>1, <4>1 DEF Stored
      <4>2. CASE i # Len(inProcess) + 1
        <5>1. i \in 1 .. Len(inProcess) /\ inProcess'[i] = inProcess[i] /\ inProcess[i] \in Bio
          BY <2>1, <4>2
        <5>2. inProcess[i].blks \subseteq Blocks
          BY <5>1, RangesAreBlocks DEF Bio
        <5>3. \A b \in inProcess[i].blks : Stored(b)
          BY <1>0, <2>1, <2>2, <3>1, <5>1 DEF BatchInv
        <5>4. QED
          BY <2>2, <5>1, <5>2, <5>3 DEF Stored
      <4>3. QED
        BY <4>1, <4>2
    <3>2. QED
      BY <3>1 DEF BatchInv, Stored
  <2>5. LockInv' /\ StopInv' /\ ImageWriteInv'
    BY <1>0, <1>2, <1>p, <2>1 DEF DeferPrepare, DeferPrepareFails, PopDio, LockInv, StopInv,
       ImageWriteInv, Defer, Image, Actors
  <2>6. RequestInv'
    <3>1. CASE DeferPrepareFails
      BY <2>0, <2>1, <2>2, <3>1, PrepareCopy DEF DeferPrepareFails, RequestInv
    <3>2. CASE DeferPrepare
      BY <2>1, <2>2, <3>2 DEF DeferPrepare, RequestInv, Defer, Free
    <3>3. QED
      BY <1>2, <3>1, <3>2
  <2>7. PointInTime'
    <3>1. CASE PrepareRequests(bio.blks) \/ PrepareRequestsFail(bio.blks)
      BY <1>0, <2>1, <3>1, PrepareKeepsImage DEF Defer, Free
    <3>2. CASE UNCHANGED <<copy, store, corrupted>>
      BY <1>0, <2>1, <3>2 DEF PointInTime, Trusted, View
    <3>3. QED
      BY <1>2, <2>0, <3>1, <3>2 DEF DeferPrepare, DeferPrepareFails
  <2>8. DirtyCoversWrites'
    BY <1>0, <2>1 DEF DirtyCoversWrites
  <2>9. QED
    BY <2>4, <2>5, <2>6, <2>7, <2>8 DEF IInv
<1>3. ASSUME NEW bio \in Bio, SubmitDeferred(bio), pc' = pc, BatchInv',
             imaging /\ ~corrupted /\ bio.write =>
               /\ \A b \in bio.blks : Stored(b)
               /\ \A b \in Blocks : copy[b] # "asked"
      PROVE  IInv'
  <2>1. UNCHANGED <<copy, locker, captured, stop, imaging, ireq, snap>>
    BY <1>3 DEF SubmitDeferred
  <2>2. PointInTime'
    BY <1>0, <1>3, SubmitKeepsImage
  <2>3. DirtyCoversWrites' /\ dirty \subseteq dirty'
    BY <1>0, <1>3, <2>1, SubmitMarks DEF SubmitDeferred, Bio
  <2>4. LockInv' /\ RequestInv' /\ StopInv' /\ ImageWriteInv'
    BY <1>0, <1>3, <2>1, <2>3 DEF LockInv, RequestInv, StopInv, ImageWriteInv
  <2>5. QED
    BY <1>3, <2>2, <2>3, <2>4 DEF IInv
<1>4. CASE DeferFinish
  <2>1. inProcess \in Seq(Bio) /\ inProcess # <<>> /\ inProcess' = Tail(inProcess)
    BY <1>4 DEF DeferFinish, TypeOK
  <2>2. Head(inProcess) \in Bio /\ Head(inProcess) = inProcess[1] /\ 1 \in 1 .. Len(inProcess)
    BY <2>1
  <2>3. SubmitDeferred(Head(inProcess)) /\ pc' = pc /\ pc[Defer] = "finish"
    BY <1>4 DEF DeferFinish
  <2>4. UNCHANGED <<copy, corrupted, stop>>
    BY <2>3 DEF SubmitDeferred
  <2>5. BatchInv'
    <3>1. \A i \in 1 .. Len(inProcess') :
            i + 1 \in 1 .. Len(inProcess) /\ inProcess'[i] = inProcess[i + 1]
      BY <2>1
    <3>2. QED
      BY <1>0, <2>4, <3>1 DEF BatchInv, Stored
  <2>6. \A b \in Blocks : copy[b] # "asked"
    BY <1>0, <2>3 DEF LockInv, RequestInv
  <2>7. imaging /\ ~corrupted /\ Head(inProcess).write =>
          \A b \in Head(inProcess).blks : Stored(b)
    BY <1>0, <2>2 DEF BatchInv, StopInv
  <2>8. QED
    BY <1>3, <2>2, <2>3, <2>5, <2>6, <2>7
<1>5. CASE DeferDrain
  <2>1. Head(queue) \in Bio
    <3>1. queue \in Seq(Bio) /\ queue # <<>>
      BY <1>5 DEF DeferDrain, TypeOK
    <3>2. QED
      BY <3>1
  <2>2. SubmitDeferred(Head(queue)) /\ pc' = pc /\ inProcess' = inProcess /\ ~imaging /\ stop
    BY <1>0, <1>5 DEF DeferDrain, StopInv
  <2>3. BatchInv'
    BY <2>2 DEF BatchInv, SubmitDeferred
  <2>4. QED
    BY <1>3, <2>1, <2>2, <2>3
<1>6. QED
  BY <1>1, <1>2, <1>4, <1>5 DEF DeferStep

(* The steps of the image thread outside of the copy itself.               *)
LEMMA ImageKeepsInvariant ==
  ASSUME TypeOK, IInv, ImageStep, ~CopyStep(Image)
  PROVE  IInv'
<1> USE DEF originVars, storeVars, poolVars, queueVars, imageVars, history
<1>0. /\ LockInv /\ RequestInv /\ BatchInv /\ StopInv /\ ImageWriteInv
      /\ PointInTime /\ DirtyCoversWrites
  BY DEF IInv
<1>p. pc \in [Actors -> {"idle", "prepare", "read", "store", "finish", "unlock",
                        "exit", "drain", "done", "fetch", "cow", "redirect"}]
      /\ locker \in Actors \cup {Free}
      /\ copy \in [Blocks -> CopyState]
  BY DEF TypeOK
<1>1. ASSUME ImageRead \/ ImageLock \/ ImageUnlock \/ ImageWriteFails
      PROVE  IInv'
  <2>1. /\ UNCHANGED <<originVars, copy, store, poolVars, queueVars, imaging, history>>
        /\ corrupted => corrupted'
        /\ pc'[Defer] = pc[Defer]
    BY <1>1, <1>p DEF ImageRead, ImageLock, ImageUnlock, ImageWriteFails, ImageDone,
       TakeLock, Defer, Image, Actors
  <2>2. LockInv'
    BY <1>0, <1>1, <1>p, <2>1 DEF ImageRead, ImageLock, ImageUnlock, ImageWriteFails,
       ImageDone, Fetching, TakeLock, LockInv, Defer, Image, Free, Actors
  <2>3. RequestInv'
    <3>1. \A b \in Blocks : copy[b] \notin {"asked", "read"}
      BY <1>0, <1>1, <1>p DEF ImageRead, ImageLock, ImageUnlock, ImageWriteFails,
         Fetching, TakeLock, LockInv, RequestInv, Defer, Image, Free, Actors
    <3>2. QED
      BY <2>1, <3>1 DEF RequestInv
  <2>4. BatchInv'
    BY <1>0, <2>1, BatchKept DEF Stored
  <2>5. PointInTime' /\ DirtyCoversWrites'
    BY <1>0, <2>1 DEF PointInTime, View, Trusted, DirtyCoversWrites
  <2>8. StopInv'
    BY <1>0, <1>1, <1>p, <2>1 DEF ImageRead, ImageLock, ImageUnlock, ImageWriteFails,
       ImageDone, Fetching, StopInv, Image, Actors
  <2>6. ImageWriteInv'
    BY <1>0, <1>1, <1>p, <2>1 DEF ImageRead, ImageLock, ImageUnlock, ImageWriteFails,
       ImageDone, ImageWriteInv, Image, Actors
  <2>7. QED
    BY <2>2, <2>3, <2>4, <2>5, <2>6, <2>8 DEF IInv
<1>2. ASSUME ImagePrepare \/ ImagePrepareFails
      PROVE  IInv'
  <2>0. PICK blks : blks = ireq.blks
    OBVIOUS
  <2>1. /\ blks \in SUBSET Blocks
        /\ PrepareRequests(blks) \/ PrepareRequestsFail(blks)
        /\ pc[Image] = "prepare" /\ locker = Image /\ locker' = Image
        /\ pc'[Defer] = pc[Defer]
        /\ UNCHANGED <<originVars, queueVars, imageVars, history>>
    BY <1>0, <1>2, <1>p, <2>0 DEF ImagePrepare, ImagePrepareFails, TypeOK, LockInv, Defer,
       Image, Actors
  <2>2. /\ \A b \in Blocks : Stored(b) => Stored(b)'
        /\ \A b \in Blocks : copy'[b] # "read"
        /\ corrupted => corrupted'
    <3>1. \A b \in Blocks : copy[b] # "read"
      BY <1>0, <2>1 DEF RequestInv
    <3>2. QED
      BY <2>1, <3>1, PrepareCopy
  <2>3. LockInv' /\ StopInv' /\ ImageWriteInv' /\ DirtyCoversWrites'
    BY <1>0, <1>2, <1>p, <2>1 DEF ImagePrepare, ImagePrepareFails, LockInv, StopInv,
       ImageWriteInv, DirtyCoversWrites, Defer, Image, Actors
  <2>4. RequestInv'
    <3>1. CASE ImagePrepareFails
      <4>1. \A b \in Blocks : copy'[b] # "asked"
        BY <2>0, <2>1, <3>1, PrepareCopy DEF ImagePrepareFails
      <4>2. QED
        BY <2>2, <4>1 DEF RequestInv
    <3>2. CASE ImagePrepare /\ Missing(blks) # {}
      BY <1>p, <2>0, <2>1, <2>2, <3>2 DEF ImagePrepare, RequestInv, Image, Free, Actors
    <3>3. CASE ImagePrepare /\ Missing(blks) = {}
      <4>1. \A b \in Blocks : copy'[b] = copy[b]
        BY <2>0, <3>3 DEF ImagePrepare, PrepareRequests
      <4>2. \A b \in Blocks : copy[b] # "asked"
        BY <1>0, <2>1 DEF RequestInv, Defer, Image
      <4>3. QED
        BY <2>2, <4>1, <4>2 DEF RequestInv
    <3>4. QED
      BY <1>2, <3>1, <3>2, <3>3
  <2>5. BatchInv'
    BY <1>0, <2>1, <2>2, BatchKept
  <2>6. PointInTime'
    BY <1>0, <2>1, PrepareKeepsImage DEF Image, Free
  <2>7. QED
    BY <2>3, <2>4, <2>5, <2>6 DEF IInv
<1>3. CASE ImageWrite
  <2>1. /\ pc[Image] = "redirect" /\ locker = Free
        /\ \A b \in ireq.blks : Stored(b)
        /\ \A b \in Blocks : copy[b] \notin {"asked", "read"}
    BY <1>0, <1>3 DEF ImageWrite, Missing, RequestInv, Defer, Image, Free
  <2>2. /\ UNCHANGED <<originVars, copy, corrupted, locker, poolVars, queueVars,
                       imaging, bypassed, received, submitted>>
        /\ pc'[Defer] = pc[Defer] /\ pc'[Image] = "idle"
    BY <1>3, <1>p DEF ImageWrite, ImageDone, Defer, Image, Actors
  <2>3. LockInv' /\ StopInv' /\ ImageWriteInv' /\ RequestInv'
    BY <1>0, <2>1, <2>2 DEF LockInv, StopInv, ImageWriteInv, RequestInv, Defer, Image, Free
  <2>4. BatchInv'
    BY <1>0, <2>2, BatchKept DEF Stored
  <2>5. PointInTime'
    BY <1>0, <1>3, <2>1, <2>2 DEF ImageWrite, PointInTime, Trusted, View, Stored, TypeOK,
       CopyState
  <2>6. DirtyCoversWrites'
    BY <1>0, <1>3, <2>1, <2>2 DEF ImageWrite, DirtyCoversWrites, ImageWriteInv, TypeOK
  <2>7. QED
    BY <2>3, <2>4, <2>5, <2>6 DEF IInv
<1>4. QED
  BY <1>1, <1>2, <1>3 DEF ImageStep

(* The users of the device and of the image, the snapstore's other users,  *)
(* and the end of the snapshot.                                            *)
LEMMA UsersKeepInvariant ==
  ASSUME TypeOK, IInv,
         \/ \E r \in OrigRequests : Enter(r.write, r.blks) \/ PassThrough(r.write, r.blks)
         \/ \E r \in ImageRequests : ImageRequest(r.write, r.blks)
         \/ \E bio \in entering : Redirect(bio) \/ RedirectFails(bio)
         \/ FetchCompletes \/ AddPortion \/ OtherDeviceTakes
         \/ StopImage \/ Release \/ StopDefer
         \/ UNCHANGED vars
  PROVE  IInv'
<1> USE DEF originVars, storeVars, poolVars, queueVars, imageVars, history
<1>0. /\ LockInv /\ RequestInv /\ BatchInv /\ StopInv /\ ImageWriteInv
      /\ PointInTime /\ DirtyCoversWrites
  BY DEF IInv
<1>1. ASSUME UNCHANGED <<copy, store, corrupted, locker, inProcess, pc, ireq, snap>>,
             UNCHANGED <<orig, dirty, bypassed>>,
             imaging' => imaging, pc[Image] # "idle" => imaging' = imaging,
             UNCHANGED <<captured, stop>>
      PROVE  IInv'
  <2>1. LockInv' /\ RequestInv' /\ ImageWriteInv'
    BY <1>0, <1>1 DEF LockInv, RequestInv, ImageWriteInv
  <2>2. BatchInv'
    BY <1>0, <1>1, BatchKept DEF Stored
  <2>3. StopInv' /\ PointInTime' /\ DirtyCoversWrites'
    BY <1>0, <1>1 DEF StopInv, PointInTime, View, Trusted, DirtyCoversWrites
  <2>4. QED
    BY <2>1, <2>2, <2>3 DEF IInv
<1>2. ASSUME NEW bio \in Bio, LowLevel(bio),
             UNCHANGED <<copy, store, corrupted, locker, captured, inProcess, stop,
                         imaging, ireq, snap, pc>>
      PROVE  IInv'
  <2>1. PointInTime'
    BY <1>0, <1>2, LowLevelKeepsImage DEF Bio
  <2>2. DirtyCoversWrites' /\ dirty \subseteq dirty'
    BY <1>0, <1>2, SubmitMarks DEF Bio, LowLevel
  <2>3. BatchInv'
    BY <1>0, <1>2, BatchKept DEF Stored
  <2>4. LockInv' /\ RequestInv' /\ StopInv' /\ ImageWriteInv'
    BY <1>0, <1>2, <2>2 DEF LockInv, RequestInv, StopInv, ImageWriteInv
  <2>5. QED
    BY <2>1, <2>2, <2>3, <2>4 DEF IInv
<1>3. ASSUME NEW r \in OrigRequests, Enter(r.write, r.blks)
      PROVE  IInv'
  BY <1>1, <1>3 DEF Enter
<1>4. ASSUME NEW r \in OrigRequests, PassThrough(r.write, r.blks)
      PROVE  IInv'
  <2>1. [id |-> nextIo, write |-> r.write, blks |-> r.blks] \in Bio
    BY <1>4, CowAssumption DEF PassThrough, TypeOK, Bio, Request
  <2>2. QED
    BY <1>2, <1>4, <2>1 DEF PassThrough
<1>5. ASSUME NEW r \in ImageRequests, ImageRequest(r.write, r.blks)
      PROVE  IInv'
  <2>1. r.write \in BOOLEAN
    BY CowAssumption DEF Request
  <2>2. /\ UNCHANGED <<orig, captured, storeVars, queueVars, imaging, history>>
        /\ dirty \subseteq dirty' /\ pc'[Defer] = pc[Defer] /\ pc[Image] = "idle"
        /\ pc'[Image] = IF r.write THEN "cow" ELSE "fetch"
        /\ ireq'.blks = r.blks /\ (r.write => r.blks \subseteq dirty')
    BY <1>5, <2>1 DEF ImageRequest, TypeOK, Actors, Defer, Image
  <2>3. LockInv' /\ StopInv' /\ ImageWriteInv'
    BY <1>0, <1>5, <2>1, <2>2 DEF LockInv, StopInv, ImageWriteInv, ImageRequest, Defer, Image
  <2>7. RequestInv'
    BY <1>0, <2>2 DEF RequestInv
  <2>4. BatchInv'
    BY <1>0, <2>2, BatchKept DEF Stored
  <2>5. PointInTime' /\ DirtyCoversWrites'
    BY <1>0, <2>2 DEF PointInTime, View, Trusted, DirtyCoversWrites
  <2>6. QED
    BY <2>3, <2>4, <2>5, <2>7 DEF IInv
<1>6. ASSUME NEW bio \in entering, Redirect(bio)
      PROVE  IInv'
  BY <1>1, <1>6 DEF Redirect
<1>7. ASSUME NEW bio \in entering, RedirectFails(bio)
      PROVE  IInv'
  BY <1>2, <1>7 DEF RedirectFails, TypeOK
<1>8. CASE FetchCompletes \/ AddPortion \/ OtherDeviceTakes \/ StopImage \/ UNCHANGED vars
  BY <1>1, <1>8 DEF FetchCompletes, AddPortion, OtherDeviceTakes, StopImage, vars
<1>9. CASE Release \/ StopDefer
  <2>1. /\ UNCHANGED <<storeVars, inProcess, pc, ireq, snap, orig, dirty, bypassed, imaging>>
        /\ StopInv' /\ (stop => stop')
    BY <1>0, <1>9 DEF Release, StopDefer, StopInv
  <2>2. LockInv' /\ RequestInv' /\ ImageWriteInv'
    BY <1>0, <2>1 DEF LockInv, RequestInv, ImageWriteInv
  <2>3. BatchInv'
    BY <1>0, <2>1, BatchKept DEF Stored
  <2>4. PointInTime' /\ DirtyCoversWrites'
    BY <1>0, <2>1 DEF PointInTime, View, Trusted, DirtyCoversWrites
  <2>5. QED
    BY <2>1, <2>2, <2>3, <2>4 DEF IInv
<1>10. QED
  BY <1>3, <1>4, <1>5, <1>6, <1>7, <1>8, <1>9

(* No step of the machinery breaks the invariant.                          *)
LEMMA InvariantStep == TypeOK /\ IInv /\ [Next]_vars => IInv'
<1> SUFFICES ASSUME TypeOK, IInv, [Next]_vars
             PROVE  IInv'
  OBVIOUS
<1>1. CASE DeferStep
  BY <1>1, CopyKeepsInvariant, DeferKeepsInvariant DEF Actors
<1>2. CASE ImageStep
  BY <1>2, CopyKeepsInvariant, ImageKeepsInvariant DEF Actors
<1>3. CASE ~DeferStep /\ ~ImageStep
  BY <1>3, UsersKeepInvariant DEF Next
<1>4. QED
  BY <1>1, <1>2, <1>3

(* The inductive invariant holds: who may hold the locker, which copies    *)
(* may be pending, and that every batched write has its blocks stored.     *)
THEOREM InvariantHolds == Spec => []IInv
BY InvariantInit, InvariantStep, TypeCorrect, PTL DEF Spec

(* No write of the original, no copy under way and no failure of a copy    *)
(* changes the blocks of an image that the code vouches for.               *)
THEOREM ImageIsPointInTime == Spec => []PointInTime
<1>1. IInv => PointInTime
  BY DEF IInv
<1>2. QED
  BY <1>1, InvariantHolds, PTL

(* The CBT map marks every block that changed since the capture.           *)
THEOREM ChangesAreMarked == Spec => []DirtyCoversWrites
<1>1. IInv => DirtyCoversWrites
  BY DEF IInv
<1>2. QED
  BY <1>1, InvariantHolds, PTL

(* What a read of the image brings back, under the locker, is the content  *)
(* of the image.                                                           *)
THEOREM ReadsAreConsistent == Spec => []ReadsSnapshot
<1>1. TypeOK /\ IInv => ReadsSnapshot
  <2> SUFFICES ASSUME TypeOK, IInv, Fetching, ~corrupted,
                      NEW b \in ireq.blks, Trusted(b)
               PROVE  Fetched(b) = snap[b]
    BY DEF ReadsSnapshot
  <2>1. b \in Blocks /\ copy[b] \in CopyState
    BY DEF TypeOK
  <2>2. imaging /\ View(b) = snap[b]
    BY <2>1 DEF IInv, StopInv, PointInTime, Fetching
  <2>3. copy[b] \in {"none", "done"}
    BY <2>1 DEF IInv, RequestInv, Fetching, Trusted, CopyState, Defer, Image, Free
  <2>4. QED
    BY <2>2, <2>3 DEF Fetched, Stored, View
<1>2. QED
  BY <1>1, InvariantHolds, TypeCorrect, PTL

-----------------------------------------------------------------------------
(* Copies before writes.                                                   *)

(* A step that changes a block of the original finds its copy done, unless *)
(* the device is corrupted, the thread stops, or the block is given up.    *)
LEMMA CopiesComeFirst ==
  ASSUME TypeOK, IInv, [Next]_vars, NEW b \in Blocks, orig'[b] # orig[b]
  PROVE  corrupted \/ stop \/ copy[b] \in {"read", "done"} \/ ~Trusted(b)'
<1> USE DEF originVars, storeVars, poolVars, queueVars, imageVars, history
<1>1. copy[b] \in CopyState
  BY DEF TypeOK
<1>2. ASSUME NEW bio, LowLevel(bio), copy' = copy
      PROVE  copy[b] \in {"read", "done"} \/ ~Trusted(b)'
  BY <1>1, <1>2 DEF LowLevel, Submit, Trusted, CopyState, TypeOK
<1>3. CASE DeferFinish
  <2>1. PICK bio : bio = Head(inProcess)
    OBVIOUS
  <2>2. Submit(bio) /\ copy' = copy /\ pc[Defer] = "finish"
    BY <1>3, <2>1 DEF DeferFinish, SubmitDeferred
  <2>3. bio.write /\ b \in bio.blks
    BY <2>2 DEF Submit, TypeOK
  <2>4. bio = inProcess[1] /\ 1 \in 1 .. Len(inProcess)
    BY <1>3, <2>1 DEF DeferFinish, TypeOK
  <2>5. ~stop /\ ~corrupted => copy[b] # "none"
    BY <2>3, <2>4 DEF IInv, BatchInv, Stored
  <2>6. copy[b] # "asked"
    BY <2>2 DEF IInv, LockInv, RequestInv
  <2>7. QED
    BY <1>1, <2>2, <2>5, <2>6 DEF Trusted, CopyState
<1>4. CASE DeferDrain
  BY <1>4 DEF DeferDrain, IInv, StopInv
<1>5. CASE DeferStep /\ ~DeferFinish /\ ~DeferDrain
  <2>1. orig' = orig
    BY <1>5 DEF DeferStep, DeferLock, DeferPrepare, DeferPrepareFails, DeferPrepared,
       CopyStep, ReadOriginal, ReadOriginalFails, StoreCopy, StoreCopyFails,
       DeferUnlock, DeferExit, DeferClose, DeferDone
  <2>2. QED
    BY <2>1
<1>6. CASE ImageStep
  <2>1. orig' = orig
    BY <1>6 DEF ImageStep, ImageRead, ImageLock, ImagePrepare, ImagePrepareFails,
       CopyStep, ReadOriginal, ReadOriginalFails, StoreCopy, StoreCopyFails,
       ImageUnlock, ImageWrite, ImageWriteFails
  <2>2. QED
    BY <2>1
<1>7. CASE \E r \in OrigRequests : PassThrough(r.write, r.blks)
  BY <1>2, <1>7 DEF PassThrough
<1>8. CASE \E bio \in entering : RedirectFails(bio)
  BY <1>2, <1>8 DEF RedirectFails
<1>9. CASE \/ \E r \in OrigRequests : Enter(r.write, r.blks)
           \/ \E r \in ImageRequests : ImageRequest(r.write, r.blks)
           \/ \E bio \in entering : Redirect(bio)
           \/ FetchCompletes \/ AddPortion \/ OtherDeviceTakes
           \/ StopImage \/ Release \/ StopDefer
           \/ UNCHANGED vars
  <2>1. orig' = orig
    BY <1>9 DEF Enter, ImageRequest, Redirect, FetchCompletes, AddPortion,
       OtherDeviceTakes, StopImage, Release, StopDefer, vars
  <2>2. QED
    BY <2>1
<1>10. QED
  <2>1. CASE UNCHANGED vars
    BY <1>9, <2>1
  <2>2. CASE Next
    BY <1>3, <1>4, <1>5, <1>6, <1>7, <1>8, <1>9, <2>2 DEF Next
  <2>3. QED
    BY <2>1, <2>2

(* Whatever batches, failures and bypasses come together, no write changes *)
(* the original below an image that still needs the old content.           *)
THEOREM CopiesAreMadeFirst == Spec => CopyBeforeWrite
<1>1. TypeOK /\ IInv /\ [Next]_vars =>
        [\A b \in Blocks :
           orig'[b] # orig[b] =>
             \/ corrupted \/ stop
             \/ copy[b] \in {"read", "done"}
             \/ ~Trusted(b)']_vars
  BY CopiesComeFirst
<1>2. QED
  BY <1>1, InvariantHolds, TypeCorrect, PTL DEF Spec, CopyBeforeWrite

-----------------------------------------------------------------------------
(* The order of the requests.                                              *)

(* The numbers of a sequence of requests, in the same order.               *)
LEMMA IdsType ==
  ASSUME NEW bios \in Seq(Bio)
  PROVE  /\ Ids(bios) \in Seq(1 .. MaxIo)
         /\ Len(Ids(bios)) = Len(bios)
         /\ \A i \in 1 .. Len(bios) : Ids(bios)[i] = bios[i].id
<1>1. \A i \in 1 .. Len(bios) : bios[i] \in Bio
  BY ElementOfSeq
<1>2. \A i \in 1 .. Len(bios) : bios[i].id \in 1 .. MaxIo
  BY <1>1 DEF Bio
<1>3. DOMAIN bios = 1 .. Len(bios) /\ Len(bios) \in Nat
  OBVIOUS
<1>4. Ids(bios) \in [1 .. Len(bios) -> 1 .. MaxIo]
  BY <1>2, <1>3 DEF Ids
<1>5. QED
  BY <1>3, <1>4 DEF Ids

(* The sequence of one number, before or behind others.                    *)
LEMMA OneId ==
  ASSUME NEW S, NEW id \in S, NEW seq \in Seq(S)
  PROVE  /\ seq \o <<id>> \in Seq(S)
         /\ Len(seq \o <<id>>) = Len(seq) + 1
         /\ \A i \in 1 .. Len(seq) : (seq \o <<id>>)[i] = seq[i]
         /\ (seq \o <<id>>)[Len(seq) + 1] = id
         /\ <<id>> \o seq \in Seq(S)
         /\ Len(<<id>> \o seq) = Len(seq) + 1
         /\ (<<id>> \o seq)[1] = id
         /\ \A i \in 1 .. Len(seq) : (<<id>> \o seq)[i + 1] = seq[i]
<1>1. <<id>> \in Seq(S) /\ Len(<<id>>) = 1 /\ <<id>>[1] = id
  OBVIOUS
<1>2. Len(seq) \in Nat
  OBVIOUS
<1>3. /\ seq \o <<id>> \in Seq(S)
      /\ Len(seq \o <<id>>) = Len(seq) + 1
      /\ \A i \in 1 .. Len(seq) + 1 :
           (seq \o <<id>>)[i] = IF i <= Len(seq) THEN seq[i] ELSE <<id>>[i - Len(seq)]
  BY <1>1, ConcatProperties
<1>4. /\ <<id>> \o seq \in Seq(S)
      /\ Len(<<id>> \o seq) = 1 + Len(seq)
      /\ \A i \in 1 .. 1 + Len(seq) :
           (<<id>> \o seq)[i] = IF i <= 1 THEN <<id>>[i] ELSE seq[i - 1]
  BY <1>1, ConcatProperties
<1>5. /\ \A i \in 1 .. Len(seq) : (seq \o <<id>>)[i] = seq[i]
      /\ (seq \o <<id>>)[Len(seq) + 1] = id
  <2>1. Len(seq) + 1 \in 1 .. Len(seq) + 1 /\ (Len(seq) + 1) - Len(seq) = 1
    BY <1>2
  <2>2. (seq \o <<id>>)[Len(seq) + 1] = <<id>>[1]
    BY <1>2, <1>3, <2>1
  <2>3. QED
    BY <1>1, <1>2, <1>3, <2>2
<1>6. /\ (<<id>> \o seq)[1] = id
      /\ \A i \in 1 .. Len(seq) : (<<id>> \o seq)[i + 1] = seq[i]
  <2>1. (<<id>> \o seq)[1] = <<id>>[1]
    BY <1>2, <1>4
  <2>2. ASSUME NEW i \in 1 .. Len(seq)
        PROVE  (<<id>> \o seq)[i + 1] = seq[i]
    <3>1. i + 1 \in 1 .. 1 + Len(seq) /\ ~(i + 1 <= 1) /\ (i + 1) - 1 = i
      BY <1>2
    <3>2. QED
      BY <1>4, <3>1
  <2>3. QED
    BY <1>1, <2>1, <2>2
<1>7. QED
  BY <1>2, <1>3, <1>4, <1>5, <1>6

(* A request that goes to the end of a sequence is the last of it ...      *)
LEMMA IdsAppend ==
  ASSUME NEW bios \in Seq(Bio), NEW bio \in Bio
  PROVE  Ids(Append(bios, bio)) = Ids(bios) \o <<bio.id>>
<1> DEFINE left == Ids(Append(bios, bio))
           right == Ids(bios) \o <<bio.id>>
<1>1. bio.id \in 1 .. MaxIo
  BY DEF Bio
<1>2. /\ Append(bios, bio) \in Seq(Bio) /\ Len(Append(bios, bio)) = Len(bios) + 1
      /\ Len(bios) \in Nat
      /\ \A i \in 1 .. Len(bios) : Append(bios, bio)[i] = bios[i]
      /\ Append(bios, bio)[Len(bios) + 1] = bio
  OBVIOUS
<1>3. /\ left \in Seq(1 .. MaxIo) /\ Len(left) = Len(bios) + 1
      /\ \A i \in 1 .. Len(bios) + 1 : left[i] = Append(bios, bio)[i].id
  BY <1>2, IdsType
<1>4. /\ right \in Seq(1 .. MaxIo) /\ Len(right) = Len(bios) + 1
      /\ \A i \in 1 .. Len(bios) : right[i] = bios[i].id
      /\ right[Len(bios) + 1] = bio.id
  <2>1. PICK numbers \in Seq(1 .. MaxIo), id \in 1 .. MaxIo :
          numbers = Ids(bios) /\ id = bio.id
    BY <1>1, IdsType
  <2>2. Len(numbers) = Len(bios) /\ \A i \in 1 .. Len(bios) : numbers[i] = bios[i].id
    BY <2>1, IdsType
  <2>3. right = numbers \o <<id>>
    BY <2>1
  <2> HIDE DEF right
  <2>4. /\ right \in Seq(1 .. MaxIo) /\ Len(right) = Len(numbers) + 1
        /\ \A i \in 1 .. Len(numbers) : right[i] = numbers[i]
        /\ right[Len(numbers) + 1] = id
    BY <2>3, OneId
  <2>5. QED
    BY <2>1, <2>2, <2>4
<1> HIDE DEF left, right
<1>5. \A i \in 1 .. Len(bios) + 1 : left[i] = right[i]
  <2> SUFFICES ASSUME NEW i \in 1 .. Len(bios) + 1 PROVE left[i] = right[i]
    OBVIOUS
  <2>1. CASE i = Len(bios) + 1
    BY <1>2, <1>3, <1>4, <2>1
  <2>2. CASE i # Len(bios) + 1
    <3>1. i \in 1 .. Len(bios)
      BY <1>2, <2>2
    <3>2. QED
      BY <1>2, <1>3, <1>4, <3>1
  <2>3. QED
    BY <2>1, <2>2
<1>6. left = right
  BY <1>3, <1>4, <1>5, SeqEqual
<1>7. QED
  BY <1>6 DEF left, right

(* ... and one that is taken from the front was the first.                 *)
LEMMA IdsHeadTail ==
  ASSUME NEW bios \in Seq(Bio), bios # <<>>
  PROVE  /\ Head(bios) \in Bio /\ Tail(bios) \in Seq(Bio)
         /\ Ids(bios) = <<Head(bios).id>> \o Ids(Tail(bios))
<1> DEFINE right == <<Head(bios).id>> \o Ids(Tail(bios))
<1>1. /\ Head(bios) \in Bio /\ Head(bios) = bios[1] /\ Tail(bios) \in Seq(Bio)
      /\ Len(bios) \in Nat \ {0} /\ Len(Tail(bios)) = Len(bios) - 1
      /\ \A i \in 1 .. Len(Tail(bios)) : Tail(bios)[i] = bios[i + 1]
  BY HeadTailProperties, EmptySeq
<1>2. Head(bios).id \in 1 .. MaxIo
  BY <1>1 DEF Bio
<1>3. /\ Ids(bios) \in Seq(1 .. MaxIo) /\ Len(Ids(bios)) = Len(bios)
      /\ \A i \in 1 .. Len(bios) : Ids(bios)[i] = bios[i].id
  BY IdsType
<1>4. /\ Ids(Tail(bios)) \in Seq(1 .. MaxIo) /\ Len(Ids(Tail(bios))) = Len(bios) - 1
      /\ \A i \in 1 .. Len(bios) - 1 : Ids(Tail(bios))[i] = bios[i + 1].id
  <2>1. PICK tail \in Seq(Bio) :
          /\ tail = Tail(bios) /\ Len(tail) = Len(bios) - 1
          /\ \A i \in 1 .. Len(tail) : tail[i] = bios[i + 1]
    BY <1>1
  <2>2. /\ Ids(tail) \in Seq(1 .. MaxIo) /\ Len(Ids(tail)) = Len(tail)
        /\ \A i \in 1 .. Len(tail) : Ids(tail)[i] = tail[i].id
    BY IdsType
  <2>3. QED
    BY <2>1, <2>2
<1>5. /\ right \in Seq(1 .. MaxIo) /\ Len(right) = Len(bios)
      /\ right[1] = bios[1].id
      /\ \A i \in 1 .. Len(bios) - 1 : right[i + 1] = Ids(Tail(bios))[i]
  <2>1. PICK tail \in Seq(1 .. MaxIo), id \in 1 .. MaxIo :
          tail = Ids(Tail(bios)) /\ id = Head(bios).id
    BY <1>2, <1>4
  <2>2. right = <<id>> \o tail /\ id = bios[1].id
    BY <1>1, <2>1
  <2>3. Len(tail) = Len(bios) - 1 /\ Len(tail) + 1 = Len(bios)
    <3>1. Len(tail) = Len(bios) - 1
      BY <1>4, <2>1
    <3>2. Len(bios) \in Nat
      OBVIOUS
    <3>3. QED
      BY <3>1, <3>2
  <2> HIDE DEF right
  <2>4. QED
    BY <2>1, <2>2, <2>3, OneId
<1> HIDE DEF right
<1>6. \A i \in 1 .. Len(bios) : Ids(bios)[i] = right[i]
  <2> SUFFICES ASSUME NEW i \in 1 .. Len(bios) PROVE Ids(bios)[i] = right[i]
    OBVIOUS
  <2>1. CASE i = 1
    BY <1>3, <1>5, <2>1
  <2>2. CASE i # 1
    <3>1. i - 1 \in 1 .. Len(bios) - 1 /\ (i - 1) + 1 = i
      BY <1>1, <2>2
    <3>2. right[i] = bios[i].id
      BY <1>4, <1>5, <3>1
    <3>3. QED
      BY <1>3, <3>2
  <2>3. QED
    BY <2>1, <2>2
<1>7. Ids(bios) = right
  BY <1>3, <1>5, <1>6, SeqEqual
<1>8. QED
  BY <1>1, <1>7 DEF right

(* No step takes a request out of the order in which the queue accepted    *)
(* it, and the batch is empty when the thread leaves its locked section.   *)
LEMMA OrderKept ==
  ASSUME TypeOK, NothingLost, BatchIsOver, [Next]_vars
  PROVE  NothingLost' /\ BatchIsOver'
<1> USE DEF originVars, storeVars, poolVars, queueVars, imageVars, history
<1> DEFINE Id == 1 .. MaxIo
<1>t. /\ queue \in Seq(Bio) /\ inProcess \in Seq(Bio)
      /\ received \in Seq(Id) /\ submitted \in Seq(Id)
      /\ pc \in [Actors -> {"idle", "prepare", "read", "store", "finish", "unlock",
                            "exit", "drain", "done", "fetch", "cow", "redirect"}]
      /\ Defer \in Actors
  BY DEF TypeOK, Actors
<1>i. Ids(queue) \in Seq(Id) /\ Ids(inProcess) \in Seq(Id)
  BY <1>t, IdsType
<1> HIDE DEF Id
<1>u. submitted \in Seq(Id)
  BY <1>t
<1>s. PICK rest \in Seq(Id) : rest = submitted \o Ids(inProcess)
  BY <1>t, <1>i, ConcatProperties
<1>0. received = submitted \o Ids(inProcess) \o Ids(queue)
  BY DEF NothingLost
<1>1. ASSUME UNCHANGED <<queue, inProcess, received, submitted>>,
             pc'[Defer] \in {"idle", "exit", "drain", "done"} =>
               inProcess = <<>> \/ pc[Defer] \in {"idle", "exit", "drain", "done"}
      PROVE  NothingLost' /\ BatchIsOver'
  BY <1>1 DEF NothingLost, BatchIsOver, Ids
<1>2. ASSUME NEW bio \in entering, Redirect(bio)
      PROVE  NothingLost' /\ BatchIsOver'
  <2>1. bio \in Bio /\ bio.id \in Id
    BY DEF TypeOK, Bio, Id
  <2>2. /\ queue' = Append(queue, bio) /\ received' = Append(received, bio.id)
        /\ UNCHANGED <<inProcess, submitted, pc>>
    BY <1>2 DEF Redirect
  <2>3. received' = received \o <<bio.id>>
    BY <1>t, <2>1, <2>2, AppendIsConcat
  <2>4. Ids(queue') = Ids(queue) \o <<bio.id>>
    BY <1>t, <2>1, <2>2, IdsAppend
  <2>5. received' = submitted \o Ids(inProcess) \o Ids(queue')
    <3>1. <<bio.id>> \in Seq(Id)
      BY <2>1
    <3>2. PICK one \in Seq(Id), waiting \in Seq(Id) :
            one = <<bio.id>> /\ waiting = Ids(queue)
      BY <1>i, <3>1
    <3>3. (rest \o waiting) \o one = rest \o (waiting \o one)
      BY ONLY rest \in Seq(Id), one \in Seq(Id), waiting \in Seq(Id), ConcatAssociative
    <3>4. QED
      BY <1>0, <1>s, <2>3, <2>4, <3>2, <3>3
  <2>6. QED
    BY <2>2, <2>5 DEF NothingLost, BatchIsOver, Ids
<1>3. CASE DeferPrepare \/ DeferPrepareFails
  <2>1. PICK bio : bio = Head(queue)
    OBVIOUS
  <2>2. /\ queue # <<>> /\ queue' = Tail(queue) /\ inProcess' = Append(inProcess, bio)
        /\ pc[Defer] = "prepare" /\ UNCHANGED <<received, submitted>>
        /\ pc' = pc \/ pc' = [pc EXCEPT ![Defer] = "finish"]
    BY <1>3, <2>1 DEF DeferPrepare, DeferPrepareFails, PopDio, RoomInBatch
  <2>3. /\ bio \in Bio /\ queue' \in Seq(Bio)
        /\ Ids(queue) = <<bio.id>> \o Ids(queue')
    BY <1>t, <2>1, <2>2, IdsHeadTail
  <2>4. bio.id \in Id /\ Ids(queue') \in Seq(Id)
    BY <2>3, IdsType DEF Bio, Id
  <2>5. Ids(inProcess') = Ids(inProcess) \o <<bio.id>>
    BY <1>t, <2>2, <2>3, IdsAppend
  <2>6. received' = submitted' \o Ids(inProcess') \o Ids(queue')
    <3>1. <<bio.id>> \in Seq(Id)
      BY <2>4
    <3>2. rest \o (<<bio.id>> \o Ids(queue')) = (rest \o <<bio.id>>) \o Ids(queue')
      <4>1. PICK one \in Seq(Id), waiting \in Seq(Id) :
              one = <<bio.id>> /\ waiting = Ids(queue')
        BY <2>4, <3>1
      <4>2. rest \o (one \o waiting) = (rest \o one) \o waiting
        BY ONLY rest \in Seq(Id), one \in Seq(Id), waiting \in Seq(Id), ConcatAssociative
      <4>3. QED
        BY <4>1, <4>2
    <3>3. rest \o <<bio.id>> = submitted \o (Ids(inProcess) \o <<bio.id>>)
      <4>1. PICK one \in Seq(Id), batch \in Seq(Id), old \in Seq(Id) :
              one = <<bio.id>> /\ batch = Ids(inProcess) /\ old = submitted
        BY <1>u, <1>i, <3>1
      <4>2. (old \o batch) \o one = old \o (batch \o one)
        BY ONLY old \in Seq(Id), batch \in Seq(Id), one \in Seq(Id), ConcatAssociative
      <4>3. QED
        BY <1>s, <4>1, <4>2
    <3>4. QED
      BY <1>0, <1>s, <2>2, <2>3, <2>5, <3>2, <3>3
  <2>7. pc'[Defer] \in {"prepare", "finish"}
    BY <1>t, <2>2
  <2>8. QED
    BY <2>6, <2>7 DEF NothingLost, BatchIsOver, Ids
<1>4. CASE DeferFinish
  <2>1. PICK bio : bio = Head(inProcess)
    OBVIOUS
  <2>2. /\ inProcess # <<>> /\ inProcess' = Tail(inProcess)
        /\ submitted' = Append(submitted, bio.id)
        /\ pc[Defer] = "finish" /\ UNCHANGED <<queue, received, pc>>
    BY <1>4, <2>1 DEF DeferFinish, SubmitDeferred
  <2>3. /\ bio \in Bio /\ inProcess' \in Seq(Bio)
        /\ Ids(inProcess) = <<bio.id>> \o Ids(inProcess')
    BY <1>t, <2>1, <2>2, IdsHeadTail
  <2>4. bio.id \in Id /\ Ids(inProcess') \in Seq(Id)
    BY <2>3, IdsType DEF Bio, Id
  <2>5. submitted' = submitted \o <<bio.id>>
    BY <1>t, <2>2, <2>4, AppendIsConcat
  <2>6. received' = submitted' \o Ids(inProcess') \o Ids(queue)
    <3>1. <<bio.id>> \in Seq(Id)
      BY <2>4
    <3>2. PICK one \in Seq(Id), batch \in Seq(Id), old \in Seq(Id) :
            one = <<bio.id>> /\ batch = Ids(inProcess') /\ old = submitted
      BY <1>u, <2>4, <3>1
    <3>3. old \o (one \o batch) = (old \o one) \o batch
      BY ONLY old \in Seq(Id), one \in Seq(Id), batch \in Seq(Id), ConcatAssociative
    <3>4. QED
      BY <1>0, <2>2, <2>3, <2>5, <3>2, <3>3
  <2>7. QED
    BY <2>2, <2>6 DEF NothingLost, BatchIsOver, Ids
<1>5. CASE DeferDrain
  <2>1. PICK bio : bio = Head(queue)
    OBVIOUS
  <2>2. /\ queue # <<>> /\ queue' = Tail(queue)
        /\ submitted' = Append(submitted, bio.id)
        /\ pc[Defer] = "drain" /\ UNCHANGED <<inProcess, received, pc>>
    BY <1>5, <2>1 DEF DeferDrain, SubmitDeferred
  <2>3. /\ bio \in Bio /\ queue' \in Seq(Bio)
        /\ Ids(queue) = <<bio.id>> \o Ids(queue')
    BY <1>t, <2>1, <2>2, IdsHeadTail
  <2>4. bio.id \in Id /\ Ids(queue') \in Seq(Id)
    BY <2>3, IdsType DEF Bio, Id
  <2>5. submitted' = submitted \o <<bio.id>> /\ submitted' \in Seq(Id)
    BY <1>t, <2>2, <2>4, AppendIsConcat
  <2>6. inProcess = <<>> /\ Ids(inProcess) = <<>>
    BY <2>2 DEF BatchIsOver, Ids
  <2>7. /\ submitted \o <<>> = submitted /\ submitted' \o <<>> = submitted'
    BY <1>t, <2>5, ConcatEmptySeq
  <2>8. submitted \o (<<bio.id>> \o Ids(queue')) = (submitted \o <<bio.id>>) \o Ids(queue')
    <3>1. <<bio.id>> \in Seq(Id)
      BY <2>4
    <3>2. PICK one \in Seq(Id), waiting \in Seq(Id), old \in Seq(Id) :
            one = <<bio.id>> /\ waiting = Ids(queue') /\ old = submitted
      BY <1>u, <2>4, <3>1
    <3>3. old \o (one \o waiting) = (old \o one) \o waiting
      BY ONLY old \in Seq(Id), one \in Seq(Id), waiting \in Seq(Id), ConcatAssociative
    <3>4. QED
      BY <3>2, <3>3
  <2>9. received' = submitted' \o Ids(inProcess') \o Ids(queue')
    BY <1>0, <2>2, <2>3, <2>5, <2>6, <2>7, <2>8
  <2>10. QED
    BY <2>2, <2>9, <2>6 DEF NothingLost, BatchIsOver, Ids
<1>6. CASE DeferLock \/ DeferPrepared \/ CopyStep(Defer) \/ DeferUnlock \/ DeferExit
           \/ DeferClose \/ DeferDone
  <2>1. UNCHANGED <<inProcess, queue, received, submitted>>
    BY <1>6 DEF DeferLock, DeferPrepared, CopyStep, ReadOriginal, ReadOriginalFails,
       StoreCopy, StoreCopyFails, DeferUnlock, DeferExit, DeferClose, DeferDone
  <2>2. \/ inProcess = <<>> \/ pc[Defer] \in {"idle", "exit", "drain", "done"}
        \/ pc'[Defer] \in {"prepare", "read", "store", "finish"}
    BY <1>6, <1>t DEF DeferLock, DeferPrepared, CopyStep, ReadOriginal, ReadOriginalFails,
       StoreCopy, StoreCopyFails, AfterCopy, DeferUnlock, DeferExit, DeferClose, DeferDone
  <2>3. QED
    BY <1>1, <2>1, <2>2
<1>7. CASE ImageStep
  <2>1. UNCHANGED <<inProcess, queue, received, submitted>>
    BY <1>7 DEF ImageStep, ImageRead, ImageLock, ImagePrepare, ImagePrepareFails,
       CopyStep, ReadOriginal, ReadOriginalFails, StoreCopy, StoreCopyFails,
       ImageUnlock, ImageWrite, ImageWriteFails
  <2>2. pc'[Defer] = pc[Defer]
    BY <1>7, <1>t DEF ImageStep, ImageRead, ImageLock, ImagePrepare, ImagePrepareFails,
       CopyStep, ReadOriginal, ReadOriginalFails, StoreCopy, StoreCopyFails,
       ImageUnlock, ImageWrite, ImageWriteFails, ImageDone, Defer, Image, Actors
  <2>3. QED
    BY <1>1, <2>1, <2>2
<1>8. CASE \/ \E r \in OrigRequests : Enter(r.write, r.blks) \/ PassThrough(r.write, r.blks)
           \/ \E r \in ImageRequests : ImageRequest(r.write, r.blks)
           \/ \E bio \in entering : RedirectFails(bio)
           \/ FetchCompletes \/ AddPortion \/ OtherDeviceTakes
           \/ StopImage \/ Release \/ StopDefer
           \/ UNCHANGED vars
  <2>1. UNCHANGED <<inProcess, queue, received, submitted>>
    BY <1>8 DEF Enter, PassThrough, ImageRequest, RedirectFails, FetchCompletes,
       AddPortion, OtherDeviceTakes, StopImage, Release, StopDefer, vars
  <2>2. pc'[Defer] = pc[Defer]
    BY <1>8, <1>t DEF Enter, PassThrough, ImageRequest, RedirectFails, FetchCompletes,
       AddPortion, OtherDeviceTakes, StopImage, Release, StopDefer, vars, Defer, Image
  <2>3. QED
    BY <1>1, <2>1, <2>2
<1>9. CASE UNCHANGED vars
  BY <1>8, <1>9
<1>10. CASE DeferStep
  BY <1>3, <1>4, <1>5, <1>6, <1>10 DEF DeferStep
<1>11. QED
  <2>1. CASE Next
    BY <1>2, <1>7, <1>8, <1>10, <2>1 DEF Next
  <2>2. QED
    BY <1>9, <2>1

(* A request that the defer IO queue accepted is submitted once, in its    *)
(* turn, or still waits in its turn, whatever fails or stops meanwhile.    *)
THEOREM RequestsKeepTheirOrder == Spec => []NothingLost
<1>1. Init => NothingLost /\ BatchIsOver
  <2> SUFFICES ASSUME Init PROVE NothingLost /\ BatchIsOver
    OBVIOUS
  <2>1. Ids(<<>>) = <<>> /\ <<>> \o <<>> = <<>>
    BY DEF Ids
  <2>2. QED
    BY <2>1 DEF Init, NothingLost, BatchIsOver
<1>2. TypeOK /\ (NothingLost /\ BatchIsOver) /\ [Next]_vars
        => (NothingLost /\ BatchIsOver)'
  BY OrderKept
<1>3. QED
  BY <1>1, <1>2, TypeCorrect, PTL DEF Spec

-----------------------------------------------------------------------------
(* The refinement of PointInTimeImage.                                     *)

(* Every step but a write of the image only gives blocks up.               *)
LEMMA OnlyGivesUp ==
  ASSUME TypeOK, [Next]_vars, ~ImageWrite
  PROVE  /\ snap' = snap
         /\ imaging' => imaging
         /\ corrupted => corrupted'
         /\ \A b \in Blocks : Trusted(b)' => Trusted(b)
<1> USE DEF originVars, storeVars, poolVars, queueVars, imageVars, history
<1>1. ASSUME NEW blks \in SUBSET Blocks, bypassed' = bypassed,
             PrepareRequests(blks) \/ PrepareRequestsFail(blks)
      PROVE  /\ corrupted => corrupted'
             /\ \A b \in Blocks : Trusted(b)' => Trusted(b)
  <2>1. \A b \in Blocks : copy[b] = "junk" => copy'[b] = "junk"
    BY <1>1, PrepareCopy DEF Stored
  <2>2. QED
    BY <1>1, <2>1, PrepareCopy DEF Trusted
<1>2. CASE DeferStep
  <2>1. CASE DeferPrepare \/ DeferPrepareFails
    <3>0. PICK bio : bio = Head(queue)
      OBVIOUS
    <3>1. bio.blks \in SUBSET Blocks
      <4>1. queue # <<>> /\ queue \in Seq(Bio)
        BY <2>1 DEF DeferPrepare, DeferPrepareFails, PopDio, RoomInBatch, TypeOK
      <4>2. bio \in Bio
        BY <3>0, <4>1
      <4>3. QED
        BY <4>2, RangesAreBlocks DEF Bio
    <3>2. UNCHANGED <<snap, imaging, bypassed>>
      BY <2>1 DEF DeferPrepare, DeferPrepareFails
    <3>3. CASE PrepareRequests(bio.blks) \/ PrepareRequestsFail(bio.blks)
      BY <1>1, <3>1, <3>2, <3>3
    <3>4. CASE UNCHANGED <<copy, corrupted>>
      BY <3>2, <3>4 DEF Trusted
    <3>5. QED
      BY <2>1, <3>0, <3>3, <3>4 DEF DeferPrepare, DeferPrepareFails
  <2>2. CASE CopyStep(Defer)
    BY <2>2 DEF CopyStep, ReadOriginal, ReadOriginalFails, StoreCopy, StoreCopyFails,
       Advance, Trusted, TypeOK
  <2>3. CASE DeferFinish \/ DeferDrain
    BY <2>3 DEF DeferFinish, DeferDrain, SubmitDeferred, Trusted
  <2>4. QED
    BY <1>2, <2>1, <2>2, <2>3 DEF DeferStep, DeferLock, DeferPrepared, DeferUnlock,
       DeferExit, DeferClose, DeferDone, Trusted
<1>3. CASE ImageStep
  <2>1. CASE ImagePrepare \/ ImagePrepareFails
    <3>1. ireq.blks \in SUBSET Blocks
      BY DEF TypeOK
    <3>2. UNCHANGED <<snap, imaging, bypassed>>
      BY <2>1 DEF ImagePrepare, ImagePrepareFails
    <3>3. PICK blks \in SUBSET Blocks : PrepareRequests(blks) \/ PrepareRequestsFail(blks)
      BY <2>1, <3>1 DEF ImagePrepare, ImagePrepareFails
    <3>4. QED
      BY <1>1, <3>2, <3>3
  <2>2. CASE CopyStep(Image)
    BY <2>2 DEF CopyStep, ReadOriginal, ReadOriginalFails, StoreCopy, StoreCopyFails,
       Advance, Trusted, TypeOK
  <2>3. QED
    BY <1>3, <2>1, <2>2 DEF ImageStep, ImageRead, ImageLock, ImageUnlock, ImageWriteFails,
       Trusted
<1>4. CASE ~DeferStep /\ ~ImageStep
  <2>1. ASSUME NEW r, Enter(r.write, r.blks) \/ PassThrough(r.write, r.blks)
                      \/ ImageRequest(r.write, r.blks)
        PROVE  /\ UNCHANGED <<snap, imaging, corrupted, copy>>
               /\ bypassed \subseteq bypassed'
    BY <2>1 DEF Enter, PassThrough, LowLevel, ImageRequest
  <2>2. ASSUME NEW bio, Redirect(bio) \/ RedirectFails(bio)
        PROVE  /\ UNCHANGED <<snap, imaging, corrupted, copy>>
               /\ bypassed \subseteq bypassed'
    BY <2>2 DEF Redirect, RedirectFails, LowLevel
  <2>3. ASSUME FetchCompletes \/ AddPortion \/ OtherDeviceTakes \/ StopImage
               \/ Release \/ StopDefer \/ UNCHANGED vars
        PROVE  /\ UNCHANGED <<snap, corrupted, copy>>
               /\ imaging' => imaging
               /\ bypassed \subseteq bypassed'
    BY <2>3 DEF FetchCompletes, AddPortion, OtherDeviceTakes, StopImage, Release, StopDefer, vars
  <2>4. QED
    BY <1>4, <2>1, <2>2, <2>3 DEF Next, Trusted
<1>5. QED
  BY <1>2, <1>3, <1>4

(* The thread of the image keeps to the way of its request.                *)
LEMMA PendingKept ==
  ASSUME TypeOK, PendingInv, [Next]_vars
  PROVE  PendingInv'
<1> USE DEF originVars, storeVars, poolVars, queueVars, imageVars, history
<1>p. pc \in [Actors -> {"idle", "prepare", "read", "store", "finish", "unlock",
                        "exit", "drain", "done", "fetch", "cow", "redirect"}]
      /\ Image \in Actors /\ Defer \in Actors /\ Image # Defer
  BY DEF TypeOK, Actors, Image, Defer
<1>1. CASE DeferStep
  <2>1. UNCHANGED ireq
    BY <1>1 DEF DeferStep, DeferLock, DeferPrepare, DeferPrepareFails, DeferPrepared,
       CopyStep, ReadOriginal, ReadOriginalFails, StoreCopy, StoreCopyFails,
       DeferFinish, SubmitDeferred, DeferUnlock, DeferExit, DeferClose, DeferDrain, DeferDone
  <2>2. pc'[Image] = pc[Image]
    BY <1>1, <1>p DEF DeferStep, DeferLock, DeferPrepare, DeferPrepareFails, DeferPrepared,
       CopyStep, ReadOriginal, ReadOriginalFails, StoreCopy, StoreCopyFails,
       DeferFinish, SubmitDeferred, DeferUnlock, DeferExit, DeferClose, DeferDrain, DeferDone
  <2>3. QED
    BY <2>1, <2>2 DEF PendingInv
<1>2. CASE ImageStep
  <2>1. CASE ImageRead \/ ImageWrite \/ ImageWriteFails
    BY <2>1, <1>p DEF ImageRead, ImageWrite, ImageWriteFails, ImageDone, PendingInv
  <2>2. CASE ImageLock \/ ImagePrepare \/ ImagePrepareFails \/ ImageUnlock
    <3>1. /\ UNCHANGED ireq
          /\ pc[Image] \in {"cow", "prepare", "unlock"}
          /\ pc'[Image] \in {"prepare", "unlock", "read", "redirect"}
      BY <2>2, <1>p DEF ImageLock, ImagePrepare, ImagePrepareFails, ImageUnlock
    <3>2. QED
      BY <3>1 DEF PendingInv
  <2>3. CASE CopyStep(Image)
    <3>1. /\ UNCHANGED ireq
          /\ pc[Image] \in {"read", "store"}
          /\ pc'[Image] \in {"store", "unlock"}
      BY <2>3, <1>p DEF CopyStep, ReadOriginal, ReadOriginalFails, StoreCopy,
         StoreCopyFails, AfterCopy
    <3>2. QED
      BY <3>1 DEF PendingInv
  <2>4. QED
    BY <1>2, <2>1, <2>2, <2>3 DEF ImageStep
<1>3. CASE \E r \in ImageRequests : ImageRequest(r.write, r.blks)
  <2>1. PICK r \in ImageRequests : ImageRequest(r.write, r.blks)
    BY <1>3
  <2>2. r.write \in BOOLEAN /\ nextIo \in 1 .. MaxIo + 1 /\ nextIo # 0
    BY CowAssumption DEF Request, TypeOK
  <2>3. /\ ireq' = [id |-> nextIo, write |-> r.write, blks |-> r.blks]
        /\ pc'[Image] = IF r.write THEN "cow" ELSE "fetch"
    BY <2>1, <1>p DEF ImageRequest
  <2>4. ireq'.id = nextIo /\ ireq'.write = r.write
    BY <2>3
  <2>5. ireq' # NoRequest
    BY <2>2, <2>4 DEF NoRequest
  <2>6. QED
    BY <2>2, <2>3, <2>4, <2>5 DEF PendingInv
<1>4. CASE UNCHANGED <<ireq, pc>>
  BY <1>4 DEF PendingInv
<1>5. QED
  <2>1. ASSUME NEW r, Enter(r.write, r.blks) \/ PassThrough(r.write, r.blks)
        PROVE  UNCHANGED <<ireq, pc>>
    BY <2>1 DEF Enter, PassThrough
  <2>2. ASSUME NEW bio, Redirect(bio) \/ RedirectFails(bio)
        PROVE  UNCHANGED <<ireq, pc>>
    BY <2>2 DEF Redirect, RedirectFails
  <2>3. ASSUME FetchCompletes \/ AddPortion \/ OtherDeviceTakes \/ StopImage
               \/ Release \/ StopDefer \/ UNCHANGED vars
        PROVE  UNCHANGED <<ireq, pc>>
    BY <2>3 DEF FetchCompletes, AddPortion, OtherDeviceTakes, StopImage, Release, StopDefer,
       vars
  <2>4. QED
    BY <1>1, <1>2, <1>3, <1>4, <2>1, <2>2, <2>3 DEF Next

(* A request comes and goes with the steps of the image thread that begin  *)
(* and end it; no other step touches it.                                   *)
LEMMA RequestIsTheUsers ==
  ASSUME [Next]_vars,
         ~ImageRead, ~ImageWrite, ~ImageWriteFails,
         ~\E r \in ImageRequests : ImageRequest(r.write, r.blks)
  PROVE  UNCHANGED ireq
<1> USE DEF originVars, storeVars, poolVars, queueVars, imageVars, history
<1>1. CASE DeferStep
  BY <1>1 DEF DeferStep, DeferLock, DeferPrepare, DeferPrepareFails, DeferPrepared,
     CopyStep, ReadOriginal, ReadOriginalFails, StoreCopy, StoreCopyFails,
     DeferFinish, SubmitDeferred, DeferUnlock, DeferExit, DeferClose, DeferDrain, DeferDone
<1>2. CASE ImageStep
  BY <1>2 DEF ImageStep, ImageLock, ImagePrepare, ImagePrepareFails, CopyStep,
     ReadOriginal, ReadOriginalFails, StoreCopy, StoreCopyFails, ImageUnlock
<1>3. ASSUME NEW r, Enter(r.write, r.blks) \/ PassThrough(r.write, r.blks)
      PROVE  UNCHANGED ireq
  BY <1>3 DEF Enter, PassThrough
<1>4. ASSUME NEW bio, Redirect(bio) \/ RedirectFails(bio)
      PROVE  UNCHANGED ireq
  BY <1>4 DEF Redirect, RedirectFails
<1>5. ASSUME FetchCompletes \/ AddPortion \/ OtherDeviceTakes \/ StopImage
             \/ Release \/ StopDefer \/ UNCHANGED vars
      PROVE  UNCHANGED ireq
  BY <1>5 DEF FetchCompletes, AddPortion, OtherDeviceTakes, StopImage, Release, StopDefer,
     vars
<1>6. QED
  BY <1>1, <1>2, <1>3, <1>4, <1>5 DEF Next

(* A step maps to the beginning or the end of a request, or to blocks      *)
(* given up.                                                               *)
LEMMA ImageStepSimulated ==
  ASSUME TypeOK, IInv, IInv', PendingInv, [Next]_vars
  PROVE  [Abstract!Next]_<<AbstractImage, ireq>>
<1> DEFINE Gone(b) == ~(imaging /\ ~corrupted /\ Trusted(b))
<1>1. /\ AbstractImage = [b \in Blocks |-> IF Gone(b) THEN NoData ELSE snap[b]]
      /\ AbstractImage' = [b \in Blocks |-> IF Gone(b)' THEN NoData ELSE snap'[b]]
  BY DEF IInv, PointInTime, AbstractImage
<1>2. CASE ImageWrite
  <2>1. /\ ireq.blks \in SUBSET Blocks /\ ireq.id \in Values
        /\ \A b \in Blocks : snap[b] # NoData
    BY CowAssumption DEF TypeOK, Values, NoData
  <2>2. /\ snap' = [b \in Blocks |-> IF b \in ireq.blks THEN ireq.id ELSE snap[b]]
        /\ UNCHANGED <<imaging, corrupted, copy, bypassed>>
        /\ pc[Image] = "redirect"
        /\ ireq' = NoRequest
    BY <1>2 DEF ImageWrite, ImageDone, imageVars, history
  <2>3. Abstract!Write
    BY <1>1, <2>1, <2>2 DEF Abstract!Write, Abstract!Answered, Trusted, PendingInv
  <2>4. QED
    BY <2>3 DEF Abstract!Next
<1>3. ASSUME ~ImageWrite
      PROVE  AbstractImage' =
               [b \in Blocks |-> IF Gone(b)' THEN NoData ELSE AbstractImage[b]]
  BY <1>1, <1>3, OnlyGivesUp
<1>4. CASE ImageRead
  <2>1. /\ pc[Image] = "fetch"
        /\ ireq' = NoRequest
        /\ UNCHANGED <<imaging, corrupted, copy, bypassed, snap>>
    BY <1>4 DEF ImageRead, Fetching, ImageDone, storeVars, history
  <2>2. UNCHANGED AbstractImage
    BY <1>1, <2>1 DEF Trusted
  <2>3. Abstract!Read
    BY <2>1, <2>2 DEF Abstract!Read, Abstract!Answered, PendingInv
  <2>4. QED
    BY <2>3 DEF Abstract!Next
<1>5. CASE ImageWriteFails
  <2>1. /\ pc[Image] = "redirect"
        /\ ireq' = NoRequest
        /\ corrupted'
    BY <1>5 DEF ImageWriteFails, ImageDone
  <2>2. AbstractImage' = [b \in Blocks |-> NoData]
    BY <1>1, <2>1
  <2>3. Abstract!WriteFails
    BY <2>1, <2>2 DEF Abstract!WriteFails, Abstract!Answered, PendingInv
  <2>4. QED
    BY <2>3 DEF Abstract!Next
<1>6. CASE \E r \in ImageRequests : ImageRequest(r.write, r.blks)
  <2>1. PICK r \in ImageRequests : ImageRequest(r.write, r.blks)
    BY <1>6
  <2>2. /\ pc[Image] = "idle"
        /\ nextIo <= MaxIo
        /\ ireq' = [id |-> nextIo, write |-> r.write, blks |-> r.blks]
        /\ UNCHANGED <<imaging, corrupted, copy, bypassed, snap>>
    BY <2>1 DEF ImageRequest, storeVars, history
  <2>3. ireq' \in Abstract!Request
    <3>1. nextIo \in Values
      BY <2>2, CowAssumption DEF TypeOK, Values
    <3>2. r.write \in BOOLEAN /\ r.blks \in SUBSET Blocks
      BY CowAssumption, RangesAreBlocks DEF Request
    <3>3. QED
      BY <2>2, <3>1, <3>2 DEF Abstract!Request
  <2>4. UNCHANGED AbstractImage
    BY <1>1, <2>2 DEF Trusted
  <2>5. Abstract!Ask(ireq')
    BY <2>2, <2>4 DEF Abstract!Ask, PendingInv
  <2>6. QED
    BY <2>3, <2>5 DEF Abstract!Next
<1>7. CASE ~ImageRead /\ ~ImageWrite /\ ~ImageWriteFails
           /\ ~\E r \in ImageRequests : ImageRequest(r.write, r.blks)
  <2> DEFINE gone == {b \in Blocks : Gone(b)'}
  <2>1. UNCHANGED ireq
    BY <1>7, RequestIsTheUsers
  <2>2. Abstract!GiveUp(gone)
    BY <1>3, <1>7, <2>1 DEF Abstract!GiveUp
  <2>3. QED
    BY <2>2 DEF Abstract!Next
<1>8. QED
  BY <1>2, <1>4, <1>5, <1>6, <1>7

(* The copy-on-write machinery implements the point-in-time image: a block *)
(* that is not given up changes only when the pending write of the image   *)
(* is carried out, and only to what that write asked for.                  *)
THEOREM Refinement == Spec => ImplementsImage
<1>1. Init => Abstract!Init /\ PendingInv
  BY DEF Init, Abstract!Init, AbstractImage, View, Trusted, PendingInv, Actors, Image
<1>2. TypeOK /\ PendingInv /\ [Next]_vars => PendingInv'
  BY PendingKept
<1>3. QED
  BY <1>1, <1>2, ImageStepSimulated, InvariantHolds, TypeCorrect, PTL
     DEF Spec, ImplementsImage, Abstract!Spec

=============================================================================
