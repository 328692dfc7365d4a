----------------------- MODULE SnapshotLifecycleProofs -----------------------
(***************************************************************************)
(* Theorems about SnapshotLifecycle, for every set of devices and of       *)
(* overlapping pairs, every list of devices, and any number of snapshots,  *)
(* snapstores, defer IO objects, images and callers, whatever can fail.    *)
(***************************************************************************)
EXTENDS SnapshotLifecycle, FiniteSetTheorems, FunctionTheorems, SequenceTheorems, WellFoundedInduction, TLAPS

ImageSet ==
  [dev : Devices \cup {NoDevice}, defer : Defers \cup {None}, running : BOOLEAN]

CallSet ==
  [at : CallStates, snapshot : Snapshots \cup {None}, todo : Seq(Devices),
   all : BOOLEAN, ok : BOOLEAN]

RefSet ==
  [store : [Stores -> Nat], device : [StoreDevices -> Nat], defer : [Defers -> Nat]]

Statuses == {"none", "creating", "created", "destroying", "partly", "lost"}

ControlTypes ==
  /\ listed \in Seq(Snapshots)
  /\ members \in [Snapshots -> Seq(Devices)]
  /\ status \in [Snapshots -> Statuses]
  /\ call \in [Processes -> CallSet]
  /\ faults \in FaultSets

TrackerTypes ==
  /\ tracked \subseteq Devices
  /\ snapshotId \in [Devices -> Snapshots \cup {None}]
  /\ deferIo \in [Devices -> Defers \cup {None}]
  /\ faulty \subseteq tracked

HeapTypes ==
  /\ uses \in [Defers -> StoreDevices \cup {<<>>}]
  /\ running \subseteq Defers
  /\ storeList \in Seq(StoreDevices)
  /\ refs \in RefSet

Types == ControlTypes /\ TrackerTypes /\ HeapTypes /\ images \in Seq(ImageSet)

Members(s) == ToSet(members[s])
Todo(p)    == ToSet(call[p].todo)
Done(p)    == Members(Snap(p)) \ Todo(p)

-----------------------------------------------------------------------------
(* A call under way has a snapshot of its own, which is in the making or   *)
(* being destroyed, and goes through its devices.                          *)
Building == {"add", "capture", "check", "image"}

ListOK(todo, s) ==
  /\ todo \in Seq(Devices) /\ todo # <<>> /\ IsInjective(todo)
  /\ ToSet(todo) \subseteq Members(s)
  /\ Len(todo) <= Len(members[s])

CallOK(c) ==
  /\ c.snapshot \in Snapshots
  /\ status[c.snapshot] = IF c.at \in Building \/ ~c.ok THEN "creating" ELSE "destroying"
  /\ c.at \in Building \cup {"stop", "destroy"} => c.ok
  /\ c.at = "unmake" => ~c.ok /\ "image" \in faults
  /\ ListOK(c.todo, c.snapshot)

CallsInv ==
  /\ \A p \in Processes : ~Idle(p) => CallOK(call[p])
  /\ \A p, q \in Processes : ~Idle(p) /\ ~Idle(q) /\ Snap(p) = Snap(q) => p = q

(* The snapshots that exist share no device and no sectors.                *)
SnapshotsInv ==
  /\ \A s \in Snapshots : status[s] = "none" <=> members[s] = <<>>
  /\ \A s \in Snapshots : status[s] \in {"creating", "destroying"} =>
       \E p \in Processes : ~Idle(p) /\ Snap(p) = s
  /\ \A s \in Snapshots : IsInjective(members[s])
  /\ \A s, t \in Snapshots : s # t =>
       \A d \in Members(s), e \in Members(t) : d # e /\ ~Overlap(d, e)

ListedInv ==
  /\ IsInjective(listed)
  /\ \A i \in DOMAIN listed : status[listed[i]] \notin {"none", "destroying"}

ControlInv == CallsInv /\ SnapshotsInv /\ ListedInv

-----------------------------------------------------------------------------
(* A tracker has the number of a snapshot that has its device, and what    *)
(* each call has got done for the devices behind it.                       *)
Captured(d, s) == d \in tracked /\ snapshotId[d] = s /\ deferIo[d] # None

Numbered(d, s) == d \in tracked => snapshotId[d] = s

TrackedInv ==
  /\ \A d \in Devices : snapshotId[d] # None => d \in tracked /\ d \in Members(snapshotId[d])
  /\ \A d \in Devices : deferIo[d] # None => d \in tracked /\ deferIo[d] \in running
  /\ \A d, e \in Devices : deferIo[d] = deferIo[e] /\ deferIo[d] # None => d = e

CreatedInv ==
  \A s \in Snapshots : status[s] = "created" => \A d \in Members(s) : Captured(d, s)

CallCaptured(p) ==
  /\ call[p].at = "add" => \A d \in Done(p) : Numbered(d, Snap(p))
  /\ call[p].at = "capture" =>
       /\ \A d \in Members(Snap(p)) : Numbered(d, Snap(p))
       /\ \A d \in Done(p) : Captured(d, Snap(p))
  /\ call[p].at \in {"check", "image"} => \A d \in Members(Snap(p)) : Captured(d, Snap(p))
  /\ call[p].at = "cleanup" => \A d \in Done(p) : snapshotId[d] = None

CapturedInv == CreatedInv /\ \A p \in Processes : CallCaptured(p)

(* If the release cannot fail, only devices of snapshots are captured.     *)
Free(d) == deferIo[d] = None

InSome(d) == \E s \in Snapshots : d \in Members(s)

CallReleased(p) ==
  /\ call[p].at \in {"add", "destroy", "cleanup"} => \A d \in Members(Snap(p)) : Free(d)
  /\ call[p].at = "release" => \A d \in Done(p) : Free(d)

FreeInv ==
  /\ \A d \in Devices : ~Free(d) => InSome(d)
  /\ \A x \in running : \E d \in Devices : deferIo[d] = x

ReleasedInv == "release" \notin faults =>
  /\ FreeInv
  /\ \A s \in Snapshots : status[s] \notin {"partly", "lost"}
  /\ \A p \in Processes : CallReleased(p)

TrackersInv == TrackedInv /\ CapturedInv /\ ReleasedInv /\ TrackersAreDisjoint

-----------------------------------------------------------------------------
(* If nothing fails that leaves an image behind, a device has one image at *)
(* most, which goes before its snapshot; if none fails it has one, of its  *)
(* tracker's defer IO object, from its turn in the making to the release.  *)
NoImage(d) == \A i \in DOMAIN images : images[i].dev # d

Shown(d, x) == \E i \in DOMAIN images : images[i].dev = d /\ images[i].defer = x

HasImage(d) == Shown(d, deferIo[d])

NoneLeft    == faults \cap {"image", "minor", "release"} = {}
NoneLacking == faults \cap {"image", "disk", "minor", "release"} = {}

ImageCall(p) ==
  /\ \/ call[p].at \in {"add", "capture", "check", "cleanup"}
     \/ call[p].at = "release" /\ ~call[p].ok
     => \A d \in Members(Snap(p)) : NoImage(d)
  /\ call[p].at = "image" => \A d \in Todo(p) : NoImage(d)
  /\ call[p].at = "destroy" => \A d \in Done(p) : NoImage(d)

MadeCall(p) == call[p].at = "image" => \A d \in Done(p) : HasImage(d)

ImageListInv ==
  /\ \A i \in DOMAIN images : images[i].dev = NoDevice <=> images[i].defer = None
  /\ NoneLeft =>
       /\ \A i \in DOMAIN images : images[i].dev \in Devices /\ InSome(images[i].dev)
       /\ \A i, j \in DOMAIN images : images[i].dev = images[j].dev => i = j

ImageCallsInv ==
  /\ NoneLeft => \A p \in Processes : ImageCall(p)
  /\ NoneLacking =>
       /\ \A s \in Snapshots : status[s] = "created" => \A d \in Members(s) : HasImage(d)
       /\ \A p \in Processes : MadeCall(p)

ImagesInv == ImageListInv /\ ImageCallsInv

-----------------------------------------------------------------------------
(* The counts, of references refs, the list and what defer IO objects use. *)
DeferOwners(x) ==
  Cardinality({d \in Devices : deferIo[d] = x})
    + Cardinality({i \in DOMAIN images : images[i].defer = x})

DefersInv ==
  /\ \A x \in Defers : refs.defer[x] >= DeferOwners(x)
  /\ "release" \notin faults => \A x \in Defers : refs.defer[x] = DeferOwners(x)

UsesOK(r, u) == \A x \in Defers : r.defer[x] > 0 => u[x] \in StoreDevices

DevicesOK(r, list, u) ==
  \A sd \in StoreDevices :
    r.device[sd] = Cardinality({i \in DOMAIN list : list[i] = sd})
               + Cardinality({x \in Defers : r.defer[x] > 0 /\ u[x] = sd})

StoresOK(r) ==
  \A s \in Stores :
    r.store[s] = Cardinality({sd \in StoreDevices : sd[1] = s /\ r.device[sd] > 0})

CountsOK(r, list, u) == UsesOK(r, u) /\ DevicesOK(r, list, u) /\ StoresOK(r)

CountsInv == DefersInv /\ CountsOK(refs, storeList, uses)

IInv == Types /\ ControlInv /\ TrackersInv /\ ImagesInv /\ CountsInv

-----------------------------------------------------------------------------
(* Sequences.                                                              *)

LEMMA FirstIn ==
  ASSUME NEW n \in Nat, NEW I \in SUBSET (1 .. n), I # {}
  PROVE  Min(I) \in I
<1> DEFINE R == {pair \in Nat \X Nat : pair[1] < pair[2]}
<1>1. IsWellFoundedOn(R, Nat)
  BY NatLessThanWellFounded DEF OpToRel
<1>2. I \subseteq Nat
  OBVIOUS
<1> HIDE DEF R
<1>3. PICK i \in I : \A j \in I : ~(<<j, i>> \in R)
  BY <1>1, <1>2, WFMin
<1>4. ASSUME NEW j \in I PROVE i <= j
  <2>1. i \in Nat /\ j \in Nat
    BY <1>2
  <2>2. j < i => <<j, i>> \in R
    BY <2>1 DEF R
  <2>3. QED
    BY <1>3, <2>1, <2>2
<1>5. QED
  BY <1>4 DEF Min

(* The lookups find an entry of the device, or there is none.              *)
LEMMA StoreDeviceFound ==
  ASSUME storeList \in Seq(StoreDevices), NEW d
  PROVE  StoreDeviceOf(d) # 0 =>
           StoreDeviceOf(d) \in DOMAIN storeList /\ storeList[StoreDeviceOf(d)] \in StoreDevices
<1> DEFINE I == {i \in 1 .. Len(storeList) : storeList[i][2] = d}
<1>1. Len(storeList) \in Nat /\ DOMAIN storeList = 1 .. Len(storeList)
  BY LenProperties
<1>2. I # {} => Min(I) \in I
  BY <1>1, FirstIn
<1>3. StoreDeviceOf(d) = IF I # {} THEN Min(I) ELSE 0
  BY DEF StoreDeviceOf, SelectInSeq
<1> HIDE DEF I
<1>4. I \subseteq DOMAIN storeList
  BY <1>1 DEF I
<1>5. QED
  BY <1>2, <1>3, <1>4, ElementOfSeq, LenProperties

LEMMA StoreDeviceInFound ==
  ASSUME storeList \in Seq(StoreDevices), NEW s
  PROVE  StoreDeviceIn(s) # 0 =>
           StoreDeviceIn(s) \in DOMAIN storeList /\ storeList[StoreDeviceIn(s)] \in StoreDevices
<1> DEFINE I == {i \in 1 .. Len(storeList) : storeList[i][1] = s}
<1>1. Len(storeList) \in Nat /\ DOMAIN storeList = 1 .. Len(storeList)
  BY LenProperties
<1>2. I # {} => Min(I) \in I
  BY <1>1, FirstIn
<1>3. StoreDeviceIn(s) = IF I # {} THEN Min(I) ELSE 0
  BY DEF StoreDeviceIn, SelectInSeq
<1> HIDE DEF I
<1>4. I \subseteq DOMAIN storeList
  BY <1>1 DEF I
<1>5. QED
  BY <1>2, <1>3, <1>4, ElementOfSeq, LenProperties

LEMMA ImageFound ==
  ASSUME images \in Seq(ImageSet), NEW d
  PROVE  /\ ImageOf(d) = 0 => NoImage(d)
         /\ ImageOf(d) # 0 => ImageOf(d) \in DOMAIN images /\ images[ImageOf(d)].dev = d
<1> DEFINE I == {i \in 1 .. Len(images) : images[i].dev = d}
<1>1. Len(images) \in Nat /\ DOMAIN images = 1 .. Len(images)
  BY LenProperties
<1>2. I # {} => Min(I) \in I
  BY <1>1, FirstIn
<1>3. ImageOf(d) = IF I # {} THEN Min(I) ELSE 0
  BY DEF ImageOf, SelectInSeq
<1>4. \A i \in I : i \in DOMAIN images /\ images[i].dev = d /\ i # 0
  BY <1>1
<1>5. I = {} => NoImage(d)
  BY <1>1 DEF NoImage
<1> HIDE DEF I
<1>6. QED
  BY <1>2, <1>3, <1>4, <1>5

(* What RemoveAt leaves of a sequence.                                     *)
LEMMA RemoveAtProperties ==
  ASSUME NEW S, NEW s \in Seq(S), NEW k \in 1 .. Len(s)
  PROVE  /\ RemoveAt(s, k) \in Seq(S)
         /\ Len(RemoveAt(s, k)) = Len(s) - 1
         /\ \A i \in 1 .. Len(s) - 1 :
              RemoveAt(s, k)[i] = IF i < k THEN s[i] ELSE s[i + 1]
<1> DEFINE n == Len(s)
           front == SubSeq(s, 1, k - 1)
           back  == SubSeq(s, k + 1, n)
<1>1. n \in Nat /\ k \in Int /\ 1 <= k /\ k <= n /\ \A i \in 1 .. n : s[i] \in S
  BY LenProperties, ElementOfSeq
<1>2. front \in Seq(S) /\ Len(front) = k - 1 /\ \A i \in 1 .. k - 1 : front[i] = s[i]
  <2>1. \A i \in 1 .. k - 1 : i \in 1 .. n
    BY <1>1
  <2>2. QED
    BY <1>1, <2>1, SubSeqProperties
<1>3. back \in Seq(S) /\ Len(back) = n - k /\ \A i \in 1 .. n - k : back[i] = s[k + i]
  <2>1. \A i \in k + 1 .. n : i \in 1 .. n
    BY <1>1
  <2>2. QED
    BY <1>1, <2>1, SubSeqProperties
<1>4. RemoveAt(s, k) = front \o back
  BY DEF RemoveAt
<1> HIDE DEF front, back, n
<1>5. /\ front \o back \in Seq(S)
      /\ Len(front \o back) = Len(front) + Len(back)
      /\ \A i \in 1 .. Len(front) + Len(back) :
           (front \o back)[i] = IF i <= Len(front) THEN front[i] ELSE back[i - Len(front)]
  BY <1>2, <1>3, ConcatProperties
<1>6. ASSUME NEW i \in 1 .. n - 1
      PROVE  (front \o back)[i] = IF i < k THEN s[i] ELSE s[i + 1]
  <2>1. CASE i < k
    BY <1>1, <1>2, <1>3, <1>5, <2>1
  <2>2. CASE i >= k
    <3>1. i - (k - 1) \in 1 .. n - k /\ k + (i - (k - 1)) = i + 1
      BY <1>1, <2>2
    <3>2. (front \o back)[i] = back[i - (k - 1)]
      BY <1>1, <1>2, <1>3, <1>5, <2>2
    <3>3. back[i - (k - 1)] = s[i + 1]
      BY <1>3, <3>1
    <3>4. QED
      BY <1>1, <2>2, <3>2, <3>3
  <2>3. i < k \/ i >= k
    BY <1>1
  <2>4. QED
    BY <2>1, <2>2, <2>3
<1>7. QED
  BY <1>1, <1>2, <1>3, <1>4, <1>5, <1>6 DEF n

(* A snapshot is listed once: without its first entry it is not listed.    *)
LEMMA RemoveFirstProperties ==
  ASSUME NEW S, NEW s \in Seq(S), IsInjective(s), NEW e
  PROVE  /\ RemoveFirst(s, e) \in Seq(S)
         /\ IsInjective(RemoveFirst(s, e))
         /\ \A i \in DOMAIN RemoveFirst(s, e) :
              /\ RemoveFirst(s, e)[i] # e
              /\ \E j \in DOMAIN s : RemoveFirst(s, e)[i] = s[j]
<1> DEFINE I == {i \in 1 .. Len(s) : s[i] = e}
           k == IF I # {} THEN Min(I) ELSE 0
           rest == RemoveAt(s, k)
<1>1. Len(s) \in Nat /\ DOMAIN s = 1 .. Len(s)
  BY LenProperties
<1>2. RemoveFirst(s, e) = IF \E i \in 1 .. Len(s) : s[i] = e THEN rest ELSE s
  BY DEF RemoveFirst, SelectInSeq
<1>3. CASE I = {}
  BY <1>1, <1>2, <1>3
<1>4. CASE I # {}
  <2>1. k \in I
    BY <1>1, <1>4, FirstIn
  <2>2. k \in 1 .. Len(s) /\ s[k] = e
    BY <2>1
  <2>3. RemoveFirst(s, e) = rest
    BY <1>2, <1>4
  <2> HIDE DEF k
  <2>4. /\ rest \in Seq(S) /\ Len(rest) = Len(s) - 1
        /\ \A i \in 1 .. Len(s) - 1 : rest[i] = IF i < k THEN s[i] ELSE s[i + 1]
    BY <2>2, RemoveAtProperties
  <2> HIDE DEF rest
  <2>5. DOMAIN rest = 1 .. Len(s) - 1
    BY <2>4, LenProperties
  <2>6. \A i, j \in 1 .. Len(s) : s[i] = s[j] => i = j
    BY <1>1 DEF IsInjective
  <2>7. IsInjective(rest)
    BY <1>1, <2>2, <2>4, <2>5, <2>6 DEF IsInjective
  <2>8. \A i \in DOMAIN rest : rest[i] # e /\ \E j \in DOMAIN s : rest[i] = s[j]
    <3>1. ASSUME NEW i \in DOMAIN rest
          PROVE  rest[i] # e /\ \E j \in DOMAIN s : rest[i] = s[j]
      <4>1. CASE i < k
        BY <1>1, <2>2, <2>4, <2>5, <2>6, <4>1
      <4>2. CASE ~(i < k)
        <5>1. i + 1 \in 1 .. Len(s) /\ rest[i] = s[i + 1] /\ i + 1 # k
          BY <1>1, <2>2, <2>4, <2>5, <4>2
        <5>2. QED
          BY <1>1, <2>2, <2>6, <5>1
      <4>3. QED
        BY <4>1, <4>2
    <3>2. QED
      BY <3>1
  <2>9. QED
    BY <2>3, <2>4, <2>7, <2>8
<1>5. QED
  BY <1>3, <1>4

(* The rest of a list without duplicates lacks its head.                   *)
LEMMA TailProperties ==
  ASSUME NEW S, NEW s \in Seq(S), s # <<>>, IsInjective(s)
  PROVE  /\ Head(s) \in S /\ Head(s) \in ToSet(s)
         /\ Len(s) \in Nat \ {0}
         /\ Len(s) > 1 =>
              /\ Tail(s) \in Seq(S) /\ Tail(s) # <<>> /\ IsInjective(Tail(s))
              /\ Len(Tail(s)) = Len(s) - 1
              /\ ToSet(Tail(s)) = ToSet(s) \ {Head(s)}
         /\ Len(s) = 1 => ToSet(s) = {Head(s)}
<1>1. Len(s) \in Nat /\ DOMAIN s = 1 .. Len(s) /\ Len(s) # 0
  BY LenProperties, EmptySeq
<1>2. Head(s) = s[1] /\ 1 \in DOMAIN s /\ s[1] \in S
  BY <1>1, HeadTailProperties, ElementOfSeq
<1>3. ASSUME Len(s) > 1
      PROVE  /\ Tail(s) \in Seq(S) /\ Tail(s) # <<>> /\ IsInjective(Tail(s))
             /\ Len(Tail(s)) = Len(s) - 1
             /\ ToSet(Tail(s)) = ToSet(s) \ {Head(s)}
  <2>1. /\ Tail(s) \in Seq(S) /\ Len(Tail(s)) = Len(s) - 1
        /\ \A i \in 1 .. Len(Tail(s)) : Tail(s)[i] = s[i + 1]
    BY <1>1, <1>3, HeadTailProperties
  <2>2. DOMAIN Tail(s) = 1 .. Len(s) - 1
    BY <2>1, LenProperties
  <2>3. Tail(s) # <<>>
    <3>1. Len(Tail(s)) # 0
      BY <1>1, <1>3, <2>1
    <3>2. QED
      BY <2>1, <3>1, EmptySeq
  <2>4. \A i, j \in DOMAIN s : s[i] = s[j] => i = j
    BY DEF IsInjective
  <2>5. IsInjective(Tail(s))
    BY <1>1, <2>1, <2>2, <2>4 DEF IsInjective
  <2>6. \A i \in DOMAIN Tail(s) : Tail(s)[i] \in ToSet(s) \ {Head(s)}
    BY <1>1, <1>2, <2>1, <2>2, <2>4 DEF ToSet
  <2>7. \A j \in DOMAIN s : s[j] # Head(s) => j - 1 \in DOMAIN Tail(s) /\ Tail(s)[j - 1] = s[j]
    BY <1>1, <1>2, <2>1, <2>2
  <2>8. ToSet(Tail(s)) = ToSet(s) \ {Head(s)}
    BY <2>6, <2>7 DEF ToSet
  <2>9. QED
    BY <2>1, <2>3, <2>5, <2>8
<1>4. Len(s) = 1 => ToSet(s) = {Head(s)}
  BY <1>1, <1>2 DEF ToSet
<1>5. QED
  BY <1>1, <1>2, <1>3, <1>4 DEF ToSet

-----------------------------------------------------------------------------
(* The calls.                                                              *)

LEMMA NoneIsOut == None \notin Snapshots /\ None \notin Defers
  BY LifecycleAssumption DEF None

(* A device has one tracker: one that works, or a hollow one.              *)
HollowInv == hollow \subseteq Devices \ tracked

LEMMA TypesGiveTypeOK == Types /\ HollowInv => TypeOK
<1>1. SUFFICES ASSUME Types, HollowInv PROVE TypeOK
  OBVIOUS
<1>2. /\ refs.store \in [Stores -> Nat] /\ refs.device \in [StoreDevices -> Nat]
      /\ refs.defer \in [Defers -> Nat]
  BY <1>1 DEF Types, HeapTypes, RefSet
<1>3. \A image \in ToSet(images) :
        image.dev \in Devices \cup {NoDevice} /\ image.defer \in Defers \cup {None}
  <2>1. \A image \in ToSet(images) : image \in ImageSet
    BY <1>1, ElementOfSeq, LenProperties DEF Types, ToSet
  <2>2. QED
    BY <2>1 DEF ImageSet
<1>4. \A p \in Processes :
        /\ call[p].at \in CallStates
        /\ call[p].snapshot \in Snapshots \cup {None}
        /\ call[p].todo \in Seq(Devices)
  BY <1>1 DEF Types, ControlTypes, CallSet
<1>5. QED
  BY <1>1, <1>2, <1>3, <1>4
  DEF Types, ControlTypes, TrackerTypes, HeapTypes, HollowInv, TypeOK, Statuses

LEMMA CallTypes ==
  ASSUME ControlTypes, NEW p \in Processes
  PROVE  /\ call[p].at \in CallStates
         /\ call[p].snapshot \in Snapshots \cup {None}
         /\ call[p].todo \in Seq(Devices)
         /\ call[p].all \in BOOLEAN /\ call[p].ok \in BOOLEAN
         /\ call[p] = [at |-> call[p].at, snapshot |-> Snap(p), todo |-> call[p].todo,
                       all |-> call[p].all, ok |-> call[p].ok]
<1>1. call[p] \in CallSet
  BY DEF ControlTypes
<1>2. QED
  BY <1>1 DEF CallSet, Snap

LEMMA MembersAreDevices ==
  ASSUME ControlTypes, NEW s \in Snapshots
  PROVE  Members(s) \subseteq Devices /\ members[s] \in Seq(Devices)
<1>1. members[s] \in Seq(Devices)
  BY DEF ControlTypes
<1>2. QED
  BY <1>1, ElementOfSeq, LenProperties DEF Members, ToSet

LEMMA AllOK ==
  ASSUME ControlTypes, SnapshotsInv, NEW s \in Snapshots, status[s] # "none"
  PROVE  ListOK(members[s], s) /\ \E d \in Devices : d \in Members(s)
<1>1. members[s] \in Seq(Devices) /\ members[s] # <<>> /\ IsInjective(members[s])
  BY MembersAreDevices DEF SnapshotsInv
<1>2. Len(members[s]) \in Nat
  BY <1>1, LenProperties
<1>3. Head(members[s]) \in Devices /\ Head(members[s]) \in Members(s)
  BY <1>1, TailProperties DEF Members
<1>4. QED
  BY <1>1, <1>2, <1>3 DEF ListOK, Members

(* A call goes on with the list todo.                                      *)
Moves(p, at, todo, ok) ==
  /\ call' \in [Processes -> CallSet]
  /\ \A q \in Processes \ {p} : call'[q] = call[q]
  /\ call'[p].at = at /\ call'[p].todo = todo /\ call'[p].ok = ok
  /\ call'[p].snapshot = call[p].snapshot /\ call'[p].all = call[p].all

LEMMA GotoMoves ==
  ASSUME ControlTypes, NEW p \in Processes, NEW at \in CallStates
  PROVE  /\ \A todo \in Seq(Devices) : Goto(p, at, todo) => Moves(p, at, todo, call[p].ok)
         /\ All(p) \in Seq(Devices) /\ Fail(p, at) => Moves(p, at, All(p), FALSE)
<1>1. call \in [Processes -> CallSet]
  BY DEF ControlTypes
<1>2. ASSUME NEW todo \in Seq(Devices), Goto(p, at, todo)
      PROVE  Moves(p, at, todo, call[p].ok)
  BY <1>1, <1>2 DEF Goto, Moves, CallSet
<1>3. ASSUME All(p) \in Seq(Devices), Fail(p, at)
      PROVE  Moves(p, at, All(p), FALSE)
  BY <1>1, <1>3 DEF Fail, Moves, CallSet
<1>4. QED
  BY <1>2, <1>3

(* The turn of one device in a loop.                                       *)
Turn(p, at, next) ==
  /\ call[p].at = at /\ Snap(p) \in Snapshots
  /\ Dev(p) \in Devices /\ Dev(p) \in Todo(p) /\ Dev(p) \in Members(Snap(p))
  /\ Moves(p, call'[p].at, call'[p].todo, call[p].ok)
  /\ ListOK(call'[p].todo, Snap(p))
  /\ \/ call'[p].at = at /\ ToSet(call'[p].todo) = Todo(p) \ {Dev(p)}
     \/ /\ call'[p].at = next /\ ToSet(call'[p].todo) = Members(Snap(p))
        /\ Todo(p) = {Dev(p)}

LEMMA CallFacts ==
  ASSUME ControlTypes, CallsInv, SnapshotsInv, NEW p \in Processes, ~Idle(p)
  PROVE  /\ CallOK(call[p]) /\ Snap(p) \in Snapshots
         /\ Dev(p) \in Devices /\ Dev(p) \in Todo(p) /\ Dev(p) \in Members(Snap(p))
         /\ Len(call[p].todo) \in Nat \ {0}
         /\ Len(call[p].todo) = 1 => Todo(p) = {Dev(p)}
         /\ All(p) \in Seq(Devices) /\ ListOK(All(p), Snap(p))
         /\ ToSet(All(p)) = Members(Snap(p))
<1>1. CallOK(call[p])
  BY DEF CallsInv
<1>2. Snap(p) \in Snapshots /\ status[Snap(p)] # "none" /\ ListOK(call[p].todo, Snap(p))
  BY <1>1 DEF CallOK, Snap
<1>3. /\ Dev(p) \in Devices /\ Dev(p) \in Todo(p) /\ Len(call[p].todo) \in Nat \ {0}
      /\ Len(call[p].todo) = 1 => Todo(p) = {Dev(p)}
  BY <1>2, TailProperties DEF ListOK, Dev, Todo
<1>4. Dev(p) \in Members(Snap(p))
  BY <1>2, <1>3 DEF ListOK, Todo
<1>5. ListOK(All(p), Snap(p)) /\ All(p) \in Seq(Devices)
  BY <1>2, AllOK, MembersAreDevices DEF All
<1>6. QED
  BY <1>1, <1>2, <1>3, <1>4, <1>5 DEF All, Members

LEMMA LoopStep ==
  ASSUME ControlTypes, CallsInv, SnapshotsInv, NEW p \in Processes,
         NEW at \in CallStates \ {"idle"}, NEW next \in CallStates, Continue(p, at, next)
  PROVE  ~Idle(p) /\ Turn(p, at, next)
<1>1. call[p].at = at /\ ~Idle(p)
  BY DEF Continue, Idle
<1>2. /\ Snap(p) \in Snapshots
      /\ Dev(p) \in Devices /\ Dev(p) \in Todo(p) /\ Dev(p) \in Members(Snap(p))
      /\ ListOK(call[p].todo, Snap(p)) /\ ListOK(All(p), Snap(p))
      /\ Len(call[p].todo) \in Nat \ {0}
      /\ Len(call[p].todo) = 1 => Todo(p) = {Dev(p)}
      /\ ToSet(All(p)) = Members(Snap(p)) /\ All(p) \in Seq(Devices)
  BY <1>1, CallFacts DEF CallOK, Snap
<1>3. CASE Len(call[p].todo) > 1
  <2>1. /\ Tail(call[p].todo) \in Seq(Devices) /\ Tail(call[p].todo) # <<>>
        /\ IsInjective(Tail(call[p].todo))
        /\ Len(Tail(call[p].todo)) = Len(call[p].todo) - 1
        /\ ToSet(Tail(call[p].todo)) = Todo(p) \ {Dev(p)}
    BY <1>2, <1>3, TailProperties DEF ListOK, Todo, Dev
  <2>2. Len(members[Snap(p)]) \in Nat
    BY <1>2, LenProperties DEF All
  <2>3. ListOK(Tail(call[p].todo), Snap(p))
    BY <1>2, <2>1, <2>2 DEF ListOK, Todo
  <2>4. Moves(p, at, Tail(call[p].todo), call[p].ok)
    BY <1>3, <2>1, GotoMoves DEF Continue
  <2>5. call'[p].at = at /\ call'[p].todo = Tail(call[p].todo)
    BY <2>4 DEF Moves
  <2>6. QED
    BY <1>1, <1>2, <2>1, <2>3, <2>4, <2>5 DEF Turn
<1>4. CASE ~(Len(call[p].todo) > 1)
  <2>1. Moves(p, next, All(p), call[p].ok)
    BY <1>2, <1>4, GotoMoves DEF Continue
  <2>2. call'[p].at = next /\ call'[p].todo = All(p)
    BY <2>1 DEF Moves
  <2>3. Len(call[p].todo) \in Nat \ {0}
    BY <1>2
  <2>4. Len(call[p].todo) = 1
    <3>1. \A n \in Nat \ {0} : ~(n > 1) => n = 1
      OBVIOUS
    <3>2. QED
      BY <1>4, <2>3, <3>1
  <2>5. QED
    BY <1>1, <1>2, <2>1, <2>2, <2>4 DEF Turn
<1>5. QED
  BY <1>3, <1>4

(* A call goes on, in the making or in the destruction as before.          *)
Fits(p, at, ok) ==
  /\ at \in CallStates \ {"idle"} /\ ok \in BOOLEAN
  /\ (at \in Building \/ ~ok) <=> (call[p].at \in Building \/ ~call[p].ok)
  /\ at \in Building \cup {"stop", "destroy"} => ok
  /\ at = "unmake" => ~ok /\ "image" \in faults

LEMMA MovesKeepControl ==
  ASSUME ControlTypes, ControlInv, NEW p \in Processes, ~Idle(p), NEW at, NEW todo, NEW ok,
         Moves(p, at, todo, ok), Fits(p, at, ok), ListOK(todo, Snap(p)),
         UNCHANGED <<snapshotVars, faults>>
  PROVE  ControlTypes' /\ ControlInv'
<1>1. listed' = listed /\ members' = members /\ status' = status /\ faults' = faults
  BY DEF snapshotVars
<1>2. ControlTypes'
  BY <1>1 DEF ControlTypes, Moves
<1>3. CallOK(call[p])
  BY DEF ControlInv, CallsInv
<1>4. CallOK(call[p])'
  BY <1>1, <1>3 DEF CallOK, Moves, Fits, Snap, ListOK, Members
<1>5. ASSUME NEW q \in Processes \ {p}
      PROVE  /\ call'[q] = call[q] /\ Idle(q)' = Idle(q) /\ Snap(q)' = Snap(q)
             /\ CallOK(call[q])' = CallOK(call[q])
  BY <1>1 DEF CallOK, Moves, Idle, Snap, ListOK, Members
<1>6. ~Idle(p)' /\ Snap(p)' = Snap(p)
  BY DEF Moves, Fits, Idle, Snap
<1>7. CallsInv'
  <2>1. ASSUME NEW q \in Processes, ~Idle(q)' PROVE CallOK(call[q])'
    BY <1>4, <1>5, <2>1 DEF ControlInv, CallsInv
  <2>2. ASSUME NEW q \in Processes, NEW r \in Processes, ~Idle(q)', ~Idle(r)', Snap(q)' = Snap(r)'
        PROVE  q = r
    BY <1>5, <1>6, <2>2 DEF ControlInv, CallsInv
  <2>3. QED
    BY <2>1, <2>2 DEF CallsInv
<1>8. SnapshotsInv'
  <2>1. ASSUME NEW s \in Snapshots, status'[s] \in {"creating", "destroying"}
        PROVE  \E q \in Processes : ~Idle(q)' /\ Snap(q)' = s
    <3>1. PICK q \in Processes : ~Idle(q) /\ Snap(q) = s
      BY <1>1, <2>1 DEF ControlInv, SnapshotsInv
    <3>2. QED
      BY <1>5, <1>6, <3>1
  <2>2. QED
    BY <1>1, <2>1 DEF ControlInv, SnapshotsInv, Members, Overlap
<1>9. ListedInv'
  BY <1>1 DEF ControlInv, ListedInv
<1>10. QED
  BY <1>2, <1>7, <1>8, <1>9 DEF ControlInv

(* A call returns.                                                         *)
Ends(p) ==
  /\ call' \in [Processes -> CallSet]
  /\ \A q \in Processes \ {p} : call'[q] = call[q]
  /\ call'[p].at = "idle"

LEMMA ReturnsEnds ==
  ASSUME ControlTypes, NEW p \in Processes, Returns(p)
  PROVE  Ends(p)
<1>1. [at |-> "idle", snapshot |-> None, todo |-> <<>>, all |-> FALSE, ok |-> TRUE] \in CallSet
  BY EmptySeq DEF CallSet, CallStates
<1>2. QED
  BY <1>1 DEF Returns, Ends, ControlTypes

LEMMA EndKeepsCalls ==
  ASSUME ControlTypes, CallsInv, NEW p \in Processes, ~Idle(p), Ends(p),
         \A s \in Snapshots \ {Snap(p)} : status'[s] = status[s] /\ members'[s] = members[s],
         faults' = faults
  PROVE  /\ CallsInv'
         /\ \A q \in Processes \ {p} : Snap(q)' = Snap(q) /\ Idle(q)' = Idle(q)
<1>1. ASSUME NEW q \in Processes \ {p}
      PROVE  call'[q] = call[q] /\ Snap(q)' = Snap(q) /\ Idle(q)' = Idle(q)
  BY DEF Ends, Snap, Idle
<1>2. Idle(p)'
  BY DEF Ends, Idle
<1>3. ASSUME NEW q \in Processes, ~Idle(q)' PROVE CallOK(call[q])'
  <2>1. q # p /\ ~Idle(q) /\ call'[q] = call[q]
    BY <1>1, <1>2, <1>3
  <2>2. CallOK(call[q]) /\ Snap(q) \in Snapshots \ {Snap(p)}
    BY <2>1 DEF CallsInv, CallOK, Snap
  <2>3. QED
    BY <2>1, <2>2 DEF CallOK, ListOK, Members, Snap
<1>4. QED
  BY <1>1, <1>2, <1>3 DEF CallsInv

LEMMA EndKeepsControl ==
  ASSUME ControlTypes, ControlInv, NEW p \in Processes, ~Idle(p), Ends(p),
         NEW st \in {"created", "partly", "lost"},
         status' = [status EXCEPT ![Snap(p)] = st],
         members' = members, faults' = faults,
         \/ listed' = listed
         \/ status[Snap(p)] = "destroying" /\ listed' = Append(listed, Snap(p))
  PROVE  ControlTypes' /\ ControlInv'
<1>1. CallOK(call[p]) /\ Snap(p) \in Snapshots
  BY DEF ControlInv, CallsInv, CallOK, Snap
<1>2. status[Snap(p)] \in {"creating", "destroying"}
  BY <1>1 DEF CallOK, Snap
<1>3. /\ status' \in [Snapshots -> Statuses] /\ status'[Snap(p)] = st
      /\ \A s \in Snapshots \ {Snap(p)} : status'[s] = status[s]
  BY <1>1 DEF ControlTypes, Statuses
<1>4. /\ CallsInv'
      /\ \A q \in Processes \ {p} : Snap(q)' = Snap(q) /\ Idle(q)' = Idle(q)
  BY <1>3, EndKeepsCalls DEF ControlInv
<1>5. SnapshotsInv'
  <2>1. ASSUME NEW s \in Snapshots, status'[s] \in {"creating", "destroying"}
        PROVE  \E q \in Processes : ~Idle(q)' /\ Snap(q)' = s
    <3>1. s # Snap(p) /\ status[s] \in {"creating", "destroying"}
      BY <1>3, <2>1
    <3>2. PICK q \in Processes : ~Idle(q) /\ Snap(q) = s
      BY <3>1 DEF ControlInv, SnapshotsInv
    <3>3. QED
      BY <1>4, <3>1, <3>2
  <2>2. \A s \in Snapshots : status'[s] = "none" <=> status[s] = "none"
    BY <1>2, <1>3
  <2>3. QED
    BY <2>1, <2>2 DEF ControlInv, SnapshotsInv, Members, Overlap
<1>6. listed' \in Seq(Snapshots) /\ ListedInv'
  <2>1. /\ listed \in Seq(Snapshots) /\ IsInjective(listed)
        /\ Len(listed) \in Nat /\ DOMAIN listed = 1 .. Len(listed)
        /\ \A i \in DOMAIN listed : listed[i] \in Snapshots
    BY LenProperties, ElementOfSeq DEF ControlTypes, ControlInv, ListedInv
  <2>2. \A i \in DOMAIN listed : status'[listed[i]] \notin {"none", "destroying"}
    BY <1>3, <2>1 DEF ControlInv, ListedInv
  <2>3. CASE listed' = listed
    BY <2>1, <2>2, <2>3 DEF ListedInv
  <2>4. CASE status[Snap(p)] = "destroying" /\ listed' = Append(listed, Snap(p))
    <3>1. \A i \in DOMAIN listed : listed[i] # Snap(p)
      BY <2>4 DEF ControlInv, ListedInv
    <3>2. /\ listed' \in Seq(Snapshots) /\ Len(listed') = Len(listed) + 1
          /\ \A i \in 1 .. Len(listed) : listed'[i] = listed[i]
          /\ listed'[Len(listed) + 1] = Snap(p)
      BY <1>1, <2>1, <2>4, AppendProperties
    <3>3. DOMAIN listed' = 1 .. Len(listed) + 1
      BY <3>2, LenProperties
    <3>4. ASSUME NEW i \in 1 .. Len(listed) + 1, NEW j \in 1 .. Len(listed) + 1,
                 listed'[i] = listed'[j]
          PROVE  i = j
      <4>1. \A n \in Nat : \A k \in 1 .. n + 1 : k \in 1 .. n \/ k = n + 1
        OBVIOUS
      <4>2. (i \in DOMAIN listed \/ i = Len(listed) + 1) /\ (j \in DOMAIN listed \/ j = Len(listed) + 1)
        BY <2>1, <4>1
      <4>3. QED
        BY <2>1, <3>1, <3>2, <3>4, <4>2 DEF IsInjective
    <3>5. ASSUME NEW i \in 1 .. Len(listed) + 1
          PROVE  status'[listed'[i]] \notin {"none", "destroying"}
      <4>1. \A n \in Nat : \A k \in 1 .. n + 1 : k \in 1 .. n \/ k = n + 1
        OBVIOUS
      <4>2. i \in DOMAIN listed \/ i = Len(listed) + 1
        BY <2>1, <4>1
      <4>3. QED
        BY <1>3, <2>1, <2>2, <3>2, <4>2
    <3>6. QED
      BY <3>2, <3>3, <3>4, <3>5 DEF ListedInv, IsInjective
  <2>5. QED
    BY <2>3, <2>4
<1>7. ControlTypes'
  BY <1>3, <1>6 DEF ControlTypes, Ends
<1>8. QED
  BY <1>4, <1>5, <1>6, <1>7 DEF ControlInv

(* A call that starts has a snapshot that no other call has.               *)
LEMMA StartKeepsCalls ==
  ASSUME ControlTypes, CallsInv, NEW p \in Processes, Idle(p),
         NEW s \in Snapshots, status[s] \notin {"creating", "destroying"},
         call' \in [Processes -> CallSet],
         \A q \in Processes \ {p} : call'[q] = call[q],
         call'[p].at # "idle", call'[p].snapshot = s, CallOK(call[p])',
         \A t \in Snapshots \ {s} : status'[t] = status[t] /\ members'[t] = members[t],
         faults' = faults
  PROVE  /\ CallsInv'
         /\ \A q \in Processes \ {p} : Snap(q)' = Snap(q) /\ Idle(q)' = Idle(q)
<1>1. ASSUME NEW q \in Processes \ {p}
      PROVE  call'[q] = call[q] /\ Snap(q)' = Snap(q) /\ Idle(q)' = Idle(q)
  BY DEF Snap, Idle
<1>2. ASSUME NEW q \in Processes \ {p}, ~Idle(q)
      PROVE  CallOK(call[q])' /\ Snap(q) # s
  <2>1. CallOK(call[q])
    BY <1>2 DEF CallsInv
  <2>2. Snap(q) \in Snapshots /\ status[Snap(q)] \in {"creating", "destroying"}
    BY <2>1 DEF CallOK, Snap
  <2>3. QED
    BY <1>1, <2>1, <2>2 DEF CallOK, ListOK, Members, Snap
<1>3. Snap(p)' = s
  BY DEF Snap
<1>4. QED
  BY <1>1, <1>2, <1>3 DEF CallsInv

LEMMA AvoidedRace ==
  ASSUME "race" \in Avoided, ControlTypes, CallsInv, SnapshotsInv,
         NEW p \in Processes, NEW ds, NoRace(p, ds),
         NEW q \in Processes \ {p}, ~Idle(q)
  PROVE  \A d \in Members(Snap(q)), e \in ds : d # e /\ ~Overlap(d, e)
  BY DEF NoRace, Members, Snap

LEMMA CreateStartKeepsControl ==
  ASSUME {"recapture", "readd", "race"} \subseteq Avoided, ControlTypes, ControlInv,
         NEW p \in Processes, NEW devs \in Sets, CreateStart(p, devs), faults' = faults
  PROVE  /\ ControlTypes' /\ ControlInv'
<1>1. PICK s \in Snapshots :
        /\ status[s] = "none"
        /\ status' = [status EXCEPT ![s] = "creating"]
        /\ members' = [members EXCEPT ![s] = devs]
        /\ listed' = Append(listed, s)
        /\ call' = [call EXCEPT ![p] = [at |-> "add", snapshot |-> s, todo |-> devs,
                                        all |-> FALSE, ok |-> TRUE]]
  BY DEF CreateStart
<1>2. devs \in Seq(Devices) /\ devs # <<>> /\ IsInjective(devs) /\ Idle(p)
  BY LifecycleAssumption DEF CreateStart
<1>3. /\ status' \in [Snapshots -> Statuses] /\ status'[s] = "creating"
      /\ members' \in [Snapshots -> Seq(Devices)] /\ members'[s] = devs
      /\ \A t \in Snapshots \ {s} : status'[t] = status[t] /\ members'[t] = members[t]
  BY <1>1, <1>2 DEF ControlTypes, Statuses
<1>4. [at |-> "add", snapshot |-> s, todo |-> devs, all |-> FALSE, ok |-> TRUE] \in CallSet
  BY <1>2 DEF CallSet, CallStates
<1>5. /\ call' \in [Processes -> CallSet] /\ \A q \in Processes \ {p} : call'[q] = call[q]
      /\ call'[p].at = "add" /\ call'[p].snapshot = s /\ call'[p].todo = devs
      /\ call'[p].ok = TRUE
  BY <1>1, <1>4 DEF ControlTypes
<1>6. Len(devs) \in Nat
  BY <1>2, LenProperties
<1>7. CallOK(call[p])'
  BY <1>2, <1>3, <1>5, <1>6 DEF CallOK, ListOK, Building, Members
<1>8. /\ CallsInv'
      /\ \A q \in Processes \ {p} : Snap(q)' = Snap(q) /\ Idle(q)' = Idle(q)
  BY <1>1, <1>2, <1>3, <1>5, <1>7, StartKeepsCalls DEF ControlInv
<1>9. ~Idle(p)' /\ Snap(p)' = s
  BY <1>5 DEF Idle, Snap
<1>10. SnapshotsInv'
  <2>1. ASSUME NEW t \in Snapshots, status'[t] \in {"creating", "destroying"}
        PROVE  \E q \in Processes : ~Idle(q)' /\ Snap(q)' = t
    <3>1. CASE t = s
      BY <1>9, <3>1
    <3>2. CASE t # s
      <4>1. status[t] \in {"creating", "destroying"}
        BY <1>3, <2>1, <3>2
      <4>2. PICK q \in Processes : ~Idle(q) /\ Snap(q) = t
        BY <4>1 DEF ControlInv, SnapshotsInv
      <4>3. QED
        BY <1>2, <1>8, <4>2
    <3>3. QED
      BY <3>1, <3>2
  <2>2. \A t \in Snapshots : status'[t] = "none" <=> members'[t] = <<>>
    BY <1>2, <1>3 DEF ControlInv, SnapshotsInv
  <2>3. \A t \in Snapshots : IsInjective(members'[t])
    BY <1>2, <1>3 DEF ControlInv, SnapshotsInv
  <2>4. Members(s)' = ToSet(devs) /\ \A t \in Snapshots \ {s} : Members(t)' = Members(t)
    BY <1>3 DEF Members
  <2>5. ASSUME NEW t \in Snapshots \ {s}, NEW d \in Members(t), NEW e \in ToSet(devs)
        PROVE  d # e /\ ~Overlap(d, e) /\ ~Overlap(e, d)
    <3>1. d \in Devices
      BY MembersAreDevices
    <3>2. members[t] # <<>>
      BY LenProperties, EmptySeq DEF Members, ToSet
    <3>3. status[t] # "none"
      BY <3>2 DEF ControlInv, SnapshotsInv
    <3>4. InSnapshot(d)
      <4>1. DOMAIN members[t] = 1 .. Len(members[t])
        BY LenProperties, MembersAreDevices
      <4>2. QED
        BY <3>3, <4>1 DEF InSnapshot, Contains, Members, ToSet
    <3>5. ~Overlap(d, e)
      BY <3>1, <3>4 DEF CreateStart, NoReplace
    <3>6. d # e
      BY <3>4 DEF CreateStart, NoRecapture
    <3>7. {d, e} = {e, d}
      OBVIOUS
    <3>8. QED
      BY <3>5, <3>6, <3>7 DEF Overlap
  <2>6. ASSUME NEW t \in Snapshots, NEW u \in Snapshots, t # u,
               NEW d \in Members(t)', NEW e \in Members(u)'
        PROVE  d # e /\ ~Overlap(d, e)'
    <3>1. CASE t # s /\ u # s
      BY <2>4, <2>6, <3>1 DEF ControlInv, SnapshotsInv, Overlap
    <3>2. CASE u = s
      BY <2>4, <2>5, <2>6, <3>2 DEF Overlap
    <3>3. CASE t = s
      BY <2>4, <2>5, <2>6, <3>3 DEF Overlap
    <3>4. QED
      BY <3>1, <3>2, <3>3
  <2>7. QED
    BY <2>1, <2>2, <2>3, <2>6 DEF SnapshotsInv
<1>11. listed' \in Seq(Snapshots) /\ ListedInv'
  <2>1. /\ listed \in Seq(Snapshots) /\ IsInjective(listed)
        /\ Len(listed) \in Nat /\ DOMAIN listed = 1 .. Len(listed)
        /\ \A i \in DOMAIN listed : listed[i] \in Snapshots
    BY LenProperties, ElementOfSeq DEF ControlTypes, ControlInv, ListedInv
  <2>2. \A i \in DOMAIN listed : listed[i] # s /\ status'[listed[i]] \notin {"none", "destroying"}
    BY <1>1, <1>3, <2>1 DEF ControlInv, ListedInv
  <2>3. /\ listed' \in Seq(Snapshots) /\ Len(listed') = Len(listed) + 1
        /\ \A i \in 1 .. Len(listed) : listed'[i] = listed[i]
        /\ listed'[Len(listed) + 1] = s
    BY <1>1, <2>1, AppendProperties
  <2>4. DOMAIN listed' = 1 .. Len(listed) + 1
    BY <2>3, LenProperties
  <2>5. \A n \in Nat : \A k \in 1 .. n + 1 : k \in 1 .. n \/ k = n + 1
    OBVIOUS
  <2>6. \A k \in DOMAIN listed' : k \in DOMAIN listed \/ k = Len(listed) + 1
    BY <2>1, <2>4, <2>5
  <2>7. IsInjective(listed')
    BY <2>1, <2>2, <2>3, <2>6 DEF IsInjective
  <2>8. \A i \in DOMAIN listed' : status'[listed'[i]] \notin {"none", "destroying"}
    BY <1>3, <2>1, <2>2, <2>3, <2>6
  <2>9. QED
    BY <2>3, <2>7, <2>8 DEF ListedInv
<1>12. ControlTypes'
  BY <1>3, <1>5, <1>11 DEF ControlTypes
<1>13. QED
  BY <1>8, <1>10, <1>11, <1>12 DEF ControlInv

LEMMA InSnapshotMembers ==
  ASSUME ControlTypes, SnapshotsInv, NEW d
  PROVE  InSnapshot(d) <=> \E s \in Snapshots : d \in Members(s)
<1>1. ASSUME NEW s \in Snapshots
      PROVE  status[s] # "none" /\ Contains(members[s], d) <=> d \in Members(s)
  <2>1. members[s] \in Seq(Devices) /\ DOMAIN members[s] = 1 .. Len(members[s])
    BY MembersAreDevices, LenProperties
  <2>2. d \in Members(s) => members[s] # <<>>
    BY <2>1, EmptySeq DEF Members, ToSet
  <2>3. QED
    BY <2>1, <2>2 DEF SnapshotsInv, Contains, Members, ToSet
<1>2. QED
  BY <1>1 DEF InSnapshot

LEMMA TakeKeepsControl ==
  ASSUME ControlTypes, ControlInv, NEW p \in Processes, Idle(p),
         NEW s \in Snapshots, status[s] \notin {"none", "creating", "destroying"},
         NEW all \in BOOLEAN, TakeSnapshot(p, s, all), faults' = faults
  PROVE  ControlTypes' /\ ControlInv'
<1>1. ListOK(members[s], s) /\ members[s] \in Seq(Devices) /\ members' = members
  BY AllOK, MembersAreDevices DEF ControlInv, TakeSnapshot
<1>2. /\ status' \in [Snapshots -> Statuses] /\ status'[s] = "destroying"
      /\ \A t \in Snapshots \ {s} : status'[t] = status[t]
  BY DEF ControlTypes, Statuses, TakeSnapshot
<1>3. [at |-> "stop", snapshot |-> s, todo |-> members[s], all |-> all, ok |-> TRUE] \in CallSet
  BY <1>1 DEF CallSet, CallStates
<1>4. /\ call' \in [Processes -> CallSet] /\ \A q \in Processes \ {p} : call'[q] = call[q]
      /\ call'[p].at = "stop" /\ call'[p].snapshot = s /\ call'[p].todo = members[s]
      /\ call'[p].ok = TRUE
  BY <1>3 DEF ControlTypes, TakeSnapshot
<1>5. CallOK(call[p])'
  BY <1>1, <1>2, <1>4 DEF CallOK, ListOK, Building, Members
<1>6. /\ CallsInv'
      /\ \A q \in Processes \ {p} : Snap(q)' = Snap(q) /\ Idle(q)' = Idle(q)
  BY <1>1, <1>2, <1>4, <1>5, StartKeepsCalls DEF ControlInv
<1>7. ~Idle(p)' /\ Snap(p)' = s
  BY <1>4 DEF Idle, Snap
<1>8. SnapshotsInv'
  <2>1. ASSUME NEW t \in Snapshots, status'[t] \in {"creating", "destroying"}
        PROVE  \E q \in Processes : ~Idle(q)' /\ Snap(q)' = t
    <3>1. CASE t = s
      BY <1>7, <3>1
    <3>2. CASE t # s
      <4>1. status[t] \in {"creating", "destroying"}
        BY <1>2, <2>1, <3>2
      <4>2. PICK q \in Processes : ~Idle(q) /\ Snap(q) = t
        BY <4>1 DEF ControlInv, SnapshotsInv
      <4>3. QED
        BY <1>6, <4>2
    <3>3. QED
      BY <3>1, <3>2
  <2>2. \A t \in Snapshots : status'[t] = "none" <=> status[t] = "none"
    BY <1>2
  <2>3. QED
    BY <1>1, <2>1, <2>2 DEF ControlInv, SnapshotsInv, Members, Overlap
<1>9. listed' \in Seq(Snapshots) /\ ListedInv'
  <2>1. /\ listed \in Seq(Snapshots) /\ IsInjective(listed)
        /\ listed' = RemoveFirst(listed, s)
    BY DEF ControlTypes, ControlInv, ListedInv, TakeSnapshot
  <2>2. /\ listed' \in Seq(Snapshots) /\ IsInjective(listed')
        /\ \A i \in DOMAIN listed' :
             listed'[i] # s /\ \E j \in DOMAIN listed : listed'[i] = listed[j]
    BY <2>1, RemoveFirstProperties
  <2>3. \A j \in DOMAIN listed : listed[j] \in Snapshots
    BY <2>1, ElementOfSeq, LenProperties
  <2>4. QED
    BY <1>2, <2>2, <2>3 DEF ControlInv, ListedInv
<1>10. ControlTypes'
  BY <1>1, <1>2, <1>4, <1>9 DEF ControlTypes
<1>11. QED
  BY <1>6, <1>8, <1>9, <1>10 DEF ControlInv

(* snapshot_DestroyAll finds no snapshot in the making: it waits for none  *)
(* of the other calls, but would come beside one for the same devices.     *)
LEMMA DestroyAllTakes ==
  ASSUME {"recapture", "readd", "race"} \subseteq Avoided, ControlTypes, ControlInv,
         NEW p \in Processes, DestroyAllStart(p)
  PROVE  /\ Head(listed) \in Snapshots
         /\ status[Head(listed)] \notin {"none", "creating", "destroying"}
         /\ \A q \in Processes : Idle(q)
<1>1. /\ Idle(p) /\ listed # <<>> /\ NoRace(p, Devices)
      /\ listed \in Seq(Snapshots) /\ IsInjective(listed)
  BY DEF DestroyAllStart, ControlTypes, ControlInv, ListedInv
<1>2. Head(listed) \in Snapshots /\ Head(listed) \in ToSet(listed)
  BY <1>1, TailProperties
<1>3. status[Head(listed)] \notin {"none", "destroying"}
  BY <1>2 DEF ControlInv, ListedInv, ToSet
<1>4. ASSUME NEW q \in Processes \ {p}, ~Idle(q)
      PROVE  FALSE
  <2>1. Dev(q) \in Members(Snap(q)) /\ Dev(q) \in Devices
    BY <1>4, CallFacts DEF ControlInv
  <2>2. QED
    BY <1>1, <1>4, <2>1, AvoidedRace DEF ControlInv
<1>5. \A q \in Processes : Idle(q)
  BY <1>1, <1>4
<1>6. status[Head(listed)] # "creating"
  BY <1>2, <1>5 DEF ControlInv, SnapshotsInv
<1>7. QED
  BY <1>2, <1>3, <1>5, <1>6

(* The end of _snapshot_cleanup.                                           *)
LEMMA CleanupEndKeepsControl ==
  ASSUME ControlTypes, ControlInv, NEW p \in Processes, ~Idle(p), Ends(p),
         listed' = RemoveFirst(listed, Snap(p)),
         status' = [status EXCEPT ![Snap(p)] = "none"],
         members' = [members EXCEPT ![Snap(p)] = <<>>],
         faults' = faults
  PROVE  ControlTypes' /\ ControlInv'
<1>1. PICK s \in Snapshots : s = Snap(p)
  BY DEF ControlInv, CallsInv, CallOK, Snap
<1>2. /\ status' \in [Snapshots -> Statuses] /\ status'[s] = "none"
      /\ members' \in [Snapshots -> Seq(Devices)] /\ members'[s] = <<>>
      /\ \A t \in Snapshots \ {s} : status'[t] = status[t] /\ members'[t] = members[t]
  BY <1>1, EmptySeq DEF ControlTypes, Statuses
<1>3. /\ CallsInv'
      /\ \A q \in Processes \ {p} : Snap(q)' = Snap(q) /\ Idle(q)' = Idle(q)
  BY <1>1, <1>2, EndKeepsCalls DEF ControlInv
<1>4. Members(s)' = {} /\ IsInjective(members'[s])
  BY <1>2, EmptySeq, LenProperties DEF Members, ToSet, IsInjective
<1>5. SnapshotsInv'
  <2>1. ASSUME NEW t \in Snapshots, status'[t] \in {"creating", "destroying"}
        PROVE  \E q \in Processes : ~Idle(q)' /\ Snap(q)' = t
    <3>1. t # s /\ status[t] \in {"creating", "destroying"}
      BY <1>2, <2>1
    <3>2. PICK q \in Processes : ~Idle(q) /\ Snap(q) = t
      BY <3>1 DEF ControlInv, SnapshotsInv
    <3>3. QED
      BY <1>1, <1>3, <3>1, <3>2
  <2>2. \A t \in Snapshots : status'[t] = "none" <=> members'[t] = <<>>
    BY <1>2 DEF ControlInv, SnapshotsInv
  <2>3. \A t \in Snapshots : IsInjective(members'[t])
    BY <1>2, <1>4 DEF ControlInv, SnapshotsInv
  <2>4. \A t \in Snapshots \ {s} : Members(t)' = Members(t)
    BY <1>2 DEF Members
  <2>5. ASSUME NEW t \in Snapshots, NEW u \in Snapshots, t # u,
               NEW d \in Members(t)', NEW e \in Members(u)'
        PROVE  d # e /\ ~Overlap(d, e)'
    <3>1. t # s /\ u # s /\ d \in Members(t) /\ e \in Members(u)
      BY <1>4, <2>4, <2>5
    <3>2. QED
      BY <2>5, <3>1 DEF ControlInv, SnapshotsInv, Overlap
  <2>6. QED
    BY <2>1, <2>2, <2>3, <2>5 DEF SnapshotsInv
<1>6. listed' \in Seq(Snapshots) /\ ListedInv'
  <2>1. listed \in Seq(Snapshots) /\ IsInjective(listed)
    BY DEF ControlTypes, ControlInv, ListedInv
  <2>2. /\ listed' \in Seq(Snapshots) /\ IsInjective(listed')
        /\ \A i \in DOMAIN listed' :
             listed'[i] # s /\ \E j \in DOMAIN listed : listed'[i] = listed[j]
    BY <1>1, <2>1, RemoveFirstProperties
  <2>3. \A j \in DOMAIN listed : listed[j] \in Snapshots
    BY <2>1, ElementOfSeq, LenProperties
  <2>4. QED
    BY <1>2, <2>2, <2>3 DEF ControlInv, ListedInv
<1>7. ControlTypes'
  BY <1>2, <1>6 DEF ControlTypes, Ends
<1>8. QED
  BY <1>3, <1>5, <1>6, <1>7 DEF ControlInv

LEMMA TurnKeepsControl ==
  ASSUME ControlTypes, ControlInv, NEW p \in Processes,
         NEW at \in CallStates \ {"idle"}, NEW next \in CallStates, Continue(p, at, next),
         Fits(p, next, call[p].ok), UNCHANGED <<snapshotVars, faults>>
  PROVE  ControlTypes' /\ ControlInv'
<1>1. ~Idle(p) /\ Turn(p, at, next)
  BY LoopStep DEF ControlInv
<1>2. CallOK(call[p]) /\ call[p].ok \in BOOLEAN /\ call[p].at = at
  BY <1>1, CallTypes DEF ControlInv, CallsInv, Turn
<1>3. Fits(p, at, call[p].ok)
  BY <1>2 DEF Fits, CallOK
<1>4. /\ Moves(p, call'[p].at, call'[p].todo, call[p].ok)
      /\ ListOK(call'[p].todo, Snap(p)) /\ call'[p].at \in {at, next}
  BY <1>1 DEF Turn
<1>5. Fits(p, call'[p].at, call[p].ok)
  BY <1>3, <1>4
<1>6. QED
  BY <1>1, <1>4, <1>5, MovesKeepControl

LEMMA FailKeepsControl ==
  ASSUME ControlTypes, ControlInv, NEW p \in Processes, call[p].at \in Building,
         NEW at \in {"cleanup", "release"}, Fail(p, at), UNCHANGED <<snapshotVars, faults>>
  PROVE  ~Idle(p) /\ Moves(p, at, All(p), FALSE) /\ ControlTypes' /\ ControlInv'
<1>1. ~Idle(p) /\ at \in CallStates
  BY DEF Idle, Building, CallStates
<1>2. All(p) \in Seq(Devices) /\ ListOK(All(p), Snap(p))
  BY <1>1, CallFacts DEF ControlInv
<1>3. Moves(p, at, All(p), FALSE)
  BY <1>1, <1>2, GotoMoves
<1>4. Fits(p, at, FALSE)
  BY <1>1 DEF Fits, Building
<1>5. QED
  BY <1>1, <1>2, <1>3, <1>4, MovesKeepControl

(* The images of the whole snapshot but for the last that was made.        *)
LEMMA UnmadeImages ==
  ASSUME ControlTypes, ControlInv, NEW p \in Processes, CreateImageFails(p), faults' = faults
  PROVE  /\ ~Idle(p) /\ "image" \in faults
         /\ \/ Fail(p, "release")
            \/ \E todo \in Seq(Devices) : ListOK(todo, Snap(p)) /\ Moves(p, "unmake", todo, FALSE)
<1> DEFINE made == Len(All(p)) - Len(call[p].todo)
           unmake == IF made > 0 THEN SubSeq(All(p), 1, made - 1) ELSE <<>>
<1>1. call[p].at = "image" /\ "image" \in faults /\ ~Idle(p)
  BY DEF CreateImageFails, Idle
<1>2. /\ CallOK(call[p]) /\ Snap(p) \in Snapshots
      /\ All(p) \in Seq(Devices) /\ ListOK(All(p), Snap(p))
  BY <1>1, CallFacts DEF ControlInv
<1>3. /\ Len(All(p)) \in Nat /\ Len(call[p].todo) \in Nat
      /\ DOMAIN All(p) = 1 .. Len(All(p))
      /\ \A i \in 1 .. Len(All(p)) : All(p)[i] \in Devices
  BY <1>1, <1>2, LenProperties, ElementOfSeq, CallTypes
<1> HIDE DEF made
<1>7. PICK a \in Nat, b \in Nat : Len(All(p)) = a /\ Len(call[p].todo) = b
  BY <1>3
<1>8. made = a - b
  BY <1>7 DEF made
<1>4. CASE made > 0
  <2>1. /\ unmake \in Seq(Devices) /\ Len(unmake) = made - 1
        /\ \A i \in 1 .. made - 1 : unmake[i] = All(p)[i]
    <3>1. made - 1 <= a /\ made - 1 >= 0 /\ made - 1 \in Nat /\ 1 \in Int
      BY <1>4, <1>8
    <3>2. \A i \in 1 .. made - 1 : All(p)[i] \in Devices
      BY <1>3, <1>7, <3>1
    <3>3. QED
      BY <1>2, <1>4, <3>1, <3>2, SubSeqProperties
  <2>2. DOMAIN unmake = 1 .. made - 1
    BY <2>1, LenProperties
  <2>3. 1 .. made - 1 \subseteq 1 .. Len(All(p)) /\ made - 1 <= Len(All(p))
    BY <1>4, <1>7, <1>8
  <2> HIDE DEF unmake
  <2>4. IsInjective(unmake)
    BY <1>2, <1>3, <2>1, <2>2, <2>3 DEF ListOK, IsInjective
  <2>5. ToSet(unmake) \subseteq Members(Snap(p))
    BY <1>3, <2>1, <2>2, <2>3 DEF ToSet, Members, All
  <2>6. Len(unmake) <= Len(members[Snap(p)])
    BY <2>1, <2>3 DEF All
  <2>7. unmake # <<>> => ListOK(unmake, Snap(p))
    BY <2>1, <2>4, <2>5, <2>6 DEF ListOK
  <2>8. CASE unmake = <<>>
    BY <1>1, <2>8 DEF CreateImageFails, unmake, made
  <2>9. CASE unmake # <<>>
    <3>1. call' = [call EXCEPT ![p].at = "unmake", ![p].todo = unmake, ![p].ok = FALSE]
      BY <2>9 DEF CreateImageFails, unmake, made
    <3>2. Moves(p, "unmake", unmake, FALSE)
      BY <2>1, <3>1 DEF Moves, ControlTypes, CallSet, CallStates
    <3>3. QED
      BY <1>1, <2>1, <2>7, <2>9, <3>2
  <2>10. QED
    BY <2>8, <2>9
<1>5. CASE ~(made > 0)
  BY <1>1, <1>5 DEF CreateImageFails, made
<1>6. QED
  BY <1>4, <1>5

(* After the last image the call returns, before it goes on with the next. *)
LEMMA ImageMadeSteps ==
  ASSUME ControlTypes, ControlInv, NEW p \in Processes, call[p].at = "image", ImageMade(p),
         faults' = faults
  PROVE  /\ ~Idle(p) /\ ControlTypes' /\ ControlInv'
         /\ members' = members
         /\ \/ /\ Finished(p) /\ Ends(p) /\ Todo(p) = {Dev(p)}
               /\ status' = [status EXCEPT ![Snap(p)] = "created"]
            \/ /\ status' = status /\ ~Finished(p)
               /\ Moves(p, "image", call'[p].todo, call[p].ok)
               /\ ToSet(call'[p].todo) = Todo(p) \ {Dev(p)}
<1>1. ~Idle(p)
  BY DEF Idle
<1>2. /\ Snap(p) \in Snapshots /\ ListOK(call[p].todo, Snap(p)) /\ call[p].ok
      /\ Len(call[p].todo) \in Nat \ {0}
      /\ Len(call[p].todo) = 1 => Todo(p) = {Dev(p)}
  BY <1>1, CallFacts DEF ControlInv, CallOK, Snap, Building
<1>3. members' = members /\ listed' = listed
  BY DEF ImageMade
<1>4. CASE Finished(p)
  <2>1. Ends(p) /\ status' = [status EXCEPT ![Snap(p)] = "created"]
    BY <1>4, ReturnsEnds DEF ImageMade
  <2>2. ControlTypes' /\ ControlInv'
    BY <1>1, <1>3, <2>1, EndKeepsControl
  <2>3. QED
    BY <1>1, <1>2, <1>3, <1>4, <2>1, <2>2 DEF Finished
<1>5. CASE ~Finished(p)
  <2>1. Continue(p, "image", "image") /\ Len(call[p].todo) > 1 /\ status' = status
    <3>1. \A n \in Nat \ {0} : n # 1 => n > 1
      OBVIOUS
    <3>2. Len(call[p].todo) \in Nat \ {0} /\ Len(call[p].todo) # 1
      BY <1>2, <1>5 DEF Finished
    <3>3. Len(call[p].todo) > 1
      BY <3>1, <3>2
    <3>4. QED
      BY <1>5, <3>3 DEF ImageMade, Continue
  <2>2. Turn(p, "image", "image")
    BY <2>1, LoopStep DEF ControlInv, CallStates
  <2>3. Fits(p, "image", call[p].ok)
    BY <1>2, CallTypes DEF Fits, CallStates, Building
  <2>4. ControlTypes' /\ ControlInv'
    BY <1>3, <2>1, <2>3, TurnKeepsControl DEF snapshotVars, CallStates
  <2>5. /\ Moves(p, "image", call'[p].todo, call[p].ok)
        /\ call'[p].todo = Tail(call[p].todo)
    <3>1. Goto(p, "image", Tail(call[p].todo))
      BY <1>5 DEF ImageMade
    <3>2. Tail(call[p].todo) \in Seq(Devices)
      BY <1>2, <2>1, TailProperties DEF ListOK
    <3>3. Moves(p, "image", Tail(call[p].todo), call[p].ok)
      BY <3>1, <3>2, GotoMoves DEF CallStates
    <3>4. QED
      BY <3>3 DEF Moves
  <2>6. ToSet(call'[p].todo) = Todo(p) \ {Dev(p)}
    BY <1>2, <2>1, <2>5, TailProperties DEF ListOK, Todo, Dev
  <2>7. QED
    BY <1>1, <1>3, <1>5, <2>1, <2>4, <2>5, <2>6
<1>6. QED
  BY <1>4, <1>5

LEMMA ReleaseFailsSteps ==
  ASSUME ControlTypes, ControlInv, NEW p \in Processes, ReleaseFails(p), faults' = faults
  PROVE  /\ ~Idle(p) /\ ControlTypes' /\ ControlInv'
         /\ members' = members /\ call[p].at = "release" /\ "release" \in faults
         /\ \/ /\ Ends(p)
               /\ \E st \in {"partly", "lost"} : status' = [status EXCEPT ![Snap(p)] = st]
            \/ /\ status' = status
               /\ Moves(p, "cleanup", All(p), call[p].ok)
<1>1. ~Idle(p) /\ call[p].at = "release" /\ "release" \in faults /\ members' = members
  BY DEF ReleaseFails, Idle
<1>2. /\ CallOK(call[p]) /\ Snap(p) \in Snapshots
      /\ All(p) \in Seq(Devices) /\ ListOK(All(p), Snap(p))
  BY <1>1, CallFacts DEF ControlInv
<1>3. CASE ~call[p].ok
  <2>1. Goto(p, "cleanup", All(p)) /\ status' = status /\ listed' = listed
    BY <1>1, <1>3 DEF ReleaseFails
  <2>2. Moves(p, "cleanup", All(p), call[p].ok)
    BY <1>2, <2>1, GotoMoves DEF CallStates
  <2>3. Fits(p, "cleanup", call[p].ok)
    BY <1>1, <1>3, CallTypes DEF Fits, CallStates, Building
  <2>4. ControlTypes' /\ ControlInv'
    BY <1>1, <1>2, <2>1, <2>2, <2>3, MovesKeepControl DEF snapshotVars
  <2>5. QED
    BY <1>1, <2>1, <2>2, <2>4
<1>4. CASE call[p].ok
  <2>1. status[Snap(p)] = "destroying"
    BY <1>1, <1>2, <1>4 DEF CallOK, Building, Snap
  <2>2. PICK st \in {"partly", "lost"} :
          /\ status' = [status EXCEPT ![Snap(p)] = st]
          /\ \/ listed' = listed
             \/ listed' = Append(listed, Snap(p))
    BY <1>1, <1>4 DEF ReleaseFails
  <2>3. Ends(p)
    BY <1>1, <1>4, ReturnsEnds DEF ReleaseFails
  <2>4. ControlTypes' /\ ControlInv'
    BY <1>1, <2>1, <2>2, <2>3, EndKeepsControl
  <2>5. QED
    BY <1>1, <2>2, <2>3, <2>4
<1>5. QED
  BY <1>3, <1>4

LEMMA CleanupSteps ==
  ASSUME ControlTypes, ControlInv, NEW p \in Processes, Cleanup(p), faults' = faults
  PROVE  /\ ~Idle(p) /\ ControlTypes' /\ ControlInv'
         /\ call[p].at = "cleanup" /\ Snap(p) \in Snapshots /\ Dev(p) \in Devices
         /\ \/ /\ Ends(p) /\ Todo(p) = {Dev(p)}
               /\ status' = [status EXCEPT ![Snap(p)] = "none"]
               /\ members' = [members EXCEPT ![Snap(p)] = <<>>]
            \/ /\ status' = status /\ members' = members
               /\ Moves(p, "cleanup", call'[p].todo, call[p].ok)
               /\ ToSet(call'[p].todo) = Todo(p) \ {Dev(p)}
<1>1. ~Idle(p) /\ call[p].at = "cleanup"
  BY DEF Cleanup, Idle
<1>2. /\ Snap(p) \in Snapshots /\ ListOK(call[p].todo, Snap(p)) /\ Dev(p) \in Devices
      /\ Len(call[p].todo) \in Nat \ {0}
      /\ Len(call[p].todo) = 1 => Todo(p) = {Dev(p)}
      /\ call[p].ok \in BOOLEAN
  BY <1>1, CallFacts, CallTypes DEF ControlInv, CallOK, Snap
<1>3. CASE Finished(p)
  <2>1. /\ Ends(p) /\ status' = [status EXCEPT ![Snap(p)] = "none"]
        /\ members' = [members EXCEPT ![Snap(p)] = <<>>]
        /\ listed' = RemoveFirst(listed, Snap(p))
    BY <1>3, ReturnsEnds DEF Cleanup
  <2>2. ControlTypes' /\ ControlInv'
    BY <1>1, <2>1, CleanupEndKeepsControl
  <2>3. QED
    BY <1>1, <1>2, <1>3, <2>1, <2>2 DEF Finished
<1>4. CASE ~Finished(p)
  <2>1. /\ Goto(p, "cleanup", Tail(call[p].todo)) /\ Len(call[p].todo) > 1
        /\ UNCHANGED snapshotVars
    <3>1. \A n \in Nat \ {0} : n # 1 => n > 1
      OBVIOUS
    <3>2. Len(call[p].todo) # 1
      BY <1>4 DEF Finished
    <3>3. Len(call[p].todo) > 1
      BY <1>2, <3>1, <3>2
    <3>4. QED
      BY <1>4, <3>3 DEF Cleanup
  <2>2. Continue(p, "cleanup", "cleanup")
    BY <1>1, <2>1 DEF Continue
  <2>3. Fits(p, "cleanup", call[p].ok)
    BY <1>1, <1>2 DEF Fits, CallStates, Building
  <2>4. ControlTypes' /\ ControlInv'
    BY <2>1, <2>2, <2>3, TurnKeepsControl DEF CallStates
  <2>5. /\ Tail(call[p].todo) \in Seq(Devices)
        /\ ToSet(Tail(call[p].todo)) = Todo(p) \ {Dev(p)}
    BY <1>2, <2>1, TailProperties DEF ListOK, Todo, Dev
  <2>6. Moves(p, "cleanup", Tail(call[p].todo), call[p].ok)
    BY <2>1, <2>5, GotoMoves DEF CallStates
  <2>7. call'[p].todo = Tail(call[p].todo)
    BY <2>6 DEF Moves
  <2>8. QED
    BY <1>1, <1>2, <2>1, <2>4, <2>5, <2>6, <2>7 DEF snapshotVars
<1>5. QED
  BY <1>3, <1>4

(* A call takes its next step: of all steps but the starts.                *)
LEMMA CallKeepsControl ==
  ASSUME ControlTypes, ControlInv, NEW p \in Processes, faults' = faults,
         \/ CreateAdd(p) \/ CreateCapture(p) \/ CreateCaptureFails(p) \/ CreateCheck(p)
         \/ CreateImage(p) \/ CreateImageSwallowed(p) \/ CreateImageFails(p)
         \/ CreateUnmake(p) \/ DestroyStop(p) \/ DestroyImages(p) \/ TakeBack(p)
  PROVE  ControlTypes' /\ ControlInv'
<1> USE DEF CallStates, Building
<1>1. ASSUME NEW at \in CallStates \ {"idle"}, NEW next \in CallStates, Continue(p, at, next),
             Fits(p, next, call[p].ok), UNCHANGED snapshotVars
      PROVE  ControlTypes' /\ ControlInv'
  BY <1>1, TurnKeepsControl
<1>2. call[p].at # "idle" => CallOK(call[p]) /\ call[p].ok \in BOOLEAN
  BY CallTypes DEF ControlInv, CallsInv, Idle
<1>3. CASE CreateAdd(p)
  <2>1. CASE Continue(p, "add", "capture")
    <3>1. Fits(p, "capture", call[p].ok)
      BY <1>2, <2>1 DEF Continue, Fits, CallOK
    <3>2. QED
      BY <1>1, <1>3, <2>1, <3>1 DEF CreateAdd
  <2>2. CASE call[p].at = "add" /\ Fail(p, "cleanup")
    BY <1>3, <2>2, FailKeepsControl DEF CreateAdd
  <2>3. QED
    BY <1>3, <2>1, <2>2 DEF CreateAdd
<1>4. CASE CreateCapture(p)
  <2>1. Continue(p, "capture", "check") /\ UNCHANGED snapshotVars
    BY <1>4 DEF CreateCapture
  <2>2. Fits(p, "check", call[p].ok)
    BY <1>2, <2>1 DEF Continue, Fits, CallOK
  <2>3. QED
    BY <1>1, <2>1, <2>2
<1>5. CASE CreateCaptureFails(p)
  BY <1>5, FailKeepsControl DEF CreateCaptureFails
<1>6. CASE CreateCheck(p)
  <2>1. CASE Fail(p, "release")
    BY <1>6, <2>1, FailKeepsControl DEF CreateCheck
  <2>2. CASE Goto(p, "image", All(p))
    <3>1. call[p].at = "check" /\ ~Idle(p)
      BY <1>6 DEF CreateCheck, Idle
    <3>2. All(p) \in Seq(Devices) /\ ListOK(All(p), Snap(p))
      BY <3>1, CallFacts DEF ControlInv
    <3>3. Moves(p, "image", All(p), call[p].ok)
      BY <2>2, <3>2, GotoMoves
    <3>4. Fits(p, "image", call[p].ok)
      BY <1>2, <3>1 DEF Fits, CallOK
    <3>5. QED
      BY <1>6, <3>1, <3>2, <3>3, <3>4, MovesKeepControl DEF CreateCheck
  <2>3. QED
    BY <1>6, <2>1, <2>2 DEF CreateCheck
<1>7. CASE CreateImage(p)
  BY <1>7, ImageMadeSteps DEF CreateImage
<1>8. CASE CreateImageSwallowed(p)
  BY <1>8, ImageMadeSteps DEF CreateImageSwallowed
<1>9. CASE CreateImageFails(p)
  <2>1. ~Idle(p) /\ "image" \in faults /\ call[p].at = "image" /\ UNCHANGED snapshotVars
    BY <1>9, UnmadeImages DEF CreateImageFails
  <2>2. CASE Fail(p, "release")
    BY <2>1, <2>2, FailKeepsControl
  <2>3. ASSUME NEW todo \in Seq(Devices), ListOK(todo, Snap(p)), Moves(p, "unmake", todo, FALSE)
        PROVE  ControlTypes' /\ ControlInv'
    <3>1. Fits(p, "unmake", FALSE)
      BY <2>1 DEF Fits
    <3>2. QED
      BY <2>1, <2>3, <3>1, MovesKeepControl
  <2>4. QED
    BY <1>9, <2>2, <2>3, UnmadeImages
<1>10. CASE CreateUnmake(p)
  <2>1. Continue(p, "unmake", "release") /\ UNCHANGED snapshotVars
    BY <1>10 DEF CreateUnmake
  <2>2. Fits(p, "release", call[p].ok)
    BY <1>2, <2>1 DEF Continue, Fits, CallOK
  <2>3. QED
    BY <1>1, <2>1, <2>2
<1>11. CASE DestroyStop(p)
  <2>1. Continue(p, "stop", "release") /\ UNCHANGED snapshotVars
    BY <1>11 DEF DestroyStop
  <2>2. Fits(p, "release", call[p].ok)
    BY <1>2, <2>1 DEF Continue, Fits, CallOK
  <2>3. QED
    BY <1>1, <2>1, <2>2
<1>12. CASE DestroyImages(p)
  <2>1. Continue(p, "destroy", "cleanup") /\ UNCHANGED snapshotVars
    BY <1>12 DEF DestroyImages
  <2>2. Fits(p, "cleanup", call[p].ok)
    BY <1>2, <2>1 DEF Continue, Fits, CallOK
  <2>3. QED
    BY <1>1, <2>1, <2>2
<1>13. CASE Release(p)
  <2>1. /\ Continue(p, "release", IF call[p].ok THEN "destroy" ELSE "cleanup")
        /\ UNCHANGED snapshotVars
    BY <1>13 DEF Release
  <2>2. Fits(p, IF call[p].ok THEN "destroy" ELSE "cleanup", call[p].ok)
    BY <1>2, <2>1 DEF Continue, Fits, CallOK
  <2>3. QED
    BY <1>1, <2>1, <2>2
<1>14. CASE ReleaseFails(p)
  BY <1>14, ReleaseFailsSteps
<1>15. CASE Cleanup(p)
  BY <1>15, CleanupSteps
<1>16. QED
  BY <1>3, <1>4, <1>5, <1>6, <1>7, <1>8, <1>9, <1>10, <1>11, <1>12, <1>13, <1>14, <1>15
  DEF TakeBack

(* What the callers avoid.                                                 *)
Careful == {"recapture", "readd", "race"} \subseteq Avoided

LEMMA ControlSame ==
  ASSUME ControlTypes, ControlInv, UNCHANGED <<snapshotVars, call, faults>>
  PROVE  ControlTypes' /\ ControlInv'
<1>1. /\ listed' = listed /\ members' = members /\ status' = status /\ call' = call
      /\ faults' = faults
  BY DEF snapshotVars
<1>2. ControlTypes'
  BY <1>1 DEF ControlTypes
<1>3. CallsInv'
  BY <1>1 DEF ControlInv, CallsInv, CallOK, ListOK, Idle, Snap, Members
<1>4. SnapshotsInv'
  BY <1>1 DEF ControlInv, SnapshotsInv, Idle, Snap, Members, Overlap
<1>5. ListedInv'
  BY <1>1 DEF ControlInv, ListedInv
<1>6. QED
  BY <1>2, <1>3, <1>4, <1>5 DEF ControlInv

LEMMA ControlStep ==
  ASSUME Careful, ControlTypes, ControlInv, [Next]_vars
  PROVE  ControlTypes' /\ ControlInv'
<1>1. CASE UNCHANGED vars
  BY <1>1, ControlSame DEF vars
<1>2. ASSUME NEW p \in Processes, Create(p) \/ Destroy(p) \/ TakeBack(p), faults' = faults
      PROVE  ControlTypes' /\ ControlInv'
  <2>1. ASSUME NEW devs \in Sets, CreateStart(p, devs) PROVE ControlTypes' /\ ControlInv'
    BY <1>2, <2>1, CreateStartKeepsControl DEF Careful
  <2>2. ASSUME NEW s \in Snapshots, DestroyStart(p, s) PROVE ControlTypes' /\ ControlInv'
    BY <1>2, <2>2, TakeKeepsControl DEF DestroyStart
  <2>3. CASE DestroyAllStart(p)
    <3>1. /\ Head(listed) \in Snapshots
          /\ status[Head(listed)] \notin {"none", "creating", "destroying"}
      BY <2>3, DestroyAllTakes DEF Careful
    <3>2. Idle(p) /\ TakeSnapshot(p, Head(listed), TRUE)
      BY <2>3 DEF DestroyAllStart
    <3>3. QED
      BY <1>2, <3>1, <3>2, TakeKeepsControl
  <2>4. QED
    BY <1>2, <2>1, <2>2, <2>3, CallKeepsControl DEF Create, Destroy
<1>3. ASSUME NEW p \in Processes, Tracking(p) \/ Store(p), faults' = faults
      PROVE  ControlTypes' /\ ControlInv'
  BY <1>3, ControlSame DEF Tracking, Store, TrackingAdd, TrackingRemove, StoreCleanup, StoreCreate
<1>4. ASSUME NEW d \in Devices, CbtFault(d), faults' = faults
      PROVE  ControlTypes' /\ ControlInv'
  BY <1>4, ControlSame DEF CbtFault
<1>5. QED
  BY <1>1, <1>2, <1>3, <1>4 DEF Next

-----------------------------------------------------------------------------
(* The trackers.                                                           *)

SameTracker(d) ==
  (d \in tracked' <=> d \in tracked) /\ snapshotId'[d] = snapshotId[d] /\ deferIo'[d] = deferIo[d]

(* A device is in one snapshot, and so is one that it overlaps.            *)
LEMMA OneSnapshot ==
  ASSUME SnapshotsInv, NEW s \in Snapshots, NEW t \in Snapshots,
         NEW d \in Members(s), NEW e \in Members(t), d = e \/ Overlap(d, e)
  PROVE  s = t
  BY DEF SnapshotsInv

(* A step of p for the snapshot s leaves the others as they are, if it     *)
(* leaves their devices as they are.                                       *)
LEMMA PhasesKept ==
  ASSUME ControlTypes, ControlInv, CapturedInv, ReleasedInv, faults' = faults, NEW p, NEW s,
         \A q \in Processes \ {p} : call'[q] = call[q] /\ (~Idle(q) => Snap(q) # s),
         \A t \in Snapshots \ {s} : status'[t] = status[t] /\ members'[t] = members[t],
         \A t \in Snapshots \ {s} : status[t] \in {"creating", "created", "destroying"} =>
           \A d \in Members(t) : SameTracker(d),
         s \in Snapshots => /\ status'[s] = "created" => \A d \in Members(s)' : Captured(d, s)'
                            /\ "release" \notin faults => status'[s] \notin {"partly", "lost"},
         p \in Processes => CallCaptured(p)' /\ ("release" \notin faults => CallReleased(p)')
  PROVE  /\ CapturedInv'
         /\ "release" \notin faults =>
              /\ \A t \in Snapshots : status'[t] \notin {"partly", "lost"}
              /\ \A q \in Processes : CallReleased(q)'
<1>1. \A t \in Snapshots \ {s} : Members(t)' = Members(t)
  BY DEF Members
<1>2. CreatedInv'
  <2>1. ASSUME NEW t \in Snapshots \ {s}, status'[t] = "created", NEW d \in Members(t)
        PROVE  Captured(d, t)'
    BY <2>1 DEF CapturedInv, CreatedInv, Captured, SameTracker
  <2>2. QED
    BY <1>1, <2>1 DEF CreatedInv
<1>3. ASSUME NEW q \in Processes \ {p}
      PROVE  CallCaptured(q)' /\ ("release" \notin faults => CallReleased(q)')
  <2>1. call'[q] = call[q] /\ Snap(q)' = Snap(q) /\ Todo(q)' = Todo(q)
    BY DEF Snap, Todo
  <2>2. CASE Idle(q)
    BY <2>1, <2>2 DEF Idle, CallCaptured, CallReleased
  <2>3. CASE ~Idle(q)
    <3>1. Snap(q) \in Snapshots \ {s} /\ status[Snap(q)] \in {"creating", "destroying"}
      BY <2>3 DEF ControlInv, CallsInv, CallOK, Snap
    <3>2. members'[Snap(q)] = members[Snap(q)]
      BY <3>1
    <3>3. Members(Snap(q))' = Members(Snap(q)) /\ Done(q)' = Done(q)
      BY <2>1, <3>2 DEF Members, Done
    <3>4. \A d \in Members(Snap(q)) : SameTracker(d)
      BY <3>1
    <3>5. \A d \in Done(q) : d \in Members(Snap(q))
      BY DEF Done
    <3>6. CallCaptured(q) /\ ("release" \notin faults => CallReleased(q))
      BY DEF CapturedInv, ReleasedInv
    <3>7. CallCaptured(q)'
      BY <2>1, <3>3, <3>4, <3>5, <3>6 DEF CallCaptured, Numbered, Captured, SameTracker
    <3>8. "release" \notin faults => CallReleased(q)'
      BY <2>1, <3>3, <3>4, <3>5, <3>6 DEF CallReleased, Free, SameTracker
    <3>9. QED
      BY <3>7, <3>8
  <2>4. QED
    BY <2>2, <2>3
<1>4. "release" \notin faults => \A t \in Snapshots : status'[t] \notin {"partly", "lost"}
  BY DEF ReleasedInv
<1>5. QED
  BY <1>2, <1>3, <1>4 DEF CapturedInv

(* What a step leaves alone of the trackers stays true of it.              *)
LEMMA TrackedKept ==
  ASSUME TrackerTypes, TrackedInv, TrackersAreDisjoint, ReleasedInv,
         UNCHANGED <<tracked, snapshotId, deferIo, running>>, faulty' \subseteq tracked,
         \A d \in Devices : \A s \in Snapshots :
           snapshotId[d] = s /\ d \in Members(s) => d \in Members(s)',
         "release" \notin faults => \A d \in Devices : ~Free(d) /\ InSome(d) => InSome(d)'
  PROVE  /\ TrackerTypes' /\ TrackedInv' /\ TrackersAreDisjoint'
         /\ "release" \notin faults => FreeInv'
<1>1. TrackerTypes' /\ TrackersAreDisjoint'
  BY DEF TrackerTypes, TrackersAreDisjoint, Overlap
<1>2. TrackedInv'
  BY NoneIsOut DEF TrackerTypes, TrackedInv
<1>3. "release" \notin faults => FreeInv'
  BY DEF ReleasedInv, FreeInv, Free
<1>4. QED
  BY <1>1, <1>2, <1>3

(* The trackers old are removed for d, the others left alone.              *)
RemovedFor(d, old) ==
  /\ old \subseteq tracked
  /\ \A e \in old : e = d \/ Overlap(d, e)
  /\ \A e \in Devices \ {d} :
       IF e \in old THEN e \notin tracked' /\ deferIo'[e] = None ELSE SameTracker(e)
  /\ \A e \in Devices : deferIo'[e] = deferIo[e] \/ (deferIo'[e] = None /\ e \in old)

(* tracking_add: what it removes, what it leaves, and the tracker of d.    *)
LEMMA AddEffect ==
  ASSUME TrackerTypes, TrackedInv, TrackersAreDisjoint, NEW d \in Devices,
         NEW id \in Snapshots \cup {None}, id # None => d \in Members(id),
         AddTracker(d, id) \/ AddTrackerFails(d), running' = running, members' = members
  PROVE  /\ TrackerTypes' /\ TrackedInv' /\ TrackersAreDisjoint'
         /\ d \in tracked' => /\ snapshotId'[d] \in {id, snapshotId[d]}
                              /\ snapshotId'[d] = None => id = None
         /\ \E old \in SUBSET tracked : RemovedFor(d, old)
<1>1. PICK old \in Replaced(d) :
        \/ /\ d \in tracked \ old
           /\ snapshotId' = IF id # None /\ snapshotId[d] = None
                            THEN [snapshotId EXCEPT ![d] = id]
                            ELSE snapshotId
           /\ tracked' = tracked /\ deferIo' = deferIo /\ faulty' = faulty
        \/ d \notin tracked \ old /\ Replace(old, {d}, id)
        \/ d \notin tracked \ old /\ Replace(old, {}, None)
        \/ d \notin tracked /\ UNCHANGED trackerVars
  BY DEF AddTracker, AddTrackerFails, Replaced
<1>2. /\ old \in SUBSET tracked
      /\ \A e \in old : e = d \/ (d \notin tracked /\ Overlap(d, e))
      /\ d \notin tracked =>
           \/ old = {} /\ \A e \in tracked : ~Overlap(d, e)
           \/ \E e \in tracked : Overlap(d, e) /\ old = {e}
      /\ tracked \subseteq Devices
  BY DEF Replaced, TrackerTypes
<1>3. CASE /\ d \in tracked \ old
           /\ snapshotId' = IF id # None /\ snapshotId[d] = None
                            THEN [snapshotId EXCEPT ![d] = id]
                            ELSE snapshotId
           /\ tracked' = tracked /\ deferIo' = deferIo /\ faulty' = faulty
  <2>1. /\ snapshotId' \in [Devices -> Snapshots \cup {None}]
        /\ \A e \in Devices \ {d} : snapshotId'[e] = snapshotId[e]
        /\ snapshotId'[d] = IF id # None /\ snapshotId[d] = None THEN id ELSE snapshotId[d]
    BY <1>3 DEF TrackerTypes
  <2>2. TrackerTypes' /\ TrackersAreDisjoint'
    BY <1>3, <2>1 DEF TrackerTypes, TrackersAreDisjoint, Overlap
  <2>3. TrackedInv'
    BY <1>3, <2>1 DEF TrackedInv, Members
  <2>4. \A e \in Devices \ {d} : SameTracker(e)
    BY <1>3, <2>1 DEF SameTracker
  <2>5. /\ snapshotId'[d] \in {id, snapshotId[d]}
        /\ snapshotId'[d] = None => id = None
    BY <2>1
  <2>6. RemovedFor(d, {})
    BY <1>3, <2>4 DEF RemovedFor
  <2>7. QED
    BY <2>2, <2>3, <2>5, <2>6
<1>4. ASSUME NEW new \in {{}, {d}}, NEW num \in {None, id}, new = {d} => num = id,
             d \notin tracked \ old, Replace(old, new, num)
      PROVE  /\ TrackerTypes' /\ TrackedInv' /\ TrackersAreDisjoint'
             /\ d \in tracked' => snapshotId'[d] = id
             /\ RemovedFor(d, old)
  <2>1. /\ tracked' = (tracked \ old) \cup new
        /\ \A e \in Devices : /\ snapshotId'[e] = IF e \in new THEN num ELSE
                                                  IF e \in old THEN None ELSE snapshotId[e]
                              /\ deferIo'[e] = IF e \in old THEN None ELSE deferIo[e]
        /\ faulty' = faulty \ old
        /\ snapshotId' \in [Devices -> Snapshots \cup {None}]
        /\ deferIo' \in [Devices -> Defers \cup {None}]
    BY <1>4 DEF Replace, TrackerTypes
  <2>2. TrackerTypes'
    BY <1>2, <1>4, <2>1 DEF TrackerTypes
  <2>3. TrackersAreDisjoint'
    <3>1. ASSUME NEW a \in tracked', NEW b \in tracked', Overlap(a, b)
          PROVE  \E f \in Devices \ {a, b} : Overlap(a, f) \/ Overlap(b, f)
      <4>1. a # b /\ a \in Devices /\ b \in Devices /\ Overlap(b, a)
        <5>1. {a, b} = {b, a}
          OBVIOUS
        <5>2. QED
          BY <1>2, <1>4, <2>1, <3>1, <5>1 DEF Overlap
      <4>2. CASE a \in tracked /\ b \in tracked
        BY <3>1, <4>2 DEF TrackersAreDisjoint
      <4>3. CASE a = d /\ d \notin tracked
        <5>1. b \in tracked \ old
          BY <1>4, <2>1, <4>1, <4>3
        <5>2. PICK e \in tracked : Overlap(d, e) /\ old = {e}
          BY <1>2, <3>1, <4>3, <5>1
        <5>3. e \in Devices \ {a, b}
          BY <1>2, <4>3, <5>1, <5>2
        <5>4. QED
          BY <4>3, <5>2, <5>3
      <4>4. CASE b = d /\ d \notin tracked
        <5>1. a \in tracked \ old
          BY <1>4, <2>1, <4>1, <4>4
        <5>2. PICK e \in tracked : Overlap(d, e) /\ old = {e}
          BY <1>2, <4>1, <4>4, <5>1
        <5>3. e \in Devices \ {a, b}
          BY <1>2, <4>4, <5>1, <5>2
        <5>4. QED
          BY <4>4, <5>2, <5>3
      <4>5. QED
        BY <1>4, <2>1, <4>2, <4>3, <4>4
    <3>2. QED
      BY <3>1 DEF TrackersAreDisjoint, Overlap
  <2>4. ASSUME NEW e \in Devices
        PROVE  /\ snapshotId'[e] # None => e \in tracked' /\ e \in Members(snapshotId'[e])
               /\ deferIo'[e] # None => e \in tracked' /\ deferIo'[e] \in running
    BY <1>4, <2>1 DEF TrackedInv
  <2>5. TrackedInv'
    BY <2>1, <2>4 DEF TrackedInv, Members
  <2>6. d \in tracked' => snapshotId'[d] = id
    BY <1>4, <2>1
  <2>7. \A e \in Devices \ {d} :
          IF e \in old THEN e \notin tracked' /\ deferIo'[e] = None ELSE SameTracker(e)
    BY <1>4, <2>1 DEF SameTracker
  <2>8. RemovedFor(d, old)
    BY <1>2, <2>1, <2>7 DEF RemovedFor
  <2>9. QED
    BY <2>2, <2>3, <2>5, <2>6, <2>8
<1>5. CASE d \notin tracked \ old /\ Replace(old, {d}, id)
  BY <1>2, <1>4, <1>5
<1>6. CASE d \notin tracked \ old /\ Replace(old, {}, None)
  BY <1>2, <1>4, <1>6
<1>7. CASE d \notin tracked /\ UNCHANGED trackerVars
  <2>1. UNCHANGED <<tracked, snapshotId, deferIo, faulty>>
    BY <1>7 DEF trackerVars
  <2>2. TrackerTypes' /\ TrackedInv' /\ TrackersAreDisjoint'
    BY <2>1 DEF TrackerTypes, TrackedInv, TrackersAreDisjoint, Members
  <2>3. RemovedFor(d, {})
    BY <2>1 DEF RemovedFor, SameTracker
  <2>4. QED
    BY <1>7, <2>1, <2>2, <2>3
<1>8. QED
  BY <1>1, <1>3, <1>5, <1>6, <1>7

Settled ==
  ControlTypes /\ ControlInv /\ TrackerTypes /\ TrackersInv /\ running \subseteq Defers

(* A call goes on or ends, and the trackers stay as they are.              *)
LEMMA CallKeepsTrackers ==
  ASSUME Settled, faults' = faults, NEW p \in Processes, NEW s \in Snapshots,
         UNCHANGED <<trackerVars, running, members>>,
         \A q \in Processes \ {p} : call'[q] = call[q] /\ (~Idle(q) => Snap(q) # s),
         \A t \in Snapshots \ {s} : status'[t] = status[t],
         status'[s] = "created" => \A d \in Members(s) : Captured(d, s),
         "release" \notin faults => status'[s] \notin {"partly", "lost"},
         CallCaptured(p)', "release" \notin faults => CallReleased(p)'
  PROVE  TrackerTypes' /\ TrackersInv'
<1> USE DEF Settled, TrackersInv
<1>1. /\ tracked' = tracked /\ snapshotId' = snapshotId /\ deferIo' = deferIo
      /\ faulty' = faulty /\ running' = running /\ members' = members
  BY DEF trackerVars
<1>2. /\ \A t \in Snapshots : Members(t)' = Members(t)
      /\ \A d \in Devices : SameTracker(d) /\ InSome(d)' = InSome(d)
      /\ \A t \in Snapshots : \A d : Captured(d, t)' = Captured(d, t)
  BY <1>1 DEF Members, SameTracker, InSome, Captured
<1>3. \A t \in Snapshots : Members(t) \subseteq Devices
  BY MembersAreDevices
<1>4. /\ TrackerTypes' /\ TrackedInv' /\ TrackersAreDisjoint'
      /\ "release" \notin faults => FreeInv'
  BY <1>1, <1>2, TrackedKept DEF TrackerTypes
<1>5. /\ CapturedInv'
      /\ "release" \notin faults =>
           /\ \A t \in Snapshots : status'[t] \notin {"partly", "lost"}
           /\ \A q \in Processes : CallReleased(q)'
  <2>1. \A t \in Snapshots : \A d \in Members(t) : SameTracker(d)
    BY <1>2, <1>3
  <2>2. status'[s] = "created" => \A d \in Members(s)' : Captured(d, s)'
    BY <1>2
  <2>3. QED
    BY <1>1, <2>1, <2>2, PhasesKept
<1>6. QED
  BY <1>4, <1>5 DEF ReleasedInv

(* No other call has the snapshot of a call.                               *)
LEMMA OwnSnapshot ==
  ASSUME ControlInv, NEW p \in Processes, ~Idle(p)
  PROVE  /\ Snap(p) \in Snapshots
         /\ \A q \in Processes \ {p} : ~Idle(q) => Snap(q) # Snap(p)
  BY DEF ControlInv, CallsInv, CallOK, Snap

(* A call begins the loop at over its list, for the same snapshot.         *)
LEMMA AllToDo ==
  ASSUME NEW p \in Processes, NEW at, NEW ok, Moves(p, at, All(p), ok), members' = members
  PROVE  /\ call'[p].at = at /\ Snap(p)' = Snap(p) /\ Done(p)' = {}
         /\ Members(Snap(p))' = Members(Snap(p))
<1>1. call'[p].at = at /\ Snap(p)' = Snap(p) /\ Todo(p)' = Members(Snap(p))
  BY DEF Moves, Snap, Todo, Members, All
<1>2. Members(Snap(p))' = Members(Snap(p))
  BY <1>1 DEF Members
<1>3. QED
  BY <1>1, <1>2 DEF Done

(* A failed call undoes, and its trackers are as they were.                *)
LEMMA FailKeepsTrackers ==
  ASSUME Settled, faults' = faults, NEW p \in Processes, call[p].at \in Building,
         Fail(p, "release"), UNCHANGED <<trackerVars, running, snapshotVars>>
  PROVE  TrackerTypes' /\ TrackersInv'
<1>1. ~Idle(p) /\ Moves(p, "release", All(p), FALSE)
  BY FailKeepsControl DEF Settled
<1>2. members' = members /\ status' = status
  BY DEF snapshotVars
<1>3. Snap(p) \in Snapshots /\ \A q \in Processes \ {p} : ~Idle(q) => Snap(q) # Snap(p)
  BY <1>1, OwnSnapshot DEF Settled
<1>4. status[Snap(p)] = "creating"
  BY <1>1 DEF Settled, ControlInv, CallsInv, CallOK, Snap
<1>5. CallCaptured(p)' /\ CallReleased(p)'
  <2>1. call'[p].at = "release" /\ Done(p)' = {}
    BY <1>1, <1>2, AllToDo
  <2>2. QED
    BY <2>1 DEF CallCaptured, CallReleased
<1>6. QED
  BY <1>1, <1>2, <1>3, <1>4, <1>5, CallKeepsTrackers DEF Moves

(* A turn is over: one device more is done, or the next loop begins.       *)
LEMMA TurnDone ==
  ASSUME NEW p \in Processes, NEW at, NEW next, Turn(p, at, next), members' = members
  PROVE  /\ Snap(p)' = Snap(p) /\ Members(Snap(p))' = Members(Snap(p))
         /\ \/ call'[p].at = at /\ Done(p)' = Done(p) \cup {Dev(p)}
            \/ /\ call'[p].at = next /\ Done(p)' = {}
               /\ Members(Snap(p)) = Done(p) \cup {Dev(p)}
<1>1. /\ Snap(p)' = Snap(p) /\ Todo(p)' = ToSet(call'[p].todo)
      /\ Dev(p) \in Members(Snap(p))
  BY DEF Turn, Moves, Snap, Todo
<1>2. Members(Snap(p))' = Members(Snap(p))
  BY <1>1 DEF Members
<1>3. CASE call'[p].at = at /\ ToSet(call'[p].todo) = Todo(p) \ {Dev(p)}
  BY <1>1, <1>2, <1>3 DEF Done
<1>4. CASE /\ call'[p].at = next /\ ToSet(call'[p].todo) = Members(Snap(p))
           /\ Todo(p) = {Dev(p)}
  BY <1>1, <1>2, <1>4 DEF Done
<1>5. QED
  BY <1>1, <1>2, <1>3, <1>4 DEF Turn

(* A loop over images, which are no matter of the trackers.                *)
LEMMA TurnKeepsTrackers ==
  ASSUME Settled, faults' = faults, NEW p \in Processes, NEW at, NEW next,
         \/ at = "unmake" /\ next = "release"
         \/ at = "stop" /\ next = "release"
         \/ at = "destroy" /\ next = "cleanup",
         Continue(p, at, next), UNCHANGED <<trackerVars, running, snapshotVars>>
  PROVE  TrackerTypes' /\ TrackersInv'
<1>1. at \in CallStates \ {"idle"} /\ next \in CallStates
  BY DEF CallStates
<1>2. ~Idle(p) /\ Turn(p, at, next) /\ call[p].at = at
  BY <1>1, LoopStep DEF Settled, ControlInv, Turn
<1>3. members' = members /\ status' = status
  BY DEF snapshotVars
<1>4. Snap(p) \in Snapshots /\ \A q \in Processes \ {p} : ~Idle(q) => Snap(q) # Snap(p)
  BY <1>2, OwnSnapshot DEF Settled
<1>5. status[Snap(p)] \in {"creating", "destroying"}
  BY <1>2 DEF Settled, ControlInv, CallsInv, CallOK, Snap
<1>6. /\ Snap(p)' = Snap(p) /\ Members(Snap(p))' = Members(Snap(p))
      /\ \/ call'[p].at = at /\ Done(p)' = Done(p) \cup {Dev(p)}
         \/ call'[p].at = next /\ Done(p)' = {}
  BY <1>2, <1>3, TurnDone
<1>7. CallCaptured(p)'
  BY <1>6 DEF CallCaptured
<1>8. "release" \notin faults => CallReleased(p)'
  <2>1. ASSUME "release" \notin faults, NEW d \in Members(Snap(p)), at = "destroy"
        PROVE  Free(d)'
    BY <1>2, <2>1 DEF Settled, TrackersInv, ReleasedInv, CallReleased, Free, trackerVars
  <2>2. QED
    BY <1>6, <2>1 DEF CallReleased
<1>9. QED
  BY <1>2, <1>3, <1>4, <1>5, <1>7, <1>8, CallKeepsTrackers DEF Turn, Moves

(* The other steps of the making for which the trackers stay.              *)
LEMMA MakingKeepsTrackers ==
  ASSUME Settled, faults' = faults, NEW p \in Processes,
         \/ CreateCaptureFails(p) \/ CreateCheck(p)
         \/ CreateImage(p) \/ CreateImageSwallowed(p) \/ CreateImageFails(p)
  PROVE  TrackerTypes' /\ TrackersInv'
<1>1. /\ call[p].at \in {"capture", "check", "image"} /\ ~Idle(p)
      /\ UNCHANGED <<trackerVars, running, members>>
  BY DEF CreateCaptureFails, CreateCheck, CreateImage, CreateImageSwallowed, CreateImageFails,
         ImageMade, heapVars, snapshotVars, Idle
<1>2. Snap(p) \in Snapshots /\ \A q \in Processes \ {p} : ~Idle(q) => Snap(q) # Snap(p)
  BY <1>1, OwnSnapshot DEF Settled
<1>3. status[Snap(p)] = "creating"
  BY <1>1 DEF Settled, ControlInv, CallsInv, CallOK, Snap, Building
<1>4. call[p].at \in {"check", "image"} => \A d \in Members(Snap(p)) : Captured(d, Snap(p))
  BY DEF Settled, TrackersInv, CapturedInv, CallCaptured
<1>5. ASSUME NEW d PROVE Captured(d, Snap(p)) /\ Snap(p)' = Snap(p) => Captured(d, Snap(p))'
  BY <1>1 DEF Captured, trackerVars
<1>6. CASE Fail(p, "release") /\ UNCHANGED snapshotVars
  BY <1>1, <1>6, FailKeepsTrackers DEF Building
<1>7. CASE CreateCheck(p) /\ Goto(p, "image", All(p))
  <2>1. All(p) \in Seq(Devices) /\ call[p].at = "check" /\ status' = status
    BY <1>1, <1>7, CallFacts DEF Settled, ControlInv, CreateCheck, snapshotVars
  <2>2. Moves(p, "image", All(p), call[p].ok)
    BY <1>7, <2>1, GotoMoves DEF Settled, CallStates
  <2>3. /\ call'[p].at = "image" /\ Snap(p)' = Snap(p)
        /\ Members(Snap(p))' = Members(Snap(p))
    BY <1>1, <2>2, AllToDo
  <2>4. CallCaptured(p)' /\ CallReleased(p)'
    BY <1>4, <1>5, <2>1, <2>3 DEF CallCaptured, CallReleased
  <2>5. QED
    BY <1>1, <1>2, <1>3, <2>1, <2>2, <2>4, CallKeepsTrackers DEF Moves
<1>8. CASE call[p].at = "image" /\ ImageMade(p)
  <2>1. \/ Ends(p) /\ status' = [status EXCEPT ![Snap(p)] = "created"]
        \/ status' = status /\ Moves(p, "image", call'[p].todo, call[p].ok)
    BY <1>8, ImageMadeSteps DEF Settled
  <2>2. CASE Ends(p) /\ status' = [status EXCEPT ![Snap(p)] = "created"]
    <3>1. call'[p].at = "idle" /\ \A q \in Processes \ {p} : call'[q] = call[q]
      BY <2>2 DEF Ends
    <3>2. CallCaptured(p)' /\ CallReleased(p)'
      BY <3>1 DEF CallCaptured, CallReleased
    <3>3. status \in [Snapshots -> Statuses]
      BY DEF Settled, ControlTypes
    <3>4. /\ status'[Snap(p)] = "created"
          /\ \A t \in Snapshots \ {Snap(p)} : status'[t] = status[t]
      BY <1>2, <2>2, <3>3
    <3>5. QED
      BY <1>1, <1>2, <1>4, <1>8, <3>1, <3>2, <3>4, CallKeepsTrackers
  <2>3. CASE status' = status /\ Moves(p, "image", call'[p].todo, call[p].ok)
    <3>1. call'[p].at = "image" /\ Snap(p)' = Snap(p)
      BY <2>3 DEF Moves, Snap
    <3>2. Members(Snap(p))' = Members(Snap(p))
      BY <1>1, <3>1 DEF Members
    <3>3. CallCaptured(p)' /\ CallReleased(p)'
      BY <1>4, <1>5, <1>8, <3>1, <3>2 DEF CallCaptured, CallReleased
    <3>4. QED
      BY <1>1, <1>2, <1>3, <2>3, <3>3, CallKeepsTrackers DEF Moves
  <2>4. QED
    BY <2>1, <2>2, <2>3
<1>9. ASSUME CreateImageFails(p), NEW todo \in Seq(Devices), Moves(p, "unmake", todo, FALSE)
      PROVE  TrackerTypes' /\ TrackersInv'
  <2>1. call'[p].at = "unmake" /\ status' = status
    BY <1>9 DEF Moves, CreateImageFails, snapshotVars
  <2>2. CallCaptured(p)' /\ CallReleased(p)'
    BY <2>1 DEF CallCaptured, CallReleased
  <2>3. QED
    BY <1>1, <1>2, <1>3, <1>9, <2>1, <2>2, CallKeepsTrackers DEF Moves
<1>10. QED
  <2>1. CASE CreateCaptureFails(p)
    BY <1>6, <2>1 DEF CreateCaptureFails
  <2>2. CASE CreateCheck(p)
    BY <1>6, <1>7, <2>2 DEF CreateCheck
  <2>3. CASE CreateImage(p) \/ CreateImageSwallowed(p)
    BY <1>8, <2>3 DEF CreateImage, CreateImageSwallowed
  <2>4. CASE CreateImageFails(p)
    BY <1>6, <1>9, <2>4, UnmadeImages DEF Settled, CreateImageFails
  <2>5. QED
    BY <2>1, <2>2, <2>3, <2>4

(* A destruction starts.                                                   *)
LEMMA TakeKeepsTrackers ==
  ASSUME Settled, faults' = faults, NEW p \in Processes, Idle(p),
         NEW s \in Snapshots, status[s] \notin {"none", "creating", "destroying"},
         NEW all \in BOOLEAN, TakeSnapshot(p, s, all)
  PROVE  TrackerTypes' /\ TrackersInv'
<1>1. /\ members' = members /\ UNCHANGED <<trackerVars, running>>
      /\ status' = [status EXCEPT ![s] = "destroying"]
      /\ call' = [call EXCEPT ![p] = [at |-> "stop", snapshot |-> s, todo |-> members[s],
                                      all |-> all, ok |-> TRUE]]
  BY DEF TakeSnapshot, heapVars
<1>2. /\ status'[s] = "destroying" /\ \A t \in Snapshots \ {s} : status'[t] = status[t]
      /\ call'[p].at = "stop" /\ \A q \in Processes \ {p} : call'[q] = call[q]
  BY <1>1 DEF Settled, ControlTypes
<1>3. \A q \in Processes : ~Idle(q) => Snap(q) # s
  <2>1. \A q \in Processes : ~Idle(q) => status[Snap(q)] \in {"creating", "destroying"}
    BY DEF Settled, ControlInv, CallsInv, CallOK, Snap
  <2>2. QED
    BY <2>1
<1>4. CallCaptured(p)' /\ CallReleased(p)'
  BY <1>2 DEF CallCaptured, CallReleased
<1>5. QED
  BY <1>1, <1>2, <1>3, <1>4, CallKeepsTrackers

(* A snapshot of devices that are in none starts.                          *)
LEMMA CreateStartKeepsTrackers ==
  ASSUME Careful, Settled, faults' = faults, NEW p \in Processes,
         NEW devs \in Sets, CreateStart(p, devs)
  PROVE  TrackerTypes' /\ TrackersInv'
<1> USE DEF Settled, TrackersInv
<1>1. /\ Idle(p) /\ NoRecapture(ToSet(devs))
      /\ UNCHANGED <<tracked, snapshotId, deferIo, faulty, running>>
  BY DEF CreateStart, trackerVars, heapVars
<1>2. PICK s \in Snapshots :
        /\ status[s] = "none"
        /\ status' = [status EXCEPT ![s] = "creating"]
        /\ members' = [members EXCEPT ![s] = devs]
        /\ call' = [call EXCEPT ![p] = [at |-> "add", snapshot |-> s, todo |-> devs,
                                        all |-> FALSE, ok |-> TRUE]]
  BY DEF CreateStart
<1>3. devs \in Seq(Devices) /\ ToSet(devs) \subseteq Devices
  <2>1. devs \in Seq(Devices)
    BY LifecycleAssumption
  <2>2. QED
    BY <2>1, ElementOfSeq, LenProperties DEF ToSet
<1>4. /\ status'[s] = "creating" /\ members'[s] = devs
      /\ \A t \in Snapshots \ {s} : status'[t] = status[t] /\ members'[t] = members[t]
      /\ call'[p].at = "add" /\ call'[p].snapshot = s /\ call'[p].todo = devs
      /\ \A q \in Processes \ {p} : call'[q] = call[q]
  BY <1>2 DEF ControlTypes
<1>5. /\ Members(s)' = ToSet(devs) /\ \A t \in Snapshots \ {s} : Members(t)' = Members(t)
      /\ Snap(p)' = s /\ Done(p)' = {}
  BY <1>4 DEF Members, Snap, Done, Todo
<1>6. Members(s) = {}
  <2>1. members[s] = <<>>
    BY <1>2 DEF ControlInv, SnapshotsInv
  <2>2. QED
    BY <2>1, LenProperties, EmptySeq DEF Members, ToSet
<1>7. \A q \in Processes : ~Idle(q) => Snap(q) # s
  <2>1. \A q \in Processes : ~Idle(q) => status[Snap(q)] \in {"creating", "destroying"}
    BY DEF ControlInv, CallsInv, CallOK, Snap
  <2>2. QED
    BY <1>2, <2>1
<1>8. \A d \in Devices : InSome(d) => InSome(d)'
  BY <1>5, <1>6 DEF InSome
<1>9. /\ TrackerTypes' /\ TrackedInv' /\ TrackersAreDisjoint'
      /\ "release" \notin faults => FreeInv'
  <2>1. \A d \in Devices : \A t \in Snapshots : d \in Members(t) => d \in Members(t)'
    BY <1>5, <1>6
  <2>2. faulty' \subseteq tracked
    BY <1>1 DEF TrackerTypes
  <2>3. QED
    BY <1>1, <1>8, <2>1, <2>2, TrackedKept
<1>10. CallCaptured(p)'
  BY <1>4, <1>5 DEF CallCaptured
<1>11. "release" \notin faults => CallReleased(p)'
  <2>1. ASSUME "release" \notin faults, NEW d \in ToSet(devs) PROVE Free(d)'
    <3>1. ~InSome(d)
      BY <1>1, InSnapshotMembers DEF Careful, NoRecapture, ControlInv, InSome
    <3>2. Free(d)
      BY <1>3, <2>1, <3>1 DEF ReleasedInv, FreeInv
    <3>3. QED
      BY <1>1, <3>2 DEF Free
  <2>2. QED
    BY <1>4, <1>5, <2>1 DEF CallReleased
<1>12. /\ CapturedInv'
       /\ "release" \notin faults =>
            /\ \A t \in Snapshots : status'[t] \notin {"partly", "lost"}
            /\ \A q \in Processes : CallReleased(q)'
  <2>1. \A t \in Snapshots : \A d \in Members(t) : SameTracker(d)
    BY <1>1 DEF SameTracker
  <2>2. status'[s] # "created" /\ status'[s] \notin {"partly", "lost"}
    BY <1>4
  <2>3. /\ \A q \in Processes \ {p} : call'[q] = call[q] /\ (~Idle(q) => Snap(q) # s)
        /\ \A t \in Snapshots \ {s} : status'[t] = status[t] /\ members'[t] = members[t]
        /\ p \in Processes => CallCaptured(p)' /\ ("release" \notin faults => CallReleased(p)')
    BY <1>4, <1>7, <1>10, <1>11
  <2>4. QED
    BY <2>1, <2>2, <2>3, PhasesKept
<1>13. QED
  BY <1>9, <1>12 DEF ReleasedInv

(* A tracker is made or renewed for a device of the snapshot.              *)
LEMMA CreateAddKeepsTrackers ==
  ASSUME Settled, faults' = faults, NEW p \in Processes, CreateAdd(p)
  PROVE  TrackerTypes' /\ TrackersInv'
<1> USE DEF Settled, TrackersInv
<1> DEFINE d == Dev(p)
           s == Snap(p)
<1>1. /\ call[p].at = "add" /\ ~Idle(p) /\ members' = members /\ status' = status
      /\ running' = running
  BY DEF CreateAdd, Continue, Idle, snapshotVars, heapVars
<1>2. /\ s \in Snapshots /\ d \in Devices /\ d \in Members(s) /\ status[s] = "creating"
      /\ \A q \in Processes \ {p} : ~Idle(q) => Snap(q) # s
  BY <1>1, CallFacts, OwnSnapshot DEF ControlInv, CallOK, Building, Snap
<1>3. AddTracker(d, s) \/ AddTrackerFails(d)
  BY DEF CreateAdd
<1> HIDE DEF d, s
<1>4. /\ TrackerTypes' /\ TrackedInv' /\ TrackersAreDisjoint'
      /\ d \in tracked' => /\ snapshotId'[d] \in {s, snapshotId[d]}
                           /\ snapshotId'[d] = None => s = None
      /\ \E old \in SUBSET tracked : RemovedFor(d, old)
  BY <1>1, <1>2, <1>3, AddEffect
<1>5. PICK old \in SUBSET tracked : RemovedFor(d, old)
  BY <1>4
<1>6. \A t \in Snapshots : Members(t)' = Members(t) /\ Members(t) \subseteq Devices
  BY <1>1, MembersAreDevices DEF Members
<1>7. ASSUME NEW t \in Snapshots, NEW e \in Members(t), e \in old \cup {d}
      PROVE  t = s
  BY <1>2, <1>5, <1>7, OneSnapshot DEF RemovedFor, ControlInv
<1>8. ASSUME NEW t \in Snapshots \ {s}, NEW e \in Members(t)
      PROVE  SameTracker(e)
  BY <1>5, <1>6, <1>7 DEF RemovedFor
<1>9. d \in tracked' => snapshotId'[d] = s
  <2>1. ASSUME d \in tracked' PROVE snapshotId'[d] = s
    <3>1. CASE snapshotId'[d] = s
      BY <3>1
    <3>2. CASE snapshotId'[d] = snapshotId[d]
      <4>1. snapshotId[d] \in Snapshots /\ d \in Members(snapshotId[d])
        BY <1>2, <1>4, <2>1, <3>2, NoneIsOut DEF TrackedInv, TrackerTypes
      <4>2. QED
        BY <1>7, <3>2, <4>1
    <3>3. QED
      BY <1>4, <2>1, <3>1, <3>2
  <2>2. QED
    BY <2>1
<1>10. ASSUME NEW e \in Members(s), e # d, Numbered(e, s)
       PROVE  e \in tracked' => snapshotId'[e] = s
  BY <1>2, <1>5, <1>6, <1>10 DEF RemovedFor, SameTracker, Numbered
<1>11. ASSUME NEW e \in Members(s), Free(e) PROVE deferIo'[e] = None
  BY <1>2, <1>5, <1>6, <1>11 DEF RemovedFor, Free
<1>12. "release" \notin faults => FreeInv'
  <2>1. ASSUME "release" \notin faults PROVE \A e \in Devices : deferIo'[e] # None => InSome(e)'
    BY <1>5, <1>6, <2>1 DEF RemovedFor, ReleasedInv, FreeInv, Free, InSome
  <2>2. ASSUME "release" \notin faults, NEW x \in running PROVE \E e \in Devices : deferIo'[e] = x
    <3>1. PICK e \in Devices : deferIo[e] = x
      BY <2>2 DEF ReleasedInv, FreeInv
    <3>2. x # None
      BY <2>2, NoneIsOut
    <3>3. e \notin old
      <4>1. SUFFICES ASSUME e \in old PROVE FALSE
        OBVIOUS
      <4>2. PICK t \in Snapshots : e \in Members(t)
        BY <2>2, <3>1, <3>2 DEF ReleasedInv, FreeInv, Free, InSome
      <4>3. e \in Members(s)
        BY <1>7, <4>1, <4>2
      <4>4. Free(e)
        BY <1>1, <2>2, <4>3 DEF ReleasedInv, CallReleased, s
      <4>5. QED
        BY <3>1, <3>2, <4>4 DEF Free
    <3>4. QED
      BY <1>5, <3>1, <3>3 DEF RemovedFor
  <2>3. QED
    BY <1>1, <2>1, <2>2 DEF FreeInv, Free
<1>13. /\ \A q \in Processes \ {p} : call'[q] = call[q]
       /\ CallCaptured(p)' /\ ("release" \notin faults => CallReleased(p)')
  <2>1. "release" \notin faults => \A e \in Members(s) : Free(e)
    BY <1>1 DEF ReleasedInv, CallReleased, s
  <2>2. \A e \in Done(p) : Numbered(e, s)
    BY <1>1 DEF CapturedInv, CallCaptured, s
  <2>3. CASE Continue(p, "add", "capture")
    <3>1. Turn(p, "add", "capture")
      BY <2>3, LoopStep DEF ControlInv, CallStates
    <3>2. /\ Snap(p)' = s /\ Members(Snap(p))' = Members(s)
          /\ \/ call'[p].at = "add" /\ Done(p)' = Done(p) \cup {d}
             \/ /\ call'[p].at = "capture" /\ Done(p)' = {}
                /\ Members(s) = Done(p) \cup {d}
      BY <1>1, <3>1, TurnDone DEF s, d
    <3>3. \A e \in Done(p) \cup {d} : e \in Members(s)
      BY <1>2 DEF Done, s
    <3>4. \A e \in Done(p) \cup {d} : e \in tracked' => snapshotId'[e] = s
      BY <1>9, <1>10, <2>2, <3>3
    <3>5. CallCaptured(p)'
      BY <3>2, <3>4 DEF CallCaptured, Numbered
    <3>6. "release" \notin faults => CallReleased(p)'
      BY <1>11, <2>1, <3>2 DEF CallReleased, Free
    <3>7. QED
      BY <3>1, <3>5, <3>6 DEF Turn, Moves
  <2>4. CASE Fail(p, "cleanup")
    <3>1. Moves(p, "cleanup", All(p), FALSE)
      BY <1>1, <2>4, FailKeepsControl DEF CreateAdd, Building
    <3>2. /\ call'[p].at = "cleanup" /\ Done(p)' = {}
          /\ Members(Snap(p))' = Members(s)
      BY <1>1, <3>1, AllToDo DEF s
    <3>3. CallCaptured(p)'
      BY <3>2 DEF CallCaptured
    <3>4. "release" \notin faults => CallReleased(p)'
      BY <1>11, <2>1, <3>2 DEF CallReleased, Free
    <3>5. QED
      BY <3>1, <3>3, <3>4 DEF Moves
  <2>5. QED
    BY <2>3, <2>4 DEF CreateAdd
<1>14. /\ CapturedInv'
       /\ "release" \notin faults =>
            /\ \A t \in Snapshots : status'[t] \notin {"partly", "lost"}
            /\ \A q \in Processes : CallReleased(q)'
  <2>1. status'[s] # "created" /\ status'[s] \notin {"partly", "lost"}
    BY <1>1, <1>2
  <2>2. /\ \A q \in Processes \ {p} : call'[q] = call[q] /\ (~Idle(q) => Snap(q) # s)
        /\ \A t \in Snapshots \ {s} : status'[t] = status[t] /\ members'[t] = members[t]
        /\ p \in Processes => CallCaptured(p)' /\ ("release" \notin faults => CallReleased(p)')
    BY <1>1, <1>2, <1>13
  <2>3. QED
    BY <1>8, <2>1, <2>2, PhasesKept
<1>15. QED
  BY <1>4, <1>12, <1>14 DEF ReleasedInv

(* A step outside of the calls leaves the devices of snapshots alone.      *)
LEMMA OutsideKeepsCaptured ==
  ASSUME Settled, faults' = faults, NEW p \in Processes, Idle(p),
         UNCHANGED <<snapshotVars, call>>,
         \A t \in Snapshots : status[t] \in {"creating", "created", "destroying"} =>
           \A d \in Members(t) : SameTracker(d)
  PROVE  /\ CapturedInv'
         /\ "release" \notin faults =>
              /\ \A t \in Snapshots : status'[t] \notin {"partly", "lost"}
              /\ \A q \in Processes : CallReleased(q)'
<1> USE DEF Settled, TrackersInv
<1>1. members' = members /\ status' = status /\ call' = call
  BY DEF snapshotVars
<1>2. /\ \A q \in Processes \ {p} : call'[q] = call[q] /\ (~Idle(q) => Snap(q) # None)
      /\ \A t \in Snapshots \ {None} : status'[t] = status[t] /\ members'[t] = members[t]
  BY <1>1, NoneIsOut DEF ControlInv, CallsInv, CallOK, Snap
<1>3. call'[p].at = "idle"
  BY <1>1 DEF Idle
<1>4. CallCaptured(p)' /\ CallReleased(p)'
  BY <1>3 DEF CallCaptured, CallReleased
<1>5. \A t \in Snapshots \ {None} : status[t] \in {"creating", "created", "destroying"} =>
        \A d \in Members(t) : SameTracker(d)
  OBVIOUS
<1>6. None \notin Snapshots
  BY NoneIsOut
<1>7. QED
  BY <1>2, <1>4, <1>5, <1>6, PhasesKept

(* tracking_add, for a device that no snapshot has.                        *)
LEMMA TrackingAddKeepsTrackers ==
  ASSUME Careful, Settled, faults' = faults, NEW p \in Processes, NEW d \in Devices,
         TrackingAdd(p, d)
  PROVE  TrackerTypes' /\ TrackersInv'
<1> USE DEF Settled, TrackersInv
<1>1. /\ Idle(p) /\ members' = members /\ status' = status /\ running' = running
      /\ UNCHANGED <<snapshotVars, call>>
      /\ AddTracker(d, None) \/ AddTrackerFails(d)
  BY DEF TrackingAdd, snapshotVars, heapVars
<1>2. /\ TrackerTypes' /\ TrackedInv' /\ TrackersAreDisjoint'
      /\ \E old \in SUBSET tracked : RemovedFor(d, old)
  BY <1>1, AddEffect
<1>3. PICK old \in SUBSET tracked : RemovedFor(d, old)
  BY <1>2
<1>4. \A t \in Snapshots : Members(t)' = Members(t) /\ Members(t) \subseteq Devices
  BY <1>1, MembersAreDevices DEF Members
<1>5. ASSUME NEW e \in Devices, e \in old \cup {d} PROVE ~InSome(e)
  <2>1. ~InSnapshot(d) /\ \A f \in Devices : InSnapshot(f) => ~Overlap(f, d)
    BY DEF TrackingAdd, NoReadd, NoReplace, Careful
  <2>2. e = d \/ Overlap(e, d)
    <3>1. {e, d} = {d, e}
      OBVIOUS
    <3>2. QED
      BY <1>3, <1>5, <3>1 DEF RemovedFor, Overlap
  <2>3. ~InSnapshot(e)
    BY <2>1, <2>2
  <2>4. QED
    BY <2>3, InSnapshotMembers DEF ControlInv, InSome
<1>6. ASSUME NEW t \in Snapshots, NEW e \in Members(t) PROVE SameTracker(e)
  <2>1. e \in Devices /\ InSome(e)
    BY <1>4 DEF InSome
  <2>2. QED
    BY <1>3, <1>5, <2>1 DEF RemovedFor
<1>7. "release" \notin faults => FreeInv'
  <2>1. ASSUME "release" \notin faults PROVE \A e \in Devices : deferIo'[e] # None => InSome(e)'
    BY <1>3, <1>4, <2>1 DEF RemovedFor, ReleasedInv, FreeInv, Free, InSome
  <2>2. ASSUME "release" \notin faults, NEW x \in running PROVE \E e \in Devices : deferIo'[e] = x
    <3>1. PICK e \in Devices : deferIo[e] = x
      BY <2>2 DEF ReleasedInv, FreeInv
    <3>2. InSome(e)
      BY <2>2, <3>1, NoneIsOut DEF ReleasedInv, FreeInv, Free
    <3>3. QED
      BY <1>3, <1>5, <3>1, <3>2 DEF RemovedFor
  <2>3. QED
    BY <1>1, <2>1, <2>2 DEF FreeInv, Free
<1>8. QED
  BY <1>1, <1>2, <1>6, <1>7, OutsideKeepsCaptured DEF ReleasedInv

(* tracking_remove, of a tracker without the number of a snapshot.         *)
LEMMA TrackingRemoveKeepsTrackers ==
  ASSUME Careful, Settled, faults' = faults, NEW p \in Processes, NEW d \in Devices,
         TrackingRemove(p, d)
  PROVE  TrackerTypes' /\ TrackersInv'
<1> USE DEF Settled, TrackersInv
<1>1. /\ Idle(p) /\ members' = members /\ status' = status /\ running' = running
      /\ UNCHANGED <<snapshotVars, call>> /\ NoRace(p, {d})
      /\ snapshotId[d] = None /\ Replace({d}, {}, None)
  BY DEF TrackingRemove, snapshotVars, heapVars
<1>2. /\ tracked' = tracked \ {d} /\ faulty' = faulty \ {d}
      /\ snapshotId' \in [Devices -> Snapshots \cup {None}]
      /\ deferIo' \in [Devices -> Defers \cup {None}]
      /\ \A e \in Devices : /\ snapshotId'[e] = IF e = d THEN None ELSE snapshotId[e]
                            /\ deferIo'[e] = IF e = d THEN None ELSE deferIo[e]
  BY <1>1 DEF Replace, TrackerTypes
<1>3. TrackerTypes' /\ TrackersAreDisjoint'
  BY <1>2 DEF TrackerTypes, TrackersAreDisjoint, Overlap
<1>4. TrackedInv'
  <2>1. \A t \in Snapshots : Members(t)' = Members(t)
    BY <1>1 DEF Members
  <2>2. \A e \in Devices : snapshotId'[e] # None => e \in tracked' /\ e \in Members(snapshotId'[e])
    BY <1>2 DEF TrackedInv
  <2>3. \A e \in Devices : deferIo'[e] # None => e \in tracked' /\ deferIo'[e] \in running
    BY <1>2 DEF TrackedInv
  <2>4. \A e, f \in Devices : deferIo'[e] = deferIo'[f] /\ deferIo'[e] # None => e = f
    BY <1>2 DEF TrackedInv
  <2>5. QED
    BY <1>1, <2>2, <2>3, <2>4 DEF TrackedInv, Members
<1>5. ASSUME NEW t \in Snapshots, status[t] \in {"creating", "created", "destroying"}
      PROVE  d \notin Members(t)
  <2>1. SUFFICES ASSUME d \in Members(t) PROVE FALSE
    OBVIOUS
  <2>2. CASE status[t] = "created"
    BY <1>1, <2>1, <2>2, NoneIsOut DEF CapturedInv, CreatedInv, Captured
  <2>3. CASE status[t] \in {"creating", "destroying"}
    <3>1. PICK q \in Processes : ~Idle(q) /\ Snap(q) = t
      BY <2>3 DEF ControlInv, SnapshotsInv
    <3>2. QED
      BY <1>1, <2>1, <3>1, AvoidedRace DEF Careful, ControlInv
  <2>4. QED
    BY <1>5, <2>2, <2>3
<1>6. ASSUME NEW t \in Snapshots, status[t] \in {"creating", "created", "destroying"},
             NEW e \in Members(t)
      PROVE  SameTracker(e)
  <2>1. e \in Devices /\ e # d
    BY <1>5, <1>6, MembersAreDevices
  <2>2. QED
    BY <1>2, <2>1 DEF SameTracker
<1>7. "release" \notin faults => FreeInv'
  <2>1. ASSUME "release" \notin faults PROVE Free(d)
    <3>1. \A t \in Snapshots : d \in Members(t) =>
            status[t] \in {"creating", "created", "destroying"}
      <4>1. ASSUME NEW t \in Snapshots, d \in Members(t) PROVE status[t] # "none"
        BY <4>1, LenProperties, EmptySeq DEF ControlInv, SnapshotsInv, Members, ToSet
      <4>2. status \in [Snapshots -> Statuses]
        BY DEF ControlTypes
      <4>3. QED
        BY <2>1, <4>1, <4>2 DEF ReleasedInv, Statuses
    <3>2. ~InSome(d)
      BY <1>5, <3>1 DEF InSome
    <3>3. QED
      BY <2>1, <3>2 DEF ReleasedInv, FreeInv
  <2>2. \A e \in Devices : InSome(e)' = InSome(e)
    BY <1>1 DEF InSome, Members
  <2>3. ASSUME "release" \notin faults, NEW x \in running PROVE \E e \in Devices : deferIo'[e] = x
    BY <1>2, <2>1, <2>3, NoneIsOut DEF ReleasedInv, FreeInv, Free
  <2>4. ASSUME "release" \notin faults, NEW e \in Devices, deferIo'[e] # None PROVE InSome(e)
    BY <1>2, <2>4 DEF ReleasedInv, FreeInv, Free
  <2>5. QED
    BY <1>1, <2>2, <2>3, <2>4 DEF FreeInv, Free
<1>8. QED
  BY <1>1, <1>3, <1>4, <1>6, <1>7, OutsideKeepsCaptured DEF ReleasedInv

(* Nothing but the CBT maps of trackers changes.                           *)
LEMMA TrackersSame ==
  ASSUME Settled, UNCHANGED <<tracked, snapshotId, deferIo, running, snapshotVars, call, faults>>,
         faulty' \subseteq tracked
  PROVE  TrackerTypes' /\ TrackersInv'
<1> USE DEF Settled, TrackersInv
<1>1. members' = members /\ status' = status
  BY DEF snapshotVars
<1>2. /\ \A t \in Snapshots : Members(t)' = Members(t)
      /\ \A d \in Devices : InSome(d)' = InSome(d)
      /\ \A p : Snap(p)' = Snap(p) /\ Done(p)' = Done(p)
  BY <1>1 DEF Members, InSome, Snap, Todo, Done
<1>3. /\ TrackerTypes' /\ TrackedInv' /\ TrackersAreDisjoint'
      /\ "release" \notin faults => FreeInv'
  BY <1>2, TrackedKept
<1>4. CapturedInv'
  BY <1>1, <1>2 DEF CapturedInv, CreatedInv, CallCaptured, Captured, Numbered, Members
<1>5. \A p : CallReleased(p)' = CallReleased(p)
  BY <1>1, <1>2 DEF CallReleased, Free, Members
<1>6. QED
  BY <1>1, <1>3, <1>4, <1>5 DEF ReleasedInv

(* A defer IO object that nobody counts is no tracker's and no image's.    *)
Unused(x) ==
  /\ \A d \in Devices : deferIo[d] # x
  /\ \A i \in DOMAIN images : images[i].defer # x

LEMMA FreshDefer ==
  ASSUME Types, DefersInv, NEW x \in Defers, ~Alive(x)
  PROVE  Unused(x)
<1> DEFINE T == {d \in Devices : deferIo[d] = x}
           I == {i \in DOMAIN images : images[i].defer = x}
<1>1. IsFiniteSet(T) /\ IsFiniteSet(I)
  <2>1. DOMAIN images = 1 .. Len(images) /\ Len(images) \in Nat
    BY LenProperties DEF Types
  <2>2. IsFiniteSet(DOMAIN images)
    BY <2>1, FS_Interval
  <2>3. QED
    BY <2>2, LifecycleAssumption, FS_Subset
<1> HIDE DEF T, I
<1>2. Cardinality(T) \in Nat /\ Cardinality(I) \in Nat
  BY <1>1, FS_CardinalityType
<1>3. Cardinality(T) + Cardinality(I) <= refs.defer[x] /\ refs.defer[x] = 0
  <2>1. refs.defer[x] \in Nat /\ ~(refs.defer[x] > 0)
    BY DEF Types, HeapTypes, RefSet, Alive
  <2>2. QED
    BY <2>1 DEF DefersInv, DeferOwners, T, I
<1>4. Cardinality(T) = 0 /\ Cardinality(I) = 0
  BY <1>2, <1>3
<1>5. T = {} /\ I = {}
  BY <1>1, <1>4, FS_EmptySet
<1>6. QED
  BY <1>5 DEF T, I, Unused

(* A tracker is captured.                                                  *)
LEMMA CreateCaptureKeepsTrackers ==
  ASSUME Settled, faults' = faults, NEW p \in Processes, CreateCapture(p),
         \A x \in Defers : ~Alive(x) => Unused(x)
  PROVE  TrackerTypes' /\ TrackersInv'
<1> USE DEF Settled, TrackersInv
<1>1. /\ call[p].at = "capture" /\ members' = members /\ status' = status
      /\ tracked' = tracked /\ snapshotId' = snapshotId /\ faulty' = faulty
      /\ Continue(p, "capture", "check")
  BY DEF CreateCapture, Continue, snapshotVars
<1>2. ~Idle(p) /\ Turn(p, "capture", "check")
  BY <1>1, LoopStep DEF ControlInv, CallStates
<1>3. PICK d \in Devices, s \in Snapshots : d = Dev(p) /\ s = Snap(p) /\ d \in Members(s)
  BY <1>2 DEF Turn
<1>4. /\ \A q \in Processes \ {p} : ~Idle(q) => Snap(q) # s
      /\ status[s] = "creating"
  BY <1>1, <1>2, <1>3, OwnSnapshot DEF ControlInv, CallsInv, CallOK, Building, Snap
<1>5. PICK x \in Defers :
        /\ ~Alive(x) /\ running' = running \cup {x}
        /\ deferIo' = [deferIo EXCEPT ![d] = x]
        /\ d \in tracked /\ deferIo[d] = None
  BY <1>3 DEF CreateCapture
<1>6. /\ deferIo' \in [Devices -> Defers \cup {None}] /\ deferIo'[d] = x
      /\ \A e \in Devices \ {d} : deferIo'[e] = deferIo[e]
      /\ x # None /\ \A e \in Devices : deferIo[e] # x
  BY <1>5, NoneIsOut DEF TrackerTypes, Unused
<1>7. TrackerTypes' /\ TrackersAreDisjoint'
  BY <1>1, <1>6 DEF TrackerTypes, TrackersAreDisjoint, Overlap
<1>8. \A t \in Snapshots : Members(t)' = Members(t) /\ Members(t) \subseteq Devices
  BY <1>1, MembersAreDevices DEF Members
<1>9. TrackedInv'
  <2>1. \A e \in Devices : snapshotId'[e] # None => e \in tracked' /\ e \in Members(snapshotId'[e])
    BY <1>1 DEF TrackedInv
  <2>2. \A e \in Devices : deferIo'[e] # None => e \in tracked' /\ deferIo'[e] \in running'
    BY <1>1, <1>5, <1>6 DEF TrackedInv
  <2>3. \A e, f \in Devices : deferIo'[e] = deferIo'[f] /\ deferIo'[e] # None => e = f
    BY <1>6 DEF TrackedInv
  <2>4. QED
    BY <1>1, <2>1, <2>2, <2>3 DEF TrackedInv, Members
<1>10. "release" \notin faults => FreeInv'
  <2>1. \A e \in Devices : InSome(e)' = InSome(e)
    BY <1>1 DEF InSome, Members
  <2>2. InSome(d)
    BY <1>3 DEF InSome
  <2>3. ASSUME "release" \notin faults, NEW e \in Devices, deferIo'[e] # None PROVE InSome(e)
    BY <1>6, <2>2, <2>3 DEF ReleasedInv, FreeInv, Free
  <2>4. ASSUME "release" \notin faults, NEW y \in running' PROVE \E e \in Devices : deferIo'[e] = y
    <3>1. CASE y = x
      BY <1>6, <3>1
    <3>2. CASE y \in running
      <4>1. PICK e \in Devices : deferIo[e] = y
        BY <2>4, <3>2 DEF ReleasedInv, FreeInv
      <4>2. e # d
        BY <1>5, <3>2, <4>1, NoneIsOut
      <4>3. QED
        BY <1>6, <4>1, <4>2
    <3>3. QED
      BY <1>5, <2>4, <3>1, <3>2
  <2>5. QED
    BY <2>1, <2>3, <2>4 DEF FreeInv, Free
<1>11. CallCaptured(p)' /\ CallReleased(p)'
  <2>1. /\ Snap(p)' = s /\ Members(s)' = Members(s)
        /\ \/ call'[p].at = "capture" /\ Done(p)' = Done(p) \cup {d}
           \/ call'[p].at = "check" /\ Members(s) = Done(p) \cup {d}
    BY <1>1, <1>2, <1>3, <1>8, TurnDone
  <2>2. \A e \in Members(s) : e \in tracked => snapshotId[e] = s
    BY <1>1, <1>3 DEF CapturedInv, CallCaptured, Numbered
  <2>3. \A e \in Done(p) : e \in Devices /\ Captured(e, s)
    BY <1>1, <1>3, <1>8 DEF CapturedInv, CallCaptured, Done
  <2>4. \A e \in Done(p) \cup {d} : e \in tracked' /\ snapshotId'[e] = s /\ deferIo'[e] # None
    BY <1>1, <1>3, <1>5, <1>6, <2>2, <2>3 DEF Captured
  <2>5. CallCaptured(p)'
    BY <1>1, <2>1, <2>2, <2>4 DEF CallCaptured, Captured, Numbered
  <2>6. CallReleased(p)'
    BY <2>1 DEF CallReleased
  <2>7. QED
    BY <2>5, <2>6
<1>12. /\ CapturedInv'
       /\ "release" \notin faults =>
            /\ \A t \in Snapshots : status'[t] \notin {"partly", "lost"}
            /\ \A q \in Processes : CallReleased(q)'
  <2>1. ASSUME NEW t \in Snapshots \ {s}, NEW e \in Members(t) PROVE SameTracker(e)
    <3>1. e # d /\ e \in Devices
      BY <1>3, <1>8, <2>1, OneSnapshot DEF ControlInv
    <3>2. QED
      BY <1>1, <1>6, <3>1 DEF SameTracker
  <2>2. status'[s] # "created" /\ status'[s] \notin {"partly", "lost"}
    BY <1>1, <1>4
  <2>3. /\ \A q \in Processes \ {p} : call'[q] = call[q] /\ (~Idle(q) => Snap(q) # s)
        /\ \A t \in Snapshots \ {s} : status'[t] = status[t] /\ members'[t] = members[t]
        /\ p \in Processes => CallCaptured(p)' /\ ("release" \notin faults => CallReleased(p)')
    BY <1>1, <1>2, <1>4, <1>11 DEF Turn, Moves
  <2>4. QED
    BY <2>1, <2>2, <2>3, PhasesKept
<1>13. QED
  BY <1>7, <1>9, <1>10, <1>12 DEF ReleasedInv

(* A tracker is released: it alone changes, and its thread stops.          *)
LEMMA ReleaseEffect ==
  ASSUME TrackerTypes, TrackedInv, running \subseteq Defers, NEW d \in Devices, ReleaseTracker(d)
  PROVE  /\ tracked' = tracked /\ snapshotId' = snapshotId /\ faulty' = faulty /\ uses' = uses
         /\ deferIo' \in [Devices -> Defers \cup {None}]
         /\ deferIo'[d] = None
         /\ \A e \in Devices \ {d} : deferIo'[e] = deferIo[e]
         /\ running' \subseteq running
         /\ \A x \in running' : x # deferIo[d]
         /\ \A x \in running : x # deferIo[d] => x \in running'
<1>1. CASE d \notin tracked \/ deferIo[d] = None
  <2>1. deferIo[d] = None /\ UNCHANGED <<trackerVars, heapVars>>
    BY <1>1 DEF TrackedInv, ReleaseTracker
  <2>2. QED
    BY <2>1, NoneIsOut DEF trackerVars, heapVars, TrackerTypes
<1>2. CASE ~(d \notin tracked \/ deferIo[d] = None)
  <2>1. /\ deferIo' = [deferIo EXCEPT ![d] = None]
        /\ running' = running \ {deferIo[d]}
        /\ UNCHANGED <<tracked, snapshotId, faulty, uses>>
    BY <1>2 DEF ReleaseTracker
  <2>2. QED
    BY <2>1 DEF TrackerTypes
<1>3. QED
  BY <1>1, <1>2

LEMMA ReleaseKeepsTracked ==
  ASSUME Settled, NEW d \in Devices, ReleaseTracker(d), members' = members
  PROVE  /\ TrackerTypes' /\ TrackedInv' /\ TrackersAreDisjoint'
         /\ "release" \notin faults => FreeInv'
<1> USE DEF Settled, TrackersInv
<1>1. /\ tracked' = tracked /\ snapshotId' = snapshotId /\ faulty' = faulty
      /\ deferIo' \in [Devices -> Defers \cup {None}]
      /\ deferIo'[d] = None
      /\ \A e \in Devices \ {d} : deferIo'[e] = deferIo[e]
      /\ running' \subseteq running
      /\ \A x \in running' : x # deferIo[d]
      /\ \A x \in running : x # deferIo[d] => x \in running'
  BY ReleaseEffect
<1>2. TrackerTypes' /\ TrackersAreDisjoint'
  BY <1>1 DEF TrackerTypes, TrackersAreDisjoint, Overlap
<1>3. TrackedInv'
  <2>1. \A e \in Devices : snapshotId'[e] # None => e \in tracked' /\ e \in Members(snapshotId'[e])
    BY <1>1 DEF TrackedInv
  <2>2. \A e \in Devices : deferIo'[e] # None => e \in tracked' /\ deferIo'[e] \in running'
    BY <1>1 DEF TrackedInv
  <2>3. \A e, f \in Devices : deferIo'[e] = deferIo'[f] /\ deferIo'[e] # None => e = f
    BY <1>1 DEF TrackedInv
  <2>4. QED
    BY <2>1, <2>2, <2>3 DEF TrackedInv, Members
<1>4. "release" \notin faults => FreeInv'
  <2>1. \A e \in Devices : InSome(e)' = InSome(e)
    BY DEF InSome, Members
  <2>2. ASSUME "release" \notin faults, NEW e \in Devices, deferIo'[e] # None PROVE InSome(e)
    BY <1>1, <2>2 DEF ReleasedInv, FreeInv, Free
  <2>3. ASSUME "release" \notin faults, NEW x \in running' PROVE \E e \in Devices : deferIo'[e] = x
    BY <1>1, <2>3 DEF ReleasedInv, FreeInv
  <2>4. QED
    BY <2>1, <2>2, <2>3 DEF FreeInv, Free
<1>5. QED
  BY <1>2, <1>3, <1>4

LEMMA ReleaseKeepsTrackers ==
  ASSUME Settled, faults' = faults, NEW p \in Processes, Release(p)
  PROVE  TrackerTypes' /\ TrackersInv'
<1> USE DEF Settled, TrackersInv
<1> DEFINE next == IF call[p].ok THEN "destroy" ELSE "cleanup"
<1>1. /\ call[p].at = "release" /\ members' = members /\ status' = status
      /\ Continue(p, "release", next)
  BY DEF Release, Continue, snapshotVars
<1>2. ~Idle(p) /\ Turn(p, "release", next)
  <2>1. next \in CallStates /\ "release" \in CallStates \ {"idle"}
    BY DEF CallStates
  <2>2. QED
    BY <1>1, <2>1, LoopStep DEF ControlInv
<1>3. PICK d \in Devices, s \in Snapshots : d = Dev(p) /\ s = Snap(p) /\ d \in Members(s)
  BY <1>2 DEF Turn
<1>4. /\ \A q \in Processes \ {p} : ~Idle(q) => Snap(q) # s
      /\ status[s] \in {"creating", "destroying"}
  BY <1>1, <1>2, <1>3, OwnSnapshot DEF ControlInv, CallsInv, CallOK, Snap
<1>5. ReleaseTracker(d)
  BY <1>3 DEF Release
<1>6. /\ TrackerTypes' /\ TrackedInv' /\ TrackersAreDisjoint'
      /\ "release" \notin faults => FreeInv'
  BY <1>1, <1>5, ReleaseKeepsTracked
<1>7. /\ tracked' = tracked /\ snapshotId' = snapshotId /\ deferIo'[d] = None
      /\ \A e \in Devices \ {d} : deferIo'[e] = deferIo[e]
  BY <1>5, ReleaseEffect
<1>8. \A t \in Snapshots : Members(t)' = Members(t) /\ Members(t) \subseteq Devices
  BY <1>1, MembersAreDevices DEF Members
<1>9. /\ CallCaptured(p)' /\ ("release" \notin faults => CallReleased(p)')
      /\ \A q \in Processes \ {p} : call'[q] = call[q]
  <2>1. /\ Snap(p)' = s /\ Members(s)' = Members(s)
        /\ \/ call'[p].at = "release" /\ Done(p)' = Done(p) \cup {d}
           \/ call'[p].at = next /\ Done(p)' = {} /\ Members(s) = Done(p) \cup {d}
    BY <1>1, <1>2, <1>3, <1>8, TurnDone
  <2>2. "release" \notin faults => \A e \in Done(p) : deferIo[e] = None
    BY <1>1 DEF ReleasedInv, CallReleased, Free
  <2>3. "release" \notin faults => \A e \in Done(p) \cup {d} : deferIo'[e] = None
    BY <1>3, <1>7, <1>8, <2>2 DEF Done
  <2>4. next \in {"destroy", "cleanup"}
    OBVIOUS
  <2> HIDE DEF next
  <2>5. CallCaptured(p)'
    BY <2>1, <2>4 DEF CallCaptured
  <2>6. "release" \notin faults => CallReleased(p)'
    BY <2>1, <2>3, <2>4 DEF CallReleased, Free
  <2>7. QED
    BY <1>2, <2>5, <2>6 DEF Turn, Moves
<1>10. /\ CapturedInv'
       /\ "release" \notin faults =>
            /\ \A t \in Snapshots : status'[t] \notin {"partly", "lost"}
            /\ \A q \in Processes : CallReleased(q)'
  <2>1. ASSUME NEW t \in Snapshots \ {s}, NEW e \in Members(t) PROVE SameTracker(e)
    <3>1. e # d /\ e \in Devices
      BY <1>3, <1>8, <2>1, OneSnapshot DEF ControlInv
    <3>2. QED
      BY <1>7, <3>1 DEF SameTracker
  <2>2. status'[s] # "created" /\ status'[s] \notin {"partly", "lost"}
    BY <1>1, <1>4
  <2>3. /\ \A q \in Processes \ {p} : call'[q] = call[q] /\ (~Idle(q) => Snap(q) # s)
        /\ \A t \in Snapshots \ {s} : status'[t] = status[t] /\ members'[t] = members[t]
        /\ p \in Processes => CallCaptured(p)' /\ ("release" \notin faults => CallReleased(p)')
    BY <1>1, <1>4, <1>9
  <2>4. QED
    BY <2>1, <2>2, <2>3, PhasesKept
<1>11. QED
  BY <1>6, <1>10 DEF ReleasedInv

(* A release that fails releases the tracker of the device.                *)
LEMMA ReleaseFailsKeepsTrackers ==
  ASSUME Settled, faults' = faults, NEW p \in Processes, ReleaseFails(p)
  PROVE  TrackerTypes' /\ TrackersInv'
<1> USE DEF Settled, TrackersInv
<1>1. /\ ~Idle(p) /\ members' = members /\ call[p].at = "release" /\ "release" \in faults
      /\ \/ /\ Ends(p)
            /\ \E st \in {"partly", "lost"} : status' = [status EXCEPT ![Snap(p)] = st]
         \/ status' = status /\ Moves(p, "cleanup", All(p), call[p].ok)
  BY ReleaseFailsSteps
<1>2. PICK d \in Devices, s \in Snapshots : d = Dev(p) /\ s = Snap(p) /\ d \in Members(s)
  BY <1>1, CallFacts DEF ControlInv
<1>3. /\ \A q \in Processes \ {p} : ~Idle(q) => Snap(q) # s
      /\ status[s] \in {"creating", "destroying"}
  BY <1>1, <1>2, OwnSnapshot DEF ControlInv, CallsInv, CallOK, Snap
<1>4. ReleaseTracker(d)
  BY <1>2 DEF ReleaseFails
<1>5. TrackerTypes' /\ TrackedInv' /\ TrackersAreDisjoint'
  BY <1>1, <1>4, ReleaseKeepsTracked
<1>6. /\ tracked' = tracked /\ snapshotId' = snapshotId
      /\ \A e \in Devices \ {d} : deferIo'[e] = deferIo[e]
  BY <1>4, ReleaseEffect
<1>7. /\ CallCaptured(p)' /\ \A q \in Processes \ {p} : call'[q] = call[q]
      /\ status'[s] # "created"
      /\ \A t \in Snapshots \ {s} : status'[t] = status[t] /\ members'[t] = members[t]
  <2>1. CASE /\ Ends(p)
             /\ \E st \in {"partly", "lost"} : status' = [status EXCEPT ![Snap(p)] = st]
    <3>1. PICK st \in {"partly", "lost"} : status' = [status EXCEPT ![s] = st]
      BY <1>2, <2>1
    <3>2. status'[s] = st /\ \A t \in Snapshots \ {s} : status'[t] = status[t]
      BY <3>1 DEF ControlTypes
    <3>3. CallCaptured(p)'
      BY <2>1 DEF Ends, CallCaptured
    <3>4. QED
      BY <1>1, <2>1, <3>2, <3>3 DEF Ends
  <2>2. CASE status' = status /\ Moves(p, "cleanup", All(p), call[p].ok)
    <3>1. call'[p].at = "cleanup" /\ Done(p)' = {}
      BY <1>1, <2>2, AllToDo
    <3>2. CallCaptured(p)'
      BY <3>1 DEF CallCaptured
    <3>3. QED
      BY <1>1, <1>3, <2>2, <3>2 DEF Moves
  <2>3. QED
    BY <1>1, <2>1, <2>2
<1>8. CapturedInv'
  <2>1. ASSUME NEW t \in Snapshots \ {s}, NEW e \in Members(t) PROVE SameTracker(e)
    <3>1. e # d /\ e \in Devices
      BY <1>2, <2>1, MembersAreDevices, OneSnapshot DEF ControlInv
    <3>2. QED
      BY <1>6, <3>1 DEF SameTracker
  <2>2. \A q \in Processes \ {p} : call'[q] = call[q] /\ (~Idle(q) => Snap(q) # s)
    BY <1>3, <1>7
  <2>3. QED
    BY <1>1, <1>7, <2>1, <2>2, PhasesKept
<1>9. QED
  BY <1>1, <1>5, <1>8 DEF ReleasedInv

(* The trackers forget the snapshot, and in the end it is gone.            *)
LEMMA CleanupKeepsTrackers ==
  ASSUME Settled, faults' = faults, NEW p \in Processes, Cleanup(p)
  PROVE  TrackerTypes' /\ TrackersInv'
<1> USE DEF Settled, TrackersInv
<1>1. /\ ~Idle(p) /\ call[p].at = "cleanup"
      /\ \/ /\ Ends(p) /\ Todo(p) = {Dev(p)}
            /\ status' = [status EXCEPT ![Snap(p)] = "none"]
            /\ members' = [members EXCEPT ![Snap(p)] = <<>>]
         \/ /\ status' = status /\ members' = members
            /\ Moves(p, "cleanup", call'[p].todo, call[p].ok)
            /\ ToSet(call'[p].todo) = Todo(p) \ {Dev(p)}
  BY CleanupSteps
<1>2. PICK d \in Devices, s \in Snapshots : d = Dev(p) /\ s = Snap(p) /\ d \in Members(s)
  BY <1>1, CallFacts DEF ControlInv
<1>3. /\ \A q \in Processes \ {p} : ~Idle(q) => Snap(q) # s
      /\ status[s] \in {"creating", "destroying"}
  BY <1>1, <1>2, OwnSnapshot DEF ControlInv, CallsInv, CallOK, Snap
<1>4. /\ tracked' = tracked /\ deferIo' = deferIo /\ faulty' = faulty /\ running' = running
      /\ snapshotId' \in [Devices -> Snapshots \cup {None}]
      /\ snapshotId'[d] = None /\ \A e \in Devices \ {d} : snapshotId'[e] = snapshotId[e]
  BY <1>2 DEF Cleanup, heapVars, TrackerTypes
<1>5. TrackerTypes' /\ TrackersAreDisjoint'
  BY <1>4 DEF TrackerTypes, TrackersAreDisjoint, Overlap
<1>6. /\ \A t \in Snapshots : Members(t) \subseteq Devices
      /\ \A e \in Done(p) : e \in Devices /\ e \in Members(s) /\ snapshotId[e] = None
      /\ "release" \notin faults => \A e \in Members(s) : deferIo[e] = None
  BY <1>1, <1>2, MembersAreDevices
  DEF CapturedInv, CallCaptured, ReleasedInv, CallReleased, Free, Done
<1>7. \A e \in Done(p) \cup {d} : snapshotId'[e] = None
  BY <1>4, <1>6
<1>8. /\ \A t \in Snapshots \ {s} : status'[t] = status[t] /\ members'[t] = members[t]
      /\ \A q \in Processes \ {p} : call'[q] = call[q]
      /\ status'[s] \notin {"created", "partly", "lost"}
      /\ CallCaptured(p)' /\ ("release" \notin faults => CallReleased(p)')
      /\ \/ members' = members
         \/ Members(s) = Done(p) \cup {d} /\ Members(s)' = {}
  <2>1. CASE /\ Ends(p) /\ Todo(p) = {Dev(p)}
             /\ status' = [status EXCEPT ![Snap(p)] = "none"]
             /\ members' = [members EXCEPT ![Snap(p)] = <<>>]
    <3>1. /\ status'[s] = "none" /\ members'[s] = <<>>
          /\ \A t \in Snapshots \ {s} : status'[t] = status[t] /\ members'[t] = members[t]
      BY <1>2, <2>1 DEF ControlTypes
    <3>2. Members(s)' = {}
      BY <3>1, EmptySeq, LenProperties DEF Members, ToSet
    <3>3. Members(s) = Done(p) \cup {d}
      BY <1>2, <2>1 DEF Done
    <3>4. CallCaptured(p)' /\ CallReleased(p)'
      BY <2>1 DEF Ends, CallCaptured, CallReleased
    <3>5. QED
      BY <2>1, <3>1, <3>2, <3>3, <3>4 DEF Ends
  <2>2. CASE /\ status' = status /\ members' = members
             /\ Moves(p, "cleanup", call'[p].todo, call[p].ok)
             /\ ToSet(call'[p].todo) = Todo(p) \ {Dev(p)}
    <3>1. /\ call'[p].at = "cleanup" /\ Snap(p)' = s /\ Members(s)' = Members(s)
          /\ Todo(p)' = Todo(p) \ {d}
      BY <1>2, <2>2 DEF Moves, Snap, Todo, Members
    <3>2. Done(p)' \subseteq Done(p) \cup {d}
      BY <1>2, <3>1 DEF Done
    <3>3. CallCaptured(p)'
      BY <1>7, <3>1, <3>2 DEF CallCaptured
    <3>4. "release" \notin faults => CallReleased(p)'
      BY <1>4, <1>6, <3>1 DEF CallReleased, Free
    <3>5. QED
      BY <1>3, <2>2, <3>3, <3>4 DEF Moves
  <2>3. QED
    BY <1>1, <2>1, <2>2
<1>9. \A t \in Snapshots \ {s} : Members(t)' = Members(t)
  BY <1>8 DEF Members
<1>10. TrackedInv'
  <2>1. ASSUME NEW e \in Devices, snapshotId'[e] # None
        PROVE  e \in tracked' /\ e \in ToSet(members'[snapshotId'[e]])
    <3>1. PICK t \in Snapshots : t = snapshotId'[e]
      BY <1>4, <2>1
    <3>2. e # d /\ snapshotId[e] = t /\ e \in tracked /\ e \in Members(t)
      BY <1>4, <2>1, <3>1 DEF TrackedInv
    <3>3. e \in Members(t)'
      <4>1. CASE members' = members
        BY <3>2, <4>1 DEF Members
      <4>2. CASE Members(s) = Done(p) \cup {d}
        <5>1. t # s
          BY <1>7, <2>1, <3>2, <4>2
        <5>2. QED
          BY <1>9, <3>2, <5>1
      <4>3. QED
        BY <1>8, <4>1, <4>2
    <3>4. QED
      BY <1>4, <3>1, <3>2, <3>3 DEF Members
  <2>2. \A e \in Devices : deferIo'[e] # None => e \in tracked' /\ deferIo'[e] \in running'
    BY <1>4 DEF TrackedInv
  <2>3. \A e, f \in Devices : deferIo'[e] = deferIo'[f] /\ deferIo'[e] # None => e = f
    BY <1>4 DEF TrackedInv
  <2>4. QED
    BY <2>1, <2>2, <2>3 DEF TrackedInv, Members
<1>11. "release" \notin faults => FreeInv'
  <2>1. ASSUME "release" \notin faults, NEW e \in Devices, deferIo'[e] # None PROVE InSome(e)'
    <3>1. PICK t \in Snapshots : e \in Members(t)
      BY <1>4, <2>1 DEF ReleasedInv, FreeInv, Free, InSome
    <3>2. t # s
      BY <1>4, <1>6, <2>1, <3>1
    <3>3. QED
      BY <1>9, <3>1, <3>2 DEF InSome
  <2>2. "release" \notin faults => \A x \in running' : \E e \in Devices : deferIo'[e] = x
    BY <1>4 DEF ReleasedInv, FreeInv
  <2>3. QED
    BY <2>1, <2>2 DEF FreeInv, Free
<1>12. /\ CapturedInv'
       /\ "release" \notin faults =>
            /\ \A t \in Snapshots : status'[t] \notin {"partly", "lost"}
            /\ \A q \in Processes : CallReleased(q)'
  <2>1. ASSUME NEW t \in Snapshots \ {s}, NEW e \in Members(t) PROVE SameTracker(e)
    <3>1. e # d /\ e \in Devices
      BY <1>2, <1>6, <2>1, OneSnapshot DEF ControlInv
    <3>2. QED
      BY <1>4, <3>1 DEF SameTracker
  <2>2. \A q \in Processes \ {p} : call'[q] = call[q] /\ (~Idle(q) => Snap(q) # s)
    BY <1>3, <1>8
  <2>3. QED
    BY <1>8, <2>1, <2>2, PhasesKept
<1>13. QED
  BY <1>5, <1>10, <1>11, <1>12 DEF ReleasedInv

(* Every step keeps the invariant of the trackers.                         *)
LEMMA TrackersStep ==
  ASSUME Careful, Settled, [Next]_vars, \A x \in Defers : ~Alive(x) => Unused(x)
  PROVE  TrackerTypes' /\ TrackersInv'
<1>1. CASE UNCHANGED vars
  <2>1. faulty \subseteq tracked
    BY DEF Settled, TrackerTypes
  <2>2. QED
    BY <1>1, <2>1, TrackersSame DEF vars, trackerVars, heapVars
<1>2. ASSUME NEW p \in Processes, Create(p), faults' = faults
      PROVE  TrackerTypes' /\ TrackersInv'
  <2>1. ASSUME NEW devs \in Sets, CreateStart(p, devs) PROVE TrackerTypes' /\ TrackersInv'
    BY <1>2, <2>1, CreateStartKeepsTrackers
  <2>2. CASE CreateAdd(p)
    BY <1>2, <2>2, CreateAddKeepsTrackers
  <2>3. CASE CreateCapture(p)
    BY <1>2, <2>3, CreateCaptureKeepsTrackers
  <2>4. CASE CreateUnmake(p)
    <3>1. Continue(p, "unmake", "release") /\ UNCHANGED <<trackerVars, running, snapshotVars>>
      BY <2>4 DEF CreateUnmake, DestroyImage, heapVars
    <3>2. QED
      BY <1>2, <3>1, TurnKeepsTrackers
  <2>5. QED
    BY <1>2, <2>1, <2>2, <2>3, <2>4, MakingKeepsTrackers DEF Create
<1>3. ASSUME NEW p \in Processes, Destroy(p), faults' = faults
      PROVE  TrackerTypes' /\ TrackersInv'
  <2>1. ASSUME NEW s \in Snapshots, DestroyStart(p, s) PROVE TrackerTypes' /\ TrackersInv'
    BY <1>3, <2>1, TakeKeepsTrackers DEF DestroyStart
  <2>2. CASE DestroyAllStart(p)
    <3>1. /\ Head(listed) \in Snapshots
          /\ status[Head(listed)] \notin {"none", "creating", "destroying"}
      BY <2>2, DestroyAllTakes DEF Careful, Settled
    <3>2. Idle(p) /\ TakeSnapshot(p, Head(listed), TRUE)
      BY <2>2 DEF DestroyAllStart
    <3>3. QED
      BY <1>3, <3>1, <3>2, TakeKeepsTrackers
  <2>3. CASE DestroyStop(p)
    <3>1. Continue(p, "stop", "release") /\ UNCHANGED <<trackerVars, running, snapshotVars>>
      BY <2>3 DEF DestroyStop, heapVars
    <3>2. QED
      BY <1>3, <3>1, TurnKeepsTrackers
  <2>4. CASE DestroyImages(p)
    <3>1. Continue(p, "destroy", "cleanup") /\ UNCHANGED <<trackerVars, running, snapshotVars>>
      BY <2>4 DEF DestroyImages, DestroyImage, heapVars
    <3>2. QED
      BY <1>3, <3>1, TurnKeepsTrackers
  <2>5. QED
    BY <1>3, <2>1, <2>2, <2>3, <2>4 DEF Destroy
<1>4. ASSUME NEW p \in Processes, TakeBack(p), faults' = faults
      PROVE  TrackerTypes' /\ TrackersInv'
  BY <1>4, ReleaseKeepsTrackers, ReleaseFailsKeepsTrackers, CleanupKeepsTrackers DEF TakeBack
<1>5. ASSUME NEW p \in Processes, Tracking(p), faults' = faults
      PROVE  TrackerTypes' /\ TrackersInv'
  BY <1>5, TrackingAddKeepsTrackers, TrackingRemoveKeepsTrackers DEF Tracking
<1>6. ASSUME NEW p \in Processes, Store(p), faults' = faults
      PROVE  TrackerTypes' /\ TrackersInv'
  <2>1. UNCHANGED <<trackerVars, running, snapshotVars, call>>
    BY <1>6 DEF Store, StoreCleanup, StoreCreate
  <2>2. faulty' \subseteq tracked
    BY <2>1 DEF Settled, TrackerTypes, trackerVars
  <2>3. QED
    BY <1>6, <2>1, <2>2, TrackersSame DEF trackerVars
<1>7. ASSUME NEW d \in Devices, CbtFault(d), faults' = faults
      PROVE  TrackerTypes' /\ TrackersInv'
  <2>1. UNCHANGED <<tracked, snapshotId, deferIo, running, snapshotVars, call>>
    BY <1>7 DEF CbtFault, heapVars
  <2>2. faulty' \subseteq tracked
    BY <1>7 DEF CbtFault, Settled, TrackerTypes
  <2>3. QED
    BY <1>7, <2>1, <2>2, TrackersSame
<1>8. QED
  BY <1>1, <1>2, <1>3, <1>4, <1>5, <1>6, <1>7 DEF Next

-----------------------------------------------------------------------------
(* The images.                                                             *)

(* A tracker that is captured keeps its defer IO object, or loses it.      *)
Steady == \A d \in Devices : deferIo[d] = None \/ deferIo'[d] \in {deferIo[d], None}

LEMMA DeferSteps ==
  ASSUME Settled, [Next]_vars
  PROVE  Steady
<1>1. deferIo' = deferIo => Steady
  BY DEF Steady
<1>2. ASSUME NEW d \in Devices, NEW id, AddTracker(d, id) \/ AddTrackerFails(d) PROVE Steady
  BY <1>2 DEF Steady, AddTracker, AddTrackerFails, Replace, trackerVars
<1>3. ASSUME NEW d \in Devices, ReleaseTracker(d) PROVE Steady
  BY <1>3, ReleaseEffect DEF Steady, Settled, TrackersInv
<1>4. ASSUME NEW p \in Processes, Create(p) PROVE Steady
  <2>1. CASE CreateAdd(p)
    <3>1. call[p].at = "add" /\ ~Idle(p)
      BY <2>1 DEF CreateAdd, Continue, Idle
    <3>2. Dev(p) \in Devices
      BY <3>1, CallFacts DEF Settled, ControlInv
    <3>3. QED
      BY <1>2, <2>1, <3>2 DEF CreateAdd
  <2>2. CASE CreateCapture(p)
    <3>1. PICK x : deferIo' = [deferIo EXCEPT ![Dev(p)] = x] /\ deferIo[Dev(p)] = None
      BY <2>2 DEF CreateCapture
    <3>2. QED
      BY <3>1 DEF Steady, Settled, TrackerTypes
  <2>3. QED
    BY <1>1, <1>4, <2>1, <2>2
    DEF Create, CreateStart, CreateCaptureFails, CreateCheck, CreateImage,
        CreateImageSwallowed, CreateImageFails, CreateUnmake, trackerVars
<1>5. ASSUME NEW p \in Processes, Destroy(p) PROVE Steady
  BY <1>1, <1>5
  DEF Destroy, DestroyStart, DestroyAllStart, TakeSnapshot, DestroyStop, DestroyImages, trackerVars
<1>6. ASSUME NEW p \in Processes, TakeBack(p) PROVE Steady
  <2>1. CASE Release(p) \/ ReleaseFails(p)
    <3>1. call[p].at = "release" /\ ~Idle(p) /\ ReleaseTracker(Dev(p))
      BY <2>1 DEF Release, ReleaseFails, Continue, Idle
    <3>2. Dev(p) \in Devices
      BY <3>1, CallFacts DEF Settled, ControlInv
    <3>3. QED
      BY <1>3, <3>1, <3>2
  <2>2. CASE Cleanup(p)
    BY <1>1, <2>2 DEF Cleanup
  <2>3. QED
    BY <1>6, <2>1, <2>2 DEF TakeBack
<1>7. ASSUME NEW p \in Processes, Tracking(p) PROVE Steady
  BY <1>2, <1>7 DEF Steady, Tracking, TrackingAdd, TrackingRemove, Replace
<1>8. ASSUME NEW p \in Processes, Store(p) PROVE Steady
  BY <1>1, <1>8 DEF Store, StoreCreate, StoreCleanup, trackerVars
<1>9. ASSUME NEW d \in Devices, CbtFault(d) PROVE Steady
  BY <1>1, <1>9 DEF CbtFault
<1>10. CASE UNCHANGED vars
  BY <1>1, <1>10 DEF vars, trackerVars
<1>11. QED
  BY <1>4, <1>5, <1>6, <1>7, <1>8, <1>9, <1>10 DEF Next

(* A device that is captured before and after a step has the same object.  *)
LEMMA SameImage ==
  ASSUME Steady, NEW d \in Devices, NEW s, Captured(d, s), Captured(d, s)', HasImage(d),
         \A x : Shown(d, x) => Shown(d, x)'
  PROVE  HasImage(d)'
<1>1. deferIo'[d] = deferIo[d]
  BY DEF Steady, Captured
<1>2. PICK x : x = deferIo[d]
  OBVIOUS
<1>3. Shown(d, x)'
  BY <1>2 DEF HasImage
<1>4. QED
  BY <1>1, <1>2, <1>3 DEF HasImage, Shown

(* A step for the snapshot s leaves the calls of others, Q, what they have. *)
LEMMA OtherImagesKept ==
  ASSUME Settled, Settled', Steady, ImageCallsInv, faults' = faults, NEW s,
         NEW Q \in SUBSET Processes,
         \A q \in Q : call'[q] = call[q] /\ (~Idle(q) => Snap(q) # s),
         \A t \in Snapshots \ {s} : status'[t] = status[t] /\ members'[t] = members[t],
         \A t \in Snapshots \ {s} : \A d \in Members(t) :
           /\ NoImage(d) => NoImage(d)'
           /\ \A x : Shown(d, x) => Shown(d, x)',
         \A p \in Processes \ Q : /\ NoneLeft => ImageCall(p)'
                                  /\ NoneLacking => MadeCall(p)',
         s \in Snapshots /\ NoneLacking =>
           (status'[s] = "created" => \A d \in Members(s)' : HasImage(d)')
  PROVE  ImageCallsInv'
<1> USE DEF Settled, TrackersInv
<1>1. \A t \in Snapshots \ {s} : Members(t)' = Members(t)
  BY DEF Members
<1>2. \A t \in Snapshots : Members(t) \subseteq Devices
  BY MembersAreDevices
<1>3. ASSUME NEW q \in Q, ~Idle(q)
      PROVE  /\ Snap(q) \in Snapshots \ {s} /\ call'[q] = call[q]
             /\ Snap(q)' = Snap(q) /\ Todo(q)' = Todo(q)
             /\ Members(Snap(q))' = Members(Snap(q)) /\ Done(q)' = Done(q)
             /\ Todo(q) \subseteq Members(Snap(q)) /\ Done(q) \subseteq Members(Snap(q))
  <2>1. Snap(q) \in Snapshots \ {s} /\ call'[q] = call[q] /\ Todo(q) \subseteq Members(Snap(q))
    BY <1>3 DEF ControlInv, CallsInv, CallOK, ListOK, Snap, Todo
  <2>2. Snap(q)' = Snap(q) /\ Todo(q)' = Todo(q)
    BY <2>1 DEF Snap, Todo
  <2>3. members'[Snap(q)] = members[Snap(q)]
    BY <2>1
  <2>4. Members(Snap(q))' = Members(Snap(q))
    BY <2>2, <2>3 DEF Members
  <2>5. QED
    BY <2>1, <2>2, <2>4 DEF Done
<1>4. ASSUME NEW q \in Q
      PROVE  /\ NoneLeft => ImageCall(q)'
             /\ NoneLacking => MadeCall(q)'
  <2>1. CASE Idle(q)
    BY <2>1 DEF Idle, ImageCall, MadeCall
  <2>2. CASE ~Idle(q)
    <3>1. NoneLeft => ImageCall(q)'
      <4>1. NoneLeft => ImageCall(q)
        BY DEF ImageCallsInv
      <4>2. \A d \in Members(Snap(q)) : NoImage(d) => NoImage(d)'
        BY <1>3, <2>2
      <4>3. QED
        BY <1>3, <2>2, <4>1, <4>2 DEF ImageCall
    <3>2. ASSUME NoneLacking, call[q].at = "image", NEW d \in Done(q) PROVE HasImage(d)'
      <4>1. PICK t \in Snapshots \ {s} : t = Snap(q) /\ Snap(q)' = t
        BY <1>3, <2>2
      <4>2. d \in Members(t) /\ d \in Devices /\ d \in Members(t)'
        BY <1>1, <1>2, <1>3, <2>2, <3>2, <4>1
      <4>3. Captured(d, t)
        BY <3>2, <4>1, <4>2 DEF CapturedInv, CallCaptured
      <4>4. call'[q].at = "image" /\ CallCaptured(q)'
        BY <1>3, <2>2, <3>2 DEF CapturedInv
      <4>5. Captured(d, t)'
        BY <4>1, <4>2, <4>4 DEF CallCaptured
      <4>6. HasImage(d)
        BY <3>2 DEF ImageCallsInv, MadeCall
      <4>7. QED
        BY <4>2, <4>3, <4>5, <4>6, SameImage
    <3>3. NoneLacking => MadeCall(q)'
      BY <1>3, <2>2, <3>2 DEF MadeCall
    <3>4. QED
      BY <3>1, <3>3
  <2>3. QED
    BY <2>1, <2>2
<1>5. ASSUME NoneLacking, NEW t \in Snapshots \ {s}, status'[t] = "created", NEW d \in Members(t)
      PROVE  HasImage(d)'
  <2>1. status[t] = "created" /\ d \in Devices /\ d \in Members(t)'
    BY <1>1, <1>2, <1>5
  <2>2. Captured(d, t) /\ Captured(d, t)'
    BY <1>5, <2>1 DEF CapturedInv, CreatedInv
  <2>3. HasImage(d)
    BY <1>5, <2>1 DEF ImageCallsInv
  <2>4. QED
    BY <2>1, <2>2, <2>3, SameImage
<1>6. NoneLeft' = NoneLeft /\ NoneLacking' = NoneLacking
  BY DEF NoneLeft, NoneLacking
<1>7. ASSUME NoneLeft' PROVE \A q \in Processes : ImageCall(q)'
  BY <1>4, <1>6, <1>7
<1>8. ASSUME NoneLacking'
      PROVE  /\ \A t \in Snapshots : status'[t] = "created" => \A d \in Members(t)' : HasImage(d)'
             /\ \A q \in Processes : MadeCall(q)'
  <2>1. \A t \in Snapshots : status'[t] = "created" => \A d \in Members(t)' : HasImage(d)'
    BY <1>1, <1>5, <1>6, <1>8
  <2>2. \A q \in Processes : MadeCall(q)'
    BY <1>4, <1>6, <1>8
  <2>3. QED
    BY <2>1, <2>2
<1>9. QED
  BY <1>7, <1>8 DEF ImageCallsInv

(* The list of images is as it was, but for what the images say of running. *)
SameImages ==
  /\ images' \in Seq(ImageSet) /\ DOMAIN images' = DOMAIN images
  /\ \A i \in DOMAIN images :
       images'[i].dev = images[i].dev /\ images'[i].defer = images[i].defer

LEMMA SameImagesShow ==
  ASSUME SameImages
  PROVE  \A d : (NoImage(d) => NoImage(d)') /\ \A x : Shown(d, x) => Shown(d, x)'
<1>1. ASSUME NEW d, NoImage(d) PROVE NoImage(d)'
  BY <1>1 DEF SameImages, NoImage
<1>2. ASSUME NEW d, NEW x, Shown(d, x) PROVE Shown(d, x)'
  BY <1>2 DEF SameImages, Shown
<1>3. QED
  BY <1>1, <1>2

LEMMA SameImagesList ==
  ASSUME SameImages, ImageListInv, faults' = faults,
         NoneLeft => \A d \in Devices : InSome(d) /\ ~NoImage(d) => InSome(d)'
  PROVE  ImageListInv'
<1>1. NoneLeft' = NoneLeft
  BY DEF NoneLeft
<1>2. \A i \in DOMAIN images' : images'[i].dev = NoDevice <=> images'[i].defer = None
  BY DEF SameImages, ImageListInv
<1>3. ASSUME NoneLeft, NEW i \in DOMAIN images
      PROVE  images'[i].dev \in Devices /\ \E s \in Snapshots : images'[i].dev \in Members(s)'
  <2>1. PICK d \in Devices : d = images[i].dev /\ InSome(d)
    BY <1>3 DEF ImageListInv
  <2>2. ~NoImage(d)
    BY <2>1 DEF NoImage
  <2>3. InSome(d)' /\ images'[i].dev = d
    BY <1>3, <2>1, <2>2 DEF SameImages
  <2>4. QED
    BY <2>3 DEF InSome
<1>4. ASSUME NoneLeft
      PROVE  \A i, j \in DOMAIN images' : images'[i].dev = images'[j].dev => i = j
  BY <1>4 DEF SameImages, ImageListInv
<1>5. QED
  BY <1>1, <1>2, <1>3, <1>4 DEF ImageListInv, InSome, SameImages

(* An image less.                                                          *)
LEMMA DestroyImageEffect ==
  ASSUME images \in Seq(ImageSet), NEW d, DestroyImage(d)
  PROVE  /\ images' \in Seq(ImageSet)
         /\ \A i \in DOMAIN images' : \E j \in DOMAIN images : images'[i] = images[j]
         /\ \A j \in DOMAIN images :
              images[j].dev # d => \E i \in DOMAIN images' : images'[i] = images[j]
         /\ (\A i, j \in DOMAIN images : images[i].dev = images[j].dev => i = j)
            => /\ NoImage(d)'
               /\ \A i, j \in DOMAIN images' : images'[i].dev = images'[j].dev => i = j
<1>1. CASE ImageOf(d) = 0
  <2>1. images' = images /\ NoImage(d)
    BY <1>1, ImageFound DEF DestroyImage
  <2>2. NoImage(d)'
    BY <2>1 DEF NoImage
  <2>3. QED
    BY <2>1, <2>2
<1>2. CASE ImageOf(d) # 0
  <2>1. PICK k \in DOMAIN images : k = ImageOf(d) /\ images[k].dev = d
    BY <1>2, ImageFound
  <2>2. images' = RemoveAt(images, k)
    BY <1>2, <2>1 DEF DestroyImage
  <2>3. DOMAIN images = 1 .. Len(images) /\ Len(images) \in Nat
    BY LenProperties
  <2>4. /\ images' \in Seq(ImageSet) /\ Len(images') = Len(images) - 1
        /\ \A i \in 1 .. Len(images) - 1 : images'[i] = IF i < k THEN images[i] ELSE images[i + 1]
    BY <2>2, <2>3, RemoveAtProperties
  <2>5. DOMAIN images' = 1 .. Len(images) - 1
    BY <2>4, LenProperties
  <2>6. \A i \in DOMAIN images' :
          \E j \in DOMAIN images : /\ j # k /\ images'[i] = images[j]
                                   /\ j = IF i < k THEN i ELSE i + 1
    BY <2>3, <2>4, <2>5
  <2>7. ASSUME NEW j \in DOMAIN images, images[j].dev # d
        PROVE  \E i \in DOMAIN images' : images'[i] = images[j]
    <3>1. j # k
      BY <2>1, <2>7
    <3>2. CASE j < k
      <4>1. j \in DOMAIN images' /\ images'[j] = images[j]
        BY <2>3, <2>4, <2>5, <3>2
      <4>2. QED
        BY <4>1
    <3>3. CASE j > k
      <4>1. j - 1 \in DOMAIN images' /\ ~(j - 1 < k) /\ (j - 1) + 1 = j
        BY <2>3, <2>5, <3>3
      <4>2. QED
        BY <2>4, <2>5, <4>1
    <3>4. QED
      BY <2>3, <3>1, <3>2, <3>3
  <2>8. ASSUME \A i, j \in DOMAIN images : images[i].dev = images[j].dev => i = j
        PROVE  /\ NoImage(d)'
               /\ \A i, j \in DOMAIN images' : images'[i].dev = images'[j].dev => i = j
    <3>1. NoImage(d)'
      BY <2>1, <2>6, <2>8 DEF NoImage
    <3>2. ASSUME NEW i \in DOMAIN images', NEW j \in DOMAIN images', images'[i].dev = images'[j].dev
          PROVE  i = j
      <4>1. PICK a \in DOMAIN images, b \in DOMAIN images :
              /\ images'[i] = images[a] /\ images'[j] = images[b]
              /\ a = IF i < k THEN i ELSE i + 1
              /\ b = IF j < k THEN j ELSE j + 1
        BY <2>6, <3>2
      <4>2. a = b
        BY <2>8, <3>2, <4>1
      <4>3. i \in Int /\ j \in Int /\ k \in Int
        BY <2>3, <2>5
      <4>4. QED
        BY <4>1, <4>2, <4>3
    <3>3. QED
      BY <3>1, <3>2
  <2>9. QED
    BY <2>4, <2>6, <2>7, <2>8
<1>3. QED
  BY <1>1, <1>2

ImagesOK == images \in Seq(ImageSet) /\ ImagesInv

(* Neither calls nor images move.                                          *)
LEMMA OutsideKeepsImages ==
  ASSUME Settled, Settled', Steady, ImagesOK, faults' = faults,
         UNCHANGED <<images, snapshotVars, call>>
  PROVE  ImagesOK'
<1>1. images' = images /\ members' = members /\ status' = status /\ call' = call
  BY DEF snapshotVars
<1>2. SameImages
  BY <1>1 DEF SameImages, ImagesOK
<1>3. ImageListInv'
  <2>1. \A d \in Devices : InSome(d)' = InSome(d)
    BY <1>1 DEF InSome, Members
  <2>2. QED
    BY <1>2, <2>1, SameImagesList DEF ImagesOK, ImagesInv
<1>4. ImageCallsInv'
  <2>1. \A q \in Processes : call'[q] = call[q] /\ (~Idle(q) => Snap(q) # None)
    BY <1>1, NoneIsOut DEF Settled, ControlInv, CallsInv, CallOK, Snap
  <2>2. \A d : (NoImage(d) => NoImage(d)') /\ \A x : Shown(d, x) => Shown(d, x)'
    BY <1>2, SameImagesShow
  <2>3. Processes \in SUBSET Processes /\ Processes \ Processes = {} /\ None \notin Snapshots
    BY NoneIsOut
  <2>4. \A t \in Snapshots \ {None} : status'[t] = status[t] /\ members'[t] = members[t]
    BY <1>1
  <2>5. QED
    BY <2>1, <2>2, <2>3, <2>4, OtherImagesKept DEF ImagesOK, ImagesInv
<1>5. QED
  BY <1>1, <1>3, <1>4 DEF ImagesOK, ImagesInv

(* A call goes on, and the images are as they were.                        *)
LEMMA CallKeepsImages ==
  ASSUME Settled, Settled', Steady, ImagesOK, faults' = faults, SameImages,
         NEW p \in Processes, NEW s \in Snapshots,
         \A q \in Processes \ {p} : call'[q] = call[q] /\ (~Idle(q) => Snap(q) # s),
         \A t \in Snapshots \ {s} : status'[t] = status[t] /\ members'[t] = members[t],
         NoneLeft => \A d \in Devices : InSome(d) /\ ~NoImage(d) => InSome(d)',
         NoneLeft => ImageCall(p)', NoneLacking => MadeCall(p)',
         NoneLacking => (status'[s] = "created" => \A d \in Members(s)' : HasImage(d)')
  PROVE  ImagesOK'
<1>1. ImageListInv'
  BY SameImagesList DEF ImagesOK, ImagesInv
<1>2. ImageCallsInv'
  <2>1. \A d : (NoImage(d) => NoImage(d)') /\ \A x : Shown(d, x) => Shown(d, x)'
    BY SameImagesShow
  <2>2. Processes \ {p} \in SUBSET Processes /\ Processes \ (Processes \ {p}) = {p}
    OBVIOUS
  <2>3. \A r \in Processes \ (Processes \ {p}) :
          (NoneLeft => ImageCall(r)') /\ (NoneLacking => MadeCall(r)')
    BY <2>2
  <2>4. QED
    BY <2>1, <2>2, <2>3, OtherImagesKept DEF ImagesOK, ImagesInv
<1>3. QED
  BY <1>1, <1>2 DEF SameImages, ImagesOK, ImagesInv

(* With failures that leave images behind, there is little to say of them. *)
LEMMA LossyImages ==
  ASSUME ImagesOK, ~NoneLeft, faults' = faults, images' \in Seq(ImageSet),
         \A i \in DOMAIN images' : \/ \E j \in DOMAIN images : images'[i].dev = images[j].dev
                                                            /\ images'[i].defer = images[j].defer
                                   \/ images'[i].dev = NoDevice <=> images'[i].defer = None
  PROVE  ImagesOK'
<1>1. ~NoneLeft' /\ ~NoneLacking'
  BY DEF NoneLeft, NoneLacking
<1>2. \A i \in DOMAIN images' : images'[i].dev = NoDevice <=> images'[i].defer = None
  BY DEF ImagesOK, ImagesInv, ImageListInv
<1>3. QED
  BY <1>1, <1>2 DEF ImagesOK, ImagesInv, ImageListInv, ImageCallsInv

(* Before there are images of the snapshot.                                *)
LEMMA EarlyKeepsImages ==
  ASSUME Settled, Settled', Steady, ImagesOK, faults' = faults, NEW p \in Processes,
         CreateAdd(p) \/ CreateCapture(p) \/ CreateCaptureFails(p) \/ CreateCheck(p)
  PROVE  ImagesOK'
<1>1. /\ images' = images /\ members' = members /\ status' = status
      /\ call[p].at \in {"add", "capture", "check"} /\ ~Idle(p)
  BY DEF CreateAdd, CreateCapture, CreateCaptureFails, CreateCheck, Continue, snapshotVars, Idle
<1>2. PICK s \in Snapshots : s = Snap(p) /\ \A q \in Processes \ {p} : ~Idle(q) => Snap(q) # s
  BY <1>1, OwnSnapshot DEF Settled
<1>3. SameImages
  BY <1>1 DEF SameImages, ImagesOK
<1> DEFINE Onward ==
             /\ Snap(p)' = s /\ Members(s)' = Members(s) /\ Todo(p)' \subseteq Members(s)
             /\ call'[p].at \in {"add", "capture", "check", "image", "cleanup", "release"}
             /\ call'[p].at = "image" => Done(p)' = {}
             /\ \A q \in Processes \ {p} : call'[q] = call[q]
<1>4. Onward
  <2>1. ASSUME NEW at \in {"add", "capture"}, NEW next \in {"capture", "check"},
               Continue(p, at, next)
        PROVE  Onward
    <3>1. Turn(p, at, next)
      BY <2>1, LoopStep DEF Settled, ControlInv, CallStates
    <3>2. QED
      BY <1>1, <1>2, <2>1, <3>1 DEF Turn, Moves, ListOK, Snap, Todo, Members
  <2>2. ASSUME NEW at \in {"cleanup", "release"}, Fail(p, at)
        PROVE  Onward
    <3>1. call[p].at \in Building /\ UNCHANGED <<snapshotVars, faults>>
      BY <1>1 DEF Building, CreateAdd, CreateCapture, CreateCaptureFails, CreateCheck
    <3>2. Moves(p, at, All(p), FALSE)
      BY <2>2, <3>1, FailKeepsControl DEF Settled
    <3>3. QED
      BY <1>1, <1>2, <3>2 DEF Moves, Snap, Todo, Members, All
  <2>3. ASSUME CreateCheck(p), Goto(p, "image", All(p))
        PROVE  Onward
    <3>1. All(p) \in Seq(Devices)
      BY <1>1, CallFacts DEF Settled, ControlInv
    <3>2. Moves(p, "image", All(p), call[p].ok)
      BY <2>3, <3>1, GotoMoves DEF Settled, CallStates
    <3>3. QED
      BY <1>1, <1>2, <3>2, AllToDo DEF Moves, Snap, Todo, Members, All
  <2>4. QED
    BY <2>1, <2>2, <2>3 DEF CreateAdd, CreateCapture, CreateCaptureFails, CreateCheck
<1>5. NoneLeft => \A d \in Members(s) : NoImage(d)'
  <2>1. NoneLeft => \A d \in Members(s) : NoImage(d)
    BY <1>1, <1>2 DEF ImagesOK, ImagesInv, ImageCallsInv, ImageCall
  <2>2. QED
    BY <1>1, <2>1 DEF NoImage
<1>6. NoneLeft => ImageCall(p)'
  BY <1>4, <1>5 DEF ImageCall
<1>7. MadeCall(p)'
  BY <1>4 DEF MadeCall
<1>8. status'[s] # "created"
  BY <1>1, <1>2 DEF Settled, ControlInv, CallsInv, CallOK, Snap
<1>9. \A d \in Devices : InSome(d)' = InSome(d)
  BY <1>1 DEF InSome, Members
<1>10. QED
  BY <1>1, <1>2, <1>3, <1>4, <1>6, <1>7, <1>8, <1>9, CallKeepsImages

(* A call starts: no image is of a device of the new snapshot.             *)
LEMMA CreateStartKeepsImages ==
  ASSUME Careful, Settled, Settled', Steady, ImagesOK, faults' = faults, NEW p \in Processes,
         NEW devs \in Sets, CreateStart(p, devs)
  PROVE  ImagesOK'
<1>1. /\ Idle(p) /\ NoRecapture(ToSet(devs)) /\ images' = images
  BY DEF CreateStart
<1>2. PICK s \in Snapshots :
        /\ status[s] = "none"
        /\ status' = [status EXCEPT ![s] = "creating"]
        /\ members' = [members EXCEPT ![s] = devs]
        /\ call' = [call EXCEPT ![p] = [at |-> "add", snapshot |-> s, todo |-> devs,
                                        all |-> FALSE, ok |-> TRUE]]
  BY DEF CreateStart
<1>3. /\ status'[s] = "creating" /\ members'[s] = devs
      /\ \A t \in Snapshots \ {s} : status'[t] = status[t] /\ members'[t] = members[t]
      /\ call'[p].at = "add" /\ call'[p].snapshot = s
      /\ \A q \in Processes \ {p} : call'[q] = call[q]
  BY <1>2 DEF Settled, ControlTypes
<1>4. /\ Members(s)' = ToSet(devs) /\ Snap(p)' = s
      /\ \A t \in Snapshots \ {s} : Members(t)' = Members(t)
  BY <1>3 DEF Members, Snap
<1>5. \A q \in Processes : ~Idle(q) => Snap(q) # s
  <2>1. \A q \in Processes : ~Idle(q) => status[Snap(q)] \in {"creating", "destroying"}
    BY DEF Settled, ControlInv, CallsInv, CallOK, Snap
  <2>2. QED
    BY <1>2, <2>1
<1>6. \A d \in ToSet(devs) : ~InSome(d)
  BY <1>1, InSnapshotMembers DEF Careful, NoRecapture, Settled, ControlInv, InSome
<1>7. \A d \in Devices : InSome(d) => InSome(d)'
  <2>1. members[s] = <<>>
    BY <1>2 DEF Settled, ControlInv, SnapshotsInv
  <2>2. Members(s) = {}
    BY <2>1, LenProperties, EmptySeq DEF Members, ToSet
  <2>3. QED
    BY <1>4, <2>2 DEF InSome
<1>8. NoneLeft => ImageCall(p)'
  <2>1. ASSUME NoneLeft, NEW d \in ToSet(devs) PROVE NoImage(d)'
    BY <1>1, <1>6, <2>1 DEF ImagesOK, ImagesInv, ImageListInv, NoImage
  <2>2. QED
    BY <1>3, <1>4, <2>1 DEF ImageCall
<1>9. MadeCall(p)' /\ status'[s] # "created" /\ SameImages
  BY <1>1, <1>3 DEF MadeCall, SameImages, ImagesOK
<1>10. QED
  BY <1>3, <1>5, <1>7, <1>8, <1>9, CallKeepsImages

LEMMA TakeKeepsImages ==
  ASSUME Settled, Settled', Steady, ImagesOK, faults' = faults, NEW p \in Processes, Idle(p),
         NEW s \in Snapshots, status[s] \notin {"none", "creating", "destroying"},
         NEW all \in BOOLEAN, TakeSnapshot(p, s, all)
  PROVE  ImagesOK'
<1>1. /\ members' = members /\ images' = images
      /\ status' = [status EXCEPT ![s] = "destroying"]
      /\ call' = [call EXCEPT ![p] = [at |-> "stop", snapshot |-> s, todo |-> members[s],
                                      all |-> all, ok |-> TRUE]]
  BY DEF TakeSnapshot
<1>2. /\ status'[s] = "destroying" /\ \A t \in Snapshots \ {s} : status'[t] = status[t]
      /\ call'[p].at = "stop" /\ \A q \in Processes \ {p} : call'[q] = call[q]
  BY <1>1 DEF Settled, ControlTypes
<1>3. \A q \in Processes : ~Idle(q) => Snap(q) # s
  <2>1. \A q \in Processes : ~Idle(q) => status[Snap(q)] \in {"creating", "destroying"}
    BY DEF Settled, ControlInv, CallsInv, CallOK, Snap
  <2>2. QED
    BY <2>1
<1>4. ImageCall(p)' /\ MadeCall(p)' /\ SameImages /\ \A d \in Devices : InSome(d)' = InSome(d)
  BY <1>1, <1>2 DEF ImageCall, MadeCall, SameImages, ImagesOK, InSome, Members
<1>5. QED
  BY <1>1, <1>2, <1>3, <1>4, CallKeepsImages

(* A destruction before its images go: they only stop.                     *)
LEMMA LateKeepsImages ==
  ASSUME Settled, Settled', Steady, ImagesOK, faults' = faults, NEW p \in Processes,
         DestroyStop(p) \/ Release(p)
  PROVE  ImagesOK'
<1>1. /\ members' = members /\ status' = status /\ ~Idle(p)
      /\ call[p].at \in {"stop", "release"}
      /\ DestroyStop(p) => call[p].at = "stop"
      /\ Release(p) => call[p].at = "release"
  BY DEF DestroyStop, Release, Continue, snapshotVars, Idle
<1>2. PICK s \in Snapshots : /\ s = Snap(p)
                             /\ \A q \in Processes \ {p} : ~Idle(q) => Snap(q) # s
                             /\ status[s] # "created" /\ CallOK(call[p])
  BY <1>1, OwnSnapshot DEF Settled, ControlInv, CallsInv, CallOK, Snap
<1>3. SameImages
  <2>1. CASE Release(p)
    BY <2>1 DEF Release, SameImages, ImagesOK
  <2>2. CASE DestroyStop(p)
    <3>1. CASE ImageOf(Dev(p)) = 0
      BY <2>2, <3>1 DEF DestroyStop, SameImages, ImagesOK
    <3>2. CASE ImageOf(Dev(p)) # 0
      <4>1. PICK k \in DOMAIN images : k = ImageOf(Dev(p))
        BY <3>2, ImageFound DEF ImagesOK
      <4>2. images' = [images EXCEPT ![k].running = FALSE]
        BY <2>2, <3>2, <4>1 DEF DestroyStop
      <4>3. images[k] \in ImageSet
        BY <4>1, ElementOfSeq, LenProperties DEF ImagesOK
      <4>4. images' = [images EXCEPT ![k] = [images[k] EXCEPT !.running = FALSE]]
        BY <4>2
      <4>5. [images[k] EXCEPT !.running = FALSE] \in ImageSet
        BY <4>3 DEF ImageSet
      <4>6. /\ images \in Seq(ImageSet) /\ k \in 1 .. Len(images)
            /\ DOMAIN images = 1 .. Len(images)
        BY <4>1, LenProperties DEF ImagesOK
      <4>7. images' \in Seq(ImageSet)
        BY <4>4, <4>5, <4>6, ExceptSeq
      <4>8. DOMAIN images' = DOMAIN images
        BY <4>4
      <4>9. \A i \in DOMAIN images :
              images'[i].dev = images[i].dev /\ images'[i].defer = images[i].defer
        BY <4>3, <4>4 DEF ImageSet
      <4>10. QED
        BY <4>7, <4>8, <4>9 DEF SameImages
    <3>3. QED
      BY <3>1, <3>2
  <2>3. QED
    BY <2>1, <2>2
<1>4. /\ \A q \in Processes \ {p} : call'[q] = call[q]
      /\ NoneLeft => ImageCall(p)'
      /\ MadeCall(p)'
  <2>1. CASE DestroyStop(p)
    <3>1. Continue(p, "stop", "release") /\ call[p].ok = TRUE
      BY <1>1, <1>2, <2>1, CallTypes DEF DestroyStop, CallOK, Settled
    <3>2. Turn(p, "stop", "release")
      BY <3>1, LoopStep DEF Settled, ControlInv, CallStates
    <3>3. /\ call'[p].at \in {"stop", "release"} /\ call'[p].ok = TRUE
          /\ \A q \in Processes \ {p} : call'[q] = call[q]
      BY <3>1, <3>2 DEF Turn, Moves
    <3>4. QED
      BY <3>3 DEF ImageCall, MadeCall
  <2>2. CASE Release(p)
    <3>1. PICK next \in {"destroy", "cleanup"} :
            /\ Continue(p, "release", next)
            /\ next = IF call[p].ok THEN "destroy" ELSE "cleanup"
      BY <2>2 DEF Release
    <3>2. Turn(p, "release", next)
      BY <3>1, LoopStep DEF Settled, ControlInv, CallStates
    <3>3. /\ Snap(p)' = s /\ Members(Snap(p))' = Members(s)
          /\ call'[p].at = "release" \/ (call'[p].at = next /\ Done(p)' = {})
          /\ call'[p].ok = call[p].ok
          /\ \A q \in Processes \ {p} : call'[q] = call[q]
      BY <1>1, <1>2, <3>2, TurnDone DEF Turn, Moves
    <3>4. NoneLeft /\ ~call[p].ok => \A d \in Members(s) : NoImage(d)
      BY <1>1, <1>2, <2>2 DEF ImagesOK, ImagesInv, ImageCallsInv, ImageCall
    <3>5. NoneLeft /\ ~call[p].ok => \A d \in Members(s) : NoImage(d)'
      BY <1>3, <3>4, SameImagesShow
    <3>6. NoneLeft => ImageCall(p)'
      BY <3>1, <3>3, <3>5 DEF ImageCall
    <3>7. MadeCall(p)'
      BY <3>1, <3>3 DEF MadeCall
    <3>8. QED
      BY <3>3, <3>6, <3>7
  <2>3. QED
    BY <2>1, <2>2
<1>5. \A d \in Devices : InSome(d)' = InSome(d)
  BY <1>1 DEF InSome, Members
<1>6. QED
  BY <1>1, <1>2, <1>3, <1>4, <1>5, CallKeepsImages

(* The snapshot is gone when no image is of its devices.                   *)
LEMMA CleanupKeepsImages ==
  ASSUME Settled, Settled', Steady, ImagesOK, faults' = faults, NEW p \in Processes, Cleanup(p)
  PROVE  ImagesOK'
<1>1. /\ ~Idle(p) /\ call[p].at = "cleanup" /\ images' = images
      /\ \/ /\ Ends(p) /\ Todo(p) = {Dev(p)}
            /\ status' = [status EXCEPT ![Snap(p)] = "none"]
            /\ members' = [members EXCEPT ![Snap(p)] = <<>>]
         \/ /\ status' = status /\ members' = members
            /\ Moves(p, "cleanup", call'[p].todo, call[p].ok)
            /\ ToSet(call'[p].todo) = Todo(p) \ {Dev(p)}
  BY CleanupSteps DEF Settled, Cleanup
<1>2. PICK s \in Snapshots : /\ s = Snap(p)
                             /\ \A q \in Processes \ {p} : ~Idle(q) => Snap(q) # s
                             /\ status[s] # "created"
  BY <1>1, OwnSnapshot DEF Settled, ControlInv, CallsInv, CallOK, Snap
<1>3. SameImages
  BY <1>1 DEF SameImages, ImagesOK
<1>4. NoneLeft => \A d \in Members(s) : NoImage(d) /\ NoImage(d)'
  <2>1. NoneLeft => \A d \in Members(s) : NoImage(d)
    BY <1>1, <1>2 DEF ImagesOK, ImagesInv, ImageCallsInv, ImageCall
  <2>2. QED
    BY <1>3, <2>1, SameImagesShow
<1>5. /\ \A q \in Processes \ {p} : call'[q] = call[q]
      /\ \A t \in Snapshots \ {s} : status'[t] = status[t] /\ members'[t] = members[t]
      /\ status'[s] # "created"
      /\ NoneLeft => ImageCall(p)'
      /\ MadeCall(p)'
  <2>1. CASE /\ Ends(p)
             /\ status' = [status EXCEPT ![Snap(p)] = "none"]
             /\ members' = [members EXCEPT ![Snap(p)] = <<>>]
    <3>1. /\ status'[s] = "none"
          /\ \A t \in Snapshots \ {s} : status'[t] = status[t] /\ members'[t] = members[t]
      BY <1>2, <2>1 DEF Settled, ControlTypes
    <3>2. ImageCall(p)' /\ MadeCall(p)'
      BY <2>1 DEF Ends, ImageCall, MadeCall
    <3>3. QED
      BY <2>1, <3>1, <3>2 DEF Ends
  <2>2. CASE /\ status' = status /\ members' = members
             /\ Moves(p, "cleanup", call'[p].todo, call[p].ok)
    <3>1. call'[p].at = "cleanup" /\ Snap(p)' = s /\ Members(s)' = Members(s)
      BY <1>2, <2>2 DEF Moves, Snap, Members
    <3>2. (NoneLeft => ImageCall(p)') /\ MadeCall(p)'
      BY <1>4, <3>1 DEF ImageCall, MadeCall
    <3>3. QED
      BY <1>2, <2>2, <3>2 DEF Moves
  <2>3. QED
    BY <1>1, <2>1, <2>2
<1>6. ASSUME NoneLeft, NEW d \in Devices, InSome(d), ~NoImage(d) PROVE InSome(d)'
  <2>1. PICK t \in Snapshots : d \in Members(t)
    BY <1>6 DEF InSome
  <2>2. t # s
    BY <1>4, <1>6, <2>1
  <2>3. d \in Members(t)'
    BY <1>5, <2>1, <2>2 DEF Members
  <2>4. QED
    BY <2>3 DEF InSome
<1>7. QED
  BY <1>2, <1>3, <1>5, <1>6, CallKeepsImages

(* Steps after which an image is left behind, or one too few is made.      *)
LEMMA FaultsKeepImages ==
  ASSUME Settled, Settled', Steady, ImagesOK, faults' = faults, NEW p \in Processes,
         ReleaseFails(p) \/ CreateImageSwallowed(p) \/ CreateImageFails(p) \/ CreateUnmake(p)
  PROVE  ImagesOK'
<1>1. CASE images' = images /\ ~NoneLeft
  BY <1>1, LossyImages DEF ImagesOK
<1>2. CASE ReleaseFails(p) \/ CreateImageFails(p)
  BY <1>1, <1>2 DEF ReleaseFails, CreateImageFails, NoneLeft
<1>3. CASE CreateUnmake(p)
  <2>1. call[p].at = "unmake" /\ ~Idle(p) /\ DestroyImage(Dev(p))
    BY <1>3 DEF CreateUnmake, Continue, Idle
  <2>2. ~NoneLeft
    BY <2>1 DEF Settled, ControlInv, CallsInv, CallOK, NoneLeft
  <2>3. /\ images' \in Seq(ImageSet)
        /\ \A i \in DOMAIN images' : \E j \in DOMAIN images : images'[i] = images[j]
    BY <2>1, DestroyImageEffect DEF ImagesOK
  <2>4. QED
    BY <2>2, <2>3, LossyImages
<1>4. ASSUME CreateImageSwallowed(p), "minor" \in faults,
             images' = Append(images, [dev |-> NoDevice, defer |-> None, running |-> FALSE])
      PROVE  ImagesOK'
  <2> DEFINE image == [dev |-> NoDevice, defer |-> None, running |-> FALSE]
  <2>1. image \in ImageSet /\ images \in Seq(ImageSet)
    BY DEF ImageSet, ImagesOK
  <2> HIDE DEF image
  <2>2. images' = Append(images, image)
    BY <1>4 DEF image
  <2>3. /\ images' \in Seq(ImageSet) /\ Len(images') = Len(images) + 1
        /\ \A i \in 1 .. Len(images) : images'[i] = images[i]
        /\ images'[Len(images) + 1] = image
    BY <2>1, <2>2, AppendProperties
  <2>4. /\ DOMAIN images = 1 .. Len(images) /\ DOMAIN images' = 1 .. Len(images) + 1
        /\ Len(images) \in Nat
    BY <2>1, <2>3, LenProperties
  <2>5. ASSUME NEW i \in DOMAIN images'
        PROVE  (i \in DOMAIN images /\ images'[i] = images[i]) \/ images'[i] = image
    BY <2>3, <2>4
  <2>6. image.dev = NoDevice /\ image.defer = None
    BY DEF image
  <2>7. ~NoneLeft
    BY <1>4 DEF NoneLeft
  <2>8. QED
    BY <2>3, <2>5, <2>6, <2>7, LossyImages
<1>5. ASSUME CreateImageSwallowed(p), "disk" \in faults, images' = images
      PROVE  ImagesOK'
  <2>1. call[p].at = "image" /\ ImageMade(p) /\ ~NoneLacking
    BY <1>5 DEF CreateImageSwallowed, NoneLacking
  <2>2. /\ ~Idle(p) /\ members' = members
        /\ \/ Ends(p) /\ status' = [status EXCEPT ![Snap(p)] = "created"]
           \/ /\ status' = status
              /\ Moves(p, "image", call'[p].todo, call[p].ok)
              /\ ToSet(call'[p].todo) = Todo(p) \ {Dev(p)}
    BY <2>1, ImageMadeSteps DEF Settled
  <2>3. PICK s \in Snapshots : s = Snap(p) /\ \A q \in Processes \ {p} : ~Idle(q) => Snap(q) # s
    BY <2>2, OwnSnapshot DEF Settled
  <2>4. SameImages
    BY <1>5 DEF SameImages, ImagesOK
  <2>5. /\ \A q \in Processes \ {p} : call'[q] = call[q]
        /\ \A t \in Snapshots \ {s} : status'[t] = status[t]
        /\ NoneLeft => ImageCall(p)'
    <3>1. CASE Ends(p) /\ status' = [status EXCEPT ![Snap(p)] = "created"]
      BY <2>3, <3>1 DEF Ends, ImageCall, Settled, ControlTypes
    <3>2. CASE /\ status' = status
               /\ Moves(p, "image", call'[p].todo, call[p].ok)
               /\ ToSet(call'[p].todo) = Todo(p) \ {Dev(p)}
      <4>1. call'[p].at = "image" /\ Todo(p)' \subseteq Todo(p)
        BY <3>2 DEF Moves, Todo
      <4>2. NoneLeft => \A d \in Todo(p) : NoImage(d)
        BY <2>1 DEF ImagesOK, ImagesInv, ImageCallsInv, ImageCall
      <4>3. NoneLeft => \A d \in Todo(p)' : NoImage(d)'
        BY <2>4, <4>1, <4>2, SameImagesShow
      <4>4. NoneLeft => ImageCall(p)'
        BY <4>1, <4>3 DEF ImageCall
      <4>5. QED
        BY <3>2, <4>4 DEF Moves
    <3>3. QED
      BY <2>2, <3>1, <3>2
  <2>6. \A d \in Devices : InSome(d)' = InSome(d)
    BY <2>2 DEF InSome, Members
  <2>7. QED
    BY <2>1, <2>2, <2>3, <2>4, <2>5, <2>6, CallKeepsImages
<1>6. QED
  BY <1>2, <1>3, <1>4, <1>5 DEF CreateImageSwallowed

(* An image is made.                                                       *)
LEMMA CreateImageKeepsImages ==
  ASSUME Settled, Settled', Steady, ImagesOK, faults' = faults, NEW p \in Processes,
         CreateImage(p)
  PROVE  ImagesOK'
<1>1. call[p].at = "image" /\ ImageMade(p) /\ deferIo' = deferIo
  BY DEF CreateImage, trackerVars
<1>2. /\ ~Idle(p) /\ members' = members
      /\ \/ /\ Ends(p) /\ Todo(p) = {Dev(p)}
            /\ status' = [status EXCEPT ![Snap(p)] = "created"]
         \/ /\ status' = status
            /\ Moves(p, "image", call'[p].todo, call[p].ok)
            /\ ToSet(call'[p].todo) = Todo(p) \ {Dev(p)}
  BY <1>1, ImageMadeSteps DEF Settled
<1>3. PICK d \in Devices, s \in Snapshots :
        /\ d = Dev(p) /\ s = Snap(p) /\ d \in Members(s) /\ d \in Todo(p)
        /\ \A q \in Processes \ {p} : ~Idle(q) => Snap(q) # s
  BY <1>2, CallFacts, OwnSnapshot DEF Settled, ControlInv
<1>4. PICK image \in ImageSet :
        /\ image.dev = d /\ image.defer = deferIo[d] /\ deferIo[d] # None
        /\ images' = Append(images, image)
  <2>1. deferIo[d] \in Defers \cup {None}
    BY DEF Settled, TrackerTypes
  <2>2. [dev |-> d, defer |-> deferIo[d], running |-> TRUE] \in ImageSet
    BY <2>1 DEF ImageSet
  <2>3. QED
    BY <1>3, <2>2 DEF CreateImage
<1>5. /\ images' \in Seq(ImageSet)
      /\ \A i \in DOMAIN images : i \in DOMAIN images' /\ images'[i] = images[i]
      /\ \E k \in DOMAIN images' :
           /\ images'[k] = image
           /\ \A i \in DOMAIN images' : i # k => i \in DOMAIN images
  <2>1. images \in Seq(ImageSet)
    BY DEF ImagesOK
  <2>2. /\ images' \in Seq(ImageSet) /\ Len(images') = Len(images) + 1
        /\ \A i \in 1 .. Len(images) : images'[i] = images[i]
        /\ images'[Len(images) + 1] = image
    BY <1>4, <2>1, AppendProperties
  <2>3. /\ DOMAIN images = 1 .. Len(images) /\ DOMAIN images' = 1 .. Len(images) + 1
        /\ Len(images) \in Nat
    BY <2>1, <2>2, LenProperties
  <2>4. /\ Len(images) + 1 \in DOMAIN images'
        /\ \A i \in DOMAIN images' : i # Len(images) + 1 => i \in DOMAIN images
        /\ \A i \in DOMAIN images : i \in DOMAIN images'
    BY <2>3
  <2>5. QED
    BY <2>2, <2>3, <2>4
<1>6. PICK k \in DOMAIN images' :
        images'[k] = image /\ \A i \in DOMAIN images' : i # k => i \in DOMAIN images
  BY <1>5
<1>7. NoneLeft => \A e \in Todo(p) : NoImage(e)
  BY <1>1 DEF ImagesOK, ImagesInv, ImageCallsInv, ImageCall
<1>8. ASSUME NEW e, e # d, NoImage(e) PROVE NoImage(e)'
  BY <1>4, <1>5, <1>6, <1>8 DEF NoImage
<1>9. ASSUME NEW e, NEW x, Shown(e, x) PROVE Shown(e, x)'
  BY <1>5, <1>9 DEF Shown
<1>10. HasImage(d)' /\ \A e : HasImage(e) => HasImage(e)'
  <2>1. HasImage(d)'
    BY <1>1, <1>4, <1>6 DEF HasImage, Shown
  <2>2. ASSUME NEW e, HasImage(e) PROVE HasImage(e)'
    BY <1>1, <1>5, <2>2 DEF HasImage, Shown
  <2>3. QED
    BY <2>1, <2>2
<1>11. ImageListInv'
  <2>1. \A i \in DOMAIN images' : images'[i].dev = NoDevice <=> images'[i].defer = None
    <3>1. image.dev # NoDevice /\ image.defer # None
      BY <1>4, LifecycleAssumption
    <3>2. QED
      BY <1>5, <1>6, <3>1 DEF ImagesOK, ImagesInv, ImageListInv
  <2>2. ASSUME NoneLeft
        PROVE  /\ \A i \in DOMAIN images' : images'[i].dev \in Devices /\ InSome(images'[i].dev)
               /\ \A i, j \in DOMAIN images' : images'[i].dev = images'[j].dev => i = j
    <3>1. InSome(d)
      BY <1>3 DEF InSome
    <3>2. \A i \in DOMAIN images' : images'[i].dev \in Devices /\ InSome(images'[i].dev)
      BY <1>4, <1>5, <1>6, <2>2, <3>1 DEF ImagesOK, ImagesInv, ImageListInv
    <3>3. \A i \in DOMAIN images : images[i].dev # d
      BY <1>3, <1>7, <2>2 DEF NoImage
    <3>4. \A i, j \in DOMAIN images' : images'[i].dev = images'[j].dev => i = j
      BY <1>4, <1>5, <1>6, <2>2, <3>3 DEF ImagesOK, ImagesInv, ImageListInv
    <3>5. QED
      BY <3>2, <3>4
  <2>3. QED
    BY <1>2, <2>1, <2>2 DEF ImageListInv, NoneLeft, InSome, Members
<1>12. NoneLacking => \A e \in Done(p) \cup {d} : HasImage(e)'
  BY <1>1, <1>10 DEF ImagesOK, ImagesInv, ImageCallsInv, MadeCall
<1>13. /\ \A q \in Processes \ {p} : call'[q] = call[q]
       /\ \A t \in Snapshots \ {s} : status'[t] = status[t] /\ members'[t] = members[t]
       /\ NoneLeft => ImageCall(p)'
       /\ NoneLacking => MadeCall(p)'
       /\ NoneLacking => (status'[s] = "created" => \A e \in Members(s)' : HasImage(e)')
  <2>1. Members(s)' = Members(s)
    BY <1>2 DEF Members
  <2>2. CASE /\ Ends(p) /\ Todo(p) = {Dev(p)}
             /\ status' = [status EXCEPT ![Snap(p)] = "created"]
    <3>1. Members(s) = Done(p) \cup {d}
      BY <1>3, <2>2 DEF Done
    <3>2. QED
      BY <1>2, <1>3, <1>12, <2>1, <2>2, <3>1
      DEF Ends, ImageCall, MadeCall, Settled, ControlTypes
  <2>3. CASE /\ status' = status
             /\ Moves(p, "image", call'[p].todo, call[p].ok)
             /\ ToSet(call'[p].todo) = Todo(p) \ {Dev(p)}
    <3>1. call'[p].at = "image" /\ Snap(p)' = s /\ Todo(p)' = Todo(p) \ {d}
      BY <1>3, <2>3 DEF Moves, Todo, Snap
    <3>2. Done(p)' \subseteq Done(p) \cup {d}
      BY <1>3, <2>1, <3>1 DEF Done
    <3>3. NoneLeft => ImageCall(p)'
      BY <1>7, <1>8, <3>1 DEF ImageCall
    <3>4. NoneLacking => MadeCall(p)'
      BY <1>12, <3>1, <3>2 DEF MadeCall
    <3>5. status'[s] # "created"
      BY <1>1, <1>2, <1>3, <2>3 DEF Settled, ControlInv, CallsInv, CallOK, Snap
    <3>6. QED
      BY <1>2, <2>3, <3>3, <3>4, <3>5 DEF Moves
  <2>4. QED
    BY <1>2, <2>2, <2>3
<1>14. ImageCallsInv'
  <2>1. ASSUME NEW t \in Snapshots \ {s}, NEW e \in Members(t)
        PROVE  /\ NoImage(e) => NoImage(e)'
               /\ \A x : Shown(e, x) => Shown(e, x)'
    <3>1. e # d
      BY <1>3, <2>1, OneSnapshot DEF Settled, ControlInv
    <3>2. QED
      BY <1>8, <1>9, <3>1
  <2>2. Processes \ {p} \in SUBSET Processes /\ Processes \ (Processes \ {p}) = {p}
    OBVIOUS
  <2>3. \A r \in Processes \ (Processes \ {p}) :
          (NoneLeft => ImageCall(r)') /\ (NoneLacking => MadeCall(r)')
    BY <1>13, <2>2
  <2>4. \A q \in Processes \ {p} : call'[q] = call[q] /\ (~Idle(q) => Snap(q) # s)
    BY <1>3, <1>13
  <2>5. QED
    BY <1>13, <2>1, <2>2, <2>3, <2>4, OtherImagesKept DEF ImagesOK, ImagesInv
<1>15. QED
  BY <1>5, <1>11, <1>14 DEF ImagesOK, ImagesInv

(* An image goes.                                                          *)
LEMMA DestroyImagesKeepsImages ==
  ASSUME Settled, Settled', Steady, ImagesOK, faults' = faults, NEW p \in Processes,
         DestroyImages(p)
  PROVE  ImagesOK'
<1>1. /\ call[p].at = "destroy" /\ members' = members /\ status' = status
      /\ Continue(p, "destroy", "cleanup")
  BY DEF DestroyImages, Continue, snapshotVars
<1>2. ~Idle(p) /\ Turn(p, "destroy", "cleanup")
  BY <1>1, LoopStep DEF Settled, ControlInv, CallStates
<1>3. PICK d \in Devices, s \in Snapshots :
        /\ d = Dev(p) /\ s = Snap(p) /\ d \in Members(s)
        /\ \A q \in Processes \ {p} : ~Idle(q) => Snap(q) # s
        /\ status[s] # "created"
  BY <1>1, <1>2, OwnSnapshot DEF Turn, Settled, ControlInv, CallsInv, CallOK, Snap
<1>4. /\ images' \in Seq(ImageSet)
      /\ \A i \in DOMAIN images' : \E j \in DOMAIN images : images'[i] = images[j]
      /\ \A j \in DOMAIN images :
           images[j].dev # d => \E i \in DOMAIN images' : images'[i] = images[j]
      /\ (\A i, j \in DOMAIN images : images[i].dev = images[j].dev => i = j)
         => /\ NoImage(d)'
            /\ \A i, j \in DOMAIN images' : images'[i].dev = images'[j].dev => i = j
  BY <1>3, DestroyImageEffect DEF DestroyImages, ImagesOK
<1>5. ImageListInv'
  <2>1. \A e \in Devices : InSome(e)' = InSome(e)
    BY <1>1 DEF InSome, Members
  <2>2. \A i \in DOMAIN images' : images'[i].dev = NoDevice <=> images'[i].defer = None
    BY <1>4 DEF ImagesOK, ImagesInv, ImageListInv
  <2>3. NoneLeft =>
          \A i \in DOMAIN images' : images'[i].dev \in Devices /\ InSome(images'[i].dev)
    BY <1>4 DEF ImagesOK, ImagesInv, ImageListInv
  <2>4. NoneLeft => \A i, j \in DOMAIN images' : images'[i].dev = images'[j].dev => i = j
    BY <1>4 DEF ImagesOK, ImagesInv, ImageListInv
  <2>5. QED
    BY <1>1, <2>2, <2>3, <2>4 DEF ImageListInv, NoneLeft, InSome, Members
<1>6. ASSUME NEW e, NoImage(e) PROVE NoImage(e)'
  BY <1>4, <1>6 DEF NoImage
<1>7. ASSUME NEW e, e # d, NEW x, Shown(e, x) PROVE Shown(e, x)'
  BY <1>4, <1>7 DEF Shown
<1>8. NoneLeft => \A e \in Done(p) \cup {d} : NoImage(e)'
  <2>1. NoneLeft => NoImage(d)'
    BY <1>4 DEF ImagesOK, ImagesInv, ImageListInv
  <2>2. NoneLeft => \A e \in Done(p) : NoImage(e)
    BY <1>1 DEF ImagesOK, ImagesInv, ImageCallsInv, ImageCall
  <2>3. QED
    BY <1>6, <2>1, <2>2
<1>9. /\ NoneLeft => ImageCall(p)'
      /\ MadeCall(p)'
  <2>1. /\ Snap(p)' = s /\ Members(Snap(p))' = Members(s)
        /\ \/ call'[p].at = "destroy" /\ Done(p)' = Done(p) \cup {d}
           \/ call'[p].at = "cleanup" /\ Members(s) = Done(p) \cup {d}
    BY <1>1, <1>2, <1>3, TurnDone
  <2>2. NoneLeft => ImageCall(p)'
    BY <1>8, <2>1 DEF ImageCall
  <2>3. QED
    BY <2>1, <2>2 DEF MadeCall
<1>10. ImageCallsInv'
  <2>1. ASSUME NEW t \in Snapshots \ {s}, NEW e \in Members(t)
        PROVE  /\ NoImage(e) => NoImage(e)'
               /\ \A x : Shown(e, x) => Shown(e, x)'
    <3>1. e # d
      BY <1>3, <2>1, OneSnapshot DEF Settled, ControlInv
    <3>2. QED
      BY <1>6, <1>7, <3>1
  <2>2. Processes \ {p} \in SUBSET Processes /\ Processes \ (Processes \ {p}) = {p}
    OBVIOUS
  <2>3. \A r \in Processes \ (Processes \ {p}) :
          (NoneLeft => ImageCall(r)') /\ (NoneLacking => MadeCall(r)')
    BY <1>9, <2>2
  <2>4. /\ \A q \in Processes \ {p} : call'[q] = call[q] /\ (~Idle(q) => Snap(q) # s)
        /\ \A t \in Snapshots \ {s} : status'[t] = status[t] /\ members'[t] = members[t]
        /\ status'[s] # "created"
    BY <1>1, <1>2, <1>3 DEF Turn, Moves
  <2>5. QED
    BY <2>1, <2>2, <2>3, <2>4, OtherImagesKept DEF ImagesOK, ImagesInv
<1>11. QED
  BY <1>4, <1>5, <1>10 DEF ImagesOK, ImagesInv

(* Every step keeps the invariant of the images.                           *)
LEMMA ImagesStep ==
  ASSUME Careful, Settled, Settled', ImagesOK, [Next]_vars
  PROVE  ImagesOK'
<1>1. Steady
  BY DeferSteps
<1>2. CASE UNCHANGED vars
  BY <1>1, <1>2, OutsideKeepsImages DEF vars
<1>3. ASSUME NEW p \in Processes, Create(p), faults' = faults PROVE ImagesOK'
  <2>1. ASSUME NEW devs \in Sets, CreateStart(p, devs) PROVE ImagesOK'
    BY <1>1, <1>3, <2>1, CreateStartKeepsImages
  <2>2. CASE CreateAdd(p) \/ CreateCapture(p) \/ CreateCaptureFails(p) \/ CreateCheck(p)
    BY <1>1, <1>3, <2>2, EarlyKeepsImages
  <2>3. CASE CreateImage(p)
    BY <1>1, <1>3, <2>3, CreateImageKeepsImages
  <2>4. CASE CreateImageSwallowed(p) \/ CreateImageFails(p) \/ CreateUnmake(p)
    BY <1>1, <1>3, <2>4, FaultsKeepImages
  <2>5. QED
    BY <1>3, <2>1, <2>2, <2>3, <2>4 DEF Create
<1>4. ASSUME NEW p \in Processes, Destroy(p), faults' = faults PROVE ImagesOK'
  <2>1. ASSUME NEW s \in Snapshots, DestroyStart(p, s) PROVE ImagesOK'
    BY <1>1, <1>4, <2>1, TakeKeepsImages DEF DestroyStart
  <2>2. CASE DestroyAllStart(p)
    <3>1. /\ Head(listed) \in Snapshots
          /\ status[Head(listed)] \notin {"none", "creating", "destroying"}
      BY <2>2, DestroyAllTakes DEF Careful, Settled
    <3>2. Idle(p) /\ TakeSnapshot(p, Head(listed), TRUE)
      BY <2>2 DEF DestroyAllStart
    <3>3. QED
      BY <1>1, <1>4, <3>1, <3>2, TakeKeepsImages
  <2>3. CASE DestroyStop(p)
    BY <1>1, <1>4, <2>3, LateKeepsImages
  <2>4. CASE DestroyImages(p)
    BY <1>1, <1>4, <2>4, DestroyImagesKeepsImages
  <2>5. QED
    BY <1>4, <2>1, <2>2, <2>3, <2>4 DEF Destroy
<1>5. ASSUME NEW p \in Processes, TakeBack(p), faults' = faults PROVE ImagesOK'
  BY <1>1, <1>5, LateKeepsImages, FaultsKeepImages, CleanupKeepsImages DEF TakeBack
<1>6. ASSUME NEW p \in Processes, Tracking(p) \/ Store(p), faults' = faults PROVE ImagesOK'
  <2>1. UNCHANGED <<images, snapshotVars, call>>
    BY <1>6 DEF Tracking, TrackingAdd, TrackingRemove, Store, StoreCreate, StoreCleanup
  <2>2. QED
    BY <1>1, <1>6, <2>1, OutsideKeepsImages
<1>7. ASSUME NEW d \in Devices, CbtFault(d), faults' = faults PROVE ImagesOK'
  <2>1. UNCHANGED <<images, snapshotVars, call>>
    BY <1>7 DEF CbtFault
  <2>2. QED
    BY <1>1, <1>7, <2>1, OutsideKeepsImages
<1>8. QED
  BY <1>2, <1>3, <1>4, <1>5, <1>6, <1>7 DEF Next

-----------------------------------------------------------------------------
(* Counting in sequences.                                                  *)

At(s, V) == {i \in DOMAIN s : s[i] \in V}

LEMMA AtFinite ==
  ASSUME NEW S, NEW s \in Seq(S), NEW V
  PROVE  IsFiniteSet(At(s, V)) /\ Cardinality(At(s, V)) \in Nat
<1>1. DOMAIN s = 1 .. Len(s) /\ Len(s) \in Nat
  BY LenProperties
<1>2. IsFiniteSet(DOMAIN s) /\ At(s, V) \subseteq DOMAIN s
  BY <1>1, FS_Interval DEF At
<1>3. IsFiniteSet(At(s, V))
  BY <1>2, FS_Subset
<1>4. QED
  BY <1>3, FS_CardinalityType

LEMMA AtAppend ==
  ASSUME NEW S, NEW s \in Seq(S), NEW V, NEW e \in S
  PROVE  Cardinality(At(Append(s, e), V)) = Cardinality(At(s, V)) + (IF e \in V THEN 1 ELSE 0)
<1> DEFINE n == Len(s)
           longer == Append(s, e)
<1>1. n \in Nat /\ DOMAIN s = 1 .. n
  BY LenProperties
<1>2. /\ longer \in Seq(S) /\ Len(longer) = n + 1 /\ longer[n + 1] = e
      /\ \A i \in 1 .. n : longer[i] = s[i]
  BY <1>1, AppendProperties
<1>3. DOMAIN longer = 1 .. n + 1
  BY <1>2, LenProperties
<1> HIDE DEF longer, n
<1>4. At(longer, V) = At(s, V) \cup (IF e \in V THEN {n + 1} ELSE {})
  BY <1>1, <1>2, <1>3 DEF At
<1>5. n + 1 \notin At(s, V)
  BY <1>1 DEF At
<1>6. IsFiniteSet(At(s, V)) /\ Cardinality(At(s, V)) \in Nat
  BY AtFinite
<1>7. Cardinality(At(s, V) \cup {n + 1}) = Cardinality(At(s, V)) + 1
  BY <1>5, <1>6, FS_AddElement
<1>8. CASE e \in V
  BY <1>4, <1>7, <1>8 DEF longer
<1>9. CASE e \notin V
  <2>1. At(longer, V) = At(s, V)
    BY <1>4, <1>9
  <2>2. QED
    BY <1>6, <1>9, <2>1 DEF longer
<1>10. QED
  BY <1>8, <1>9

LEMMA AtRemove ==
  ASSUME NEW S, NEW s \in Seq(S), NEW V, NEW k \in 1 .. Len(s)
  PROVE  Cardinality(At(RemoveAt(s, k), V))
           = Cardinality(At(s, V)) - (IF s[k] \in V THEN 1 ELSE 0)
<1> DEFINE n == Len(s)
           rest == RemoveAt(s, k)
           left == At(rest, V)
           from == [i \in left |-> IF i < k THEN i ELSE i + 1]
<1>1. n \in Nat /\ DOMAIN s = 1 .. n /\ k \in Nat /\ 1 <= k /\ k <= n
  BY LenProperties
<1>2. /\ rest \in Seq(S) /\ Len(rest) = n - 1
      /\ \A i \in 1 .. n - 1 : rest[i] = IF i < k THEN s[i] ELSE s[i + 1]
  BY RemoveAtProperties
<1>3. DOMAIN rest = 1 .. n - 1
  BY <1>2, LenProperties
<1> HIDE DEF rest, n
<1>4. \A i \in left : /\ i \in 1 .. n - 1
                      /\ i < k => s[i] \in V
                      /\ i >= k => s[i + 1] \in V
  BY <1>1, <1>2, <1>3 DEF At
<1>5. \A j \in At(s, V) \ {k} :
        /\ j \in 1 .. n /\ (j < k \/ j > k)
        /\ j < k => j \in left
        /\ j > k => j - 1 \in left /\ (j - 1) + 1 = j /\ ~(j - 1 < k)
  <2>1. SUFFICES ASSUME NEW j \in 1 .. n, s[j] \in V, j # k
                 PROVE  /\ j < k \/ j > k
                        /\ j < k => j \in left
                        /\ j > k => j - 1 \in left /\ (j - 1) + 1 = j /\ ~(j - 1 < k)
    BY <1>1 DEF At
  <2>2. CASE j < k
    BY <1>1, <1>2, <1>3, <2>1, <2>2 DEF At
  <2>3. CASE j > k
    <3>1. j - 1 \in 1 .. n - 1 /\ (j - 1) + 1 = j /\ ~(j - 1 < k)
      BY <1>1, <2>3
    <3>2. rest[j - 1] = s[j]
      BY <1>2, <3>1
    <3>3. QED
      BY <1>1, <1>3, <2>1, <2>3, <3>1, <3>2 DEF At
  <2>4. QED
    BY <1>1, <2>1, <2>2, <2>3
<1> HIDE DEF left
<1>6. from \in [left -> At(s, V) \ {k}]
  <2>1. ASSUME NEW i \in left PROVE from[i] \in At(s, V) \ {k}
    BY <1>1, <1>4 DEF At
  <2>2. QED
    BY <2>1
<1>7. \A i, j \in left : from[i] = from[j] => i = j
  <2>1. \A i \in left : i \in Nat
    BY <1>1, <1>4
  <2>2. QED
    BY <1>1, <2>1
<1>8. \A j \in At(s, V) \ {k} : \E i \in left : from[i] = j
  BY <1>1, <1>5
<1> HIDE DEF from
<1>9. from \in Bijection(left, At(s, V) \ {k})
  BY <1>6, <1>7, <1>8, Fun_IsBij
<1>10. IsFiniteSet(left)
  BY <1>2, AtFinite DEF left
<1>11. Cardinality(At(s, V) \ {k}) = Cardinality(left)
  BY <1>9, <1>10, FS_Bijection DEF ExistsBijection
<1>12. IsFiniteSet(At(s, V))
  BY AtFinite
<1>13. /\ k \in At(s, V) <=> s[k] \in V
       /\ Cardinality(At(s, V)) \in Nat
  <2>1. Cardinality(At(s, V)) \in Nat
    BY AtFinite
  <2>2. QED
    BY <1>1, <2>1 DEF At
<1>14. Cardinality(At(s, V) \ {k}) =
         IF k \in At(s, V) THEN Cardinality(At(s, V)) - 1 ELSE Cardinality(At(s, V))
  BY <1>12, FS_RemoveElement
<1>15. QED
  BY <1>11, <1>13, <1>14 DEF left, rest

-----------------------------------------------------------------------------
(* Putting references.                                                     *)

LEMMA HeapsAreFinite ==
  /\ IsFiniteSet(StoreDevices)
  /\ \A P \in SUBSET StoreDevices : IsFiniteSet(P) /\ Cardinality(P) \in Nat
  /\ \A P \in SUBSET Defers : IsFiniteSet(P) /\ Cardinality(P) \in Nat
  /\ \A P \in SUBSET Devices : IsFiniteSet(P) /\ Cardinality(P) \in Nat
<1>1. IsFiniteSet(StoreDevices)
  BY LifecycleAssumption, FS_Product DEF StoreDevices
<1>2. \A P \in SUBSET StoreDevices : IsFiniteSet(P)
  BY <1>1, FS_Subset
<1>3. \A P \in SUBSET Defers : IsFiniteSet(P)
  <2>1. IsFiniteSet(Defers)
    BY LifecycleAssumption
  <2>2. QED
    BY <2>1, FS_Subset
<1>4. \A P \in SUBSET Devices : IsFiniteSet(P)
  BY LifecycleAssumption, FS_Subset
<1>5. QED
  BY <1>1, <1>2, <1>3, <1>4, FS_CardinalityType

LEMMA NonEmptyCount ==
  ASSUME NEW P, IsFiniteSet(P), Cardinality(P) \in Nat, NEW x \in P
  PROVE  Cardinality(P) > 0
<1>1. Cardinality(P) # 0
  BY FS_EmptySet
<1>2. QED
  BY <1>1

InUse(r, s) == {sd \in StoreDevices : sd[1] = s /\ r.device[sd] > 0}

(* A snapstore counts its devices in use: which of them changes.           *)
LEMMA PutStoreDeviceEffect ==
  ASSUME NEW r \in RefSet, StoresOK(r), NEW sd \in StoreDevices, r.device[sd] > 0
  PROVE  LET less == PutStoreDevice(r, sd)
         IN /\ less \in RefSet /\ StoresOK(less)
            /\ less.defer = r.defer
            /\ less.device = [r.device EXCEPT ![sd] = @ - 1]
<1> DEFINE device == [r.device EXCEPT ![sd] = @ - 1]
           once == [r EXCEPT !.device[sd] = @ - 1]
           less == PutStoreDevice(r, sd)
<1>1. /\ r.device \in [StoreDevices -> Nat] /\ r.store \in [Stores -> Nat]
      /\ r.defer \in [Defers -> Nat]
      /\ sd[1] \in Stores
  BY DEF RefSet, StoreDevices
<1>2. /\ device \in [StoreDevices -> Nat] /\ device[sd] = r.device[sd] - 1
      /\ \A e \in StoreDevices \ {sd} : device[e] = r.device[e]
  BY <1>1
<1>3. once \in RefSet /\ once.device = device /\ once.store = r.store /\ once.defer = r.defer
  BY <1>1, <1>2 DEF RefSet
<1>4. less = IF device[sd] = 0 THEN PutStore(once, sd[1]) ELSE once
  BY <1>3 DEF PutStoreDevice
<1> HIDE DEF device, once, less
<1>5. \A s \in Stores : /\ r.store[s] = Cardinality(InUse(r, s))
                        /\ InUse(r, s) \in SUBSET StoreDevices
  BY DEF StoresOK, InUse
<1>6. CASE device[sd] = 0
  <2>1. r.store[sd[1]] > 0
    <3>1. sd \in InUse(r, sd[1])
      BY DEF InUse
    <3>2. QED
      BY <1>1, <1>5, <3>1, HeapsAreFinite, NonEmptyCount
  <2>2. /\ less \in RefSet /\ less.device = device /\ less.defer = r.defer
        /\ less.store = [r.store EXCEPT ![sd[1]] = @ - 1]
    BY <1>1, <1>3, <1>4, <1>6, <2>1 DEF PutStore, RefSet
  <2>3. ASSUME NEW s \in Stores PROVE less.store[s] = Cardinality(InUse(less, s))
    <3>1. InUse(less, s) = InUse(r, s) \ {sd}
      BY <1>2, <1>6, <2>2 DEF InUse
    <3>2. Cardinality(InUse(less, s)) =
            IF sd \in InUse(r, s) THEN Cardinality(InUse(r, s)) - 1 ELSE Cardinality(InUse(r, s))
      BY <1>5, <3>1, HeapsAreFinite, FS_RemoveElement
    <3>3. sd \in InUse(r, s) <=> s = sd[1]
      BY DEF InUse
    <3>4. QED
      BY <1>1, <1>5, <2>2, <3>2, <3>3
  <2>4. QED
    BY <2>2, <2>3 DEF less, device, StoresOK, InUse
<1>7. CASE device[sd] # 0
  <2>1. less = once
    BY <1>4, <1>7
  <2>2. ASSUME NEW s \in Stores PROVE InUse(less, s) = InUse(r, s)
    <3>1. device[sd] > 0
      <4>1. device[sd] \in Nat
        BY <1>2
      <4>2. QED
        BY <1>7, <4>1
    <3>2. \A e \in StoreDevices : device[e] > 0 <=> r.device[e] > 0
      BY <1>2, <3>1
    <3>3. QED
      BY <1>3, <2>1, <3>2 DEF InUse
  <2>3. StoresOK(less)
    <3>1. \A s \in Stores : less.store[s] = Cardinality(InUse(less, s))
      BY <1>3, <1>5, <2>1, <2>2
    <3>2. QED
      BY <3>1 DEF StoresOK, InUse
  <2>4. QED
    BY <1>3, <2>1, <2>3 DEF less, device
<1>8. QED
  BY <1>6, <1>7

Users(r, u, sd) == {x \in Defers : r.defer[x] > 0 /\ u[x] = sd}

(* The last owner of a defer IO object gives up its snapstore device.      *)
LEMMA PutDeferEffect ==
  ASSUME refs \in RefSet, HeapTypes, CountsOK(refs, storeList, uses),
         NEW x \in Defers, refs.defer[x] > 0
  PROVE  LET less == PutDefer(refs, x)
         IN /\ less \in RefSet /\ CountsOK(less, storeList, uses)
            /\ less.defer = [refs.defer EXCEPT ![x] = @ - 1]
<1> DEFINE defer == [refs.defer EXCEPT ![x] = @ - 1]
           once == [refs EXCEPT !.defer[x] = @ - 1]
           less == PutDefer(refs, x)
           sd == uses[x]
<1>1. /\ refs.device \in [StoreDevices -> Nat] /\ refs.store \in [Stores -> Nat]
      /\ refs.defer \in [Defers -> Nat]
      /\ sd \in StoreDevices
  BY DEF RefSet, CountsOK, UsesOK
<1>2. /\ defer \in [Defers -> Nat] /\ defer[x] = refs.defer[x] - 1
      /\ \A y \in Defers \ {x} : defer[y] = refs.defer[y]
  BY <1>1
<1>3. once \in RefSet /\ once.defer = defer /\ once.store = refs.store /\ once.device = refs.device
  BY <1>1, <1>2 DEF RefSet
<1>4. less = IF defer[x] = 0 THEN PutStoreDevice(once, sd) ELSE once
  BY <1>3 DEF PutDefer
<1> HIDE DEF defer, once, less, sd
<1>5. \A e \in StoreDevices :
        /\ refs.device[e] = Cardinality(At(storeList, {e})) + Cardinality(Users(refs, uses, e))
        /\ Cardinality(At(storeList, {e})) \in Nat
        /\ Users(refs, uses, e) \in SUBSET Defers
  <2>1. \A e : At(storeList, {e}) = {i \in DOMAIN storeList : storeList[i] = e}
    BY DEF At
  <2>2. \A e : Cardinality(At(storeList, {e})) \in Nat
    BY AtFinite DEF HeapTypes
  <2>3. QED
    BY <2>1, <2>2 DEF CountsOK, DevicesOK, Users
<1>6. StoresOK(once)
  BY <1>3 DEF CountsOK, StoresOK
<1>7. CASE defer[x] = 0
  <2>1. once.device[sd] > 0
    <3>1. x \in Users(refs, uses, sd)
      BY DEF Users, sd
    <3>2. Cardinality(Users(refs, uses, sd)) \in Nat /\ Cardinality(Users(refs, uses, sd)) > 0
      BY <1>1, <1>5, <3>1, HeapsAreFinite, NonEmptyCount
    <3>3. \A m, n \in Nat : n > 0 => m + n > 0
      OBVIOUS
    <3>4. refs.device[sd] > 0
      BY <1>1, <1>5, <3>2, <3>3
    <3>5. QED
      BY <1>3, <3>4
  <2>2. /\ less \in RefSet /\ StoresOK(less) /\ less.defer = defer
        /\ less.device = [refs.device EXCEPT ![sd] = @ - 1]
    BY <1>1, <1>3, <1>4, <1>6, <1>7, <2>1, PutStoreDeviceEffect
  <2>3. ASSUME NEW e \in StoreDevices
        PROVE  less.device[e] = Cardinality(At(storeList, {e})) + Cardinality(Users(less, uses, e))
    <3>1. Users(less, uses, e) = Users(refs, uses, e) \ {x}
      BY <1>2, <1>7, <2>2 DEF Users
    <3>2. x \in Users(refs, uses, e) <=> e = sd
      BY DEF Users, sd
    <3>3. /\ Cardinality(Users(refs, uses, e)) \in Nat
          /\ Cardinality(Users(less, uses, e)) =
               IF x \in Users(refs, uses, e) THEN Cardinality(Users(refs, uses, e)) - 1
               ELSE Cardinality(Users(refs, uses, e))
      BY <1>5, <3>1, HeapsAreFinite, FS_RemoveElement
    <3>4. less.device[e] = IF e = sd THEN refs.device[e] - 1 ELSE refs.device[e]
      BY <1>1, <2>2
    <3>5. QED
      BY <1>5, <3>2, <3>3, <3>4
  <2>4. DevicesOK(less, storeList, uses)
    BY <2>3 DEF DevicesOK, At, Users
  <2>5. UsesOK(less, uses)
    BY <1>2, <1>7, <2>2 DEF CountsOK, UsesOK
  <2>6. QED
    BY <2>2, <2>4, <2>5 DEF less, defer, CountsOK
<1>8. CASE defer[x] # 0
  <2>1. less = once
    BY <1>4, <1>8
  <2>2. \A y \in Defers : less.defer[y] > 0 <=> refs.defer[y] > 0
    BY <1>1, <1>2, <1>3, <1>8, <2>1
  <2>3. \A e \in StoreDevices :
          less.device[e] = Cardinality(At(storeList, {e})) + Cardinality(Users(less, uses, e))
    <3>1. \A e \in StoreDevices : Users(less, uses, e) = Users(refs, uses, e)
      BY <2>2 DEF Users
    <3>2. QED
      BY <1>3, <1>5, <2>1, <3>1
  <2>4. DevicesOK(less, storeList, uses)
    BY <2>3 DEF DevicesOK, At, Users
  <2>5. UsesOK(less, uses)
    BY <2>2 DEF CountsOK, UsesOK
  <2>6. QED
    BY <1>3, <1>6, <2>1, <2>4, <2>5 DEF less, defer, CountsOK
<1>9. QED
  BY <1>7, <1>8

-----------------------------------------------------------------------------
(* The counts.                                                             *)

Counted == HeapTypes /\ CountsInv

Captors(x) == {d \in Devices : deferIo[d] = x}

SharedBy(x) == {image \in ImageSet : image.defer = x}

Shares(x) == Cardinality(At(images, SharedBy(x)))

LEMMA OwnersAre ==
  ASSUME NEW list \in Seq(ImageSet), NEW f, NEW x
  PROVE  /\ Cardinality({i \in DOMAIN list : list[i].defer = x}) = Cardinality(At(list, SharedBy(x)))
         /\ Cardinality(At(list, SharedBy(x))) \in Nat
         /\ Cardinality({d \in Devices : f[d] = x}) \in Nat
         /\ IsFiniteSet({d \in Devices : f[d] = x})
<1>1. At(list, SharedBy(x)) = {i \in DOMAIN list : list[i].defer = x}
  <2>1. \A i \in DOMAIN list : list[i] \in ImageSet
    BY ElementOfSeq, LenProperties
  <2>2. QED
    BY <2>1 DEF At, SharedBy
<1>2. Cardinality(At(list, SharedBy(x))) \in Nat
  BY AtFinite
<1>3. QED
  BY <1>1, <1>2, HeapsAreFinite

LEMMA OwnersNow ==
  ASSUME images \in Seq(ImageSet), NEW x
  PROVE  /\ DeferOwners(x) = Cardinality(Captors(x)) + Shares(x)
         /\ Shares(x) \in Nat
         /\ Cardinality(Captors(x)) \in Nat
         /\ IsFiniteSet(Captors(x))
<1>1. /\ Cardinality({i \in DOMAIN images : images[i].defer = x}) = Cardinality(At(images, SharedBy(x)))
      /\ Cardinality(At(images, SharedBy(x))) \in Nat
      /\ Cardinality({d \in Devices : deferIo[d] = x}) \in Nat
      /\ IsFiniteSet({d \in Devices : deferIo[d] = x})
  BY OwnersAre, Zenon
<1>2. QED
  BY <1>1, Zenon DEF DeferOwners, Captors, Shares

LEMMA OwnersNext ==
  ASSUME images' \in Seq(ImageSet), NEW x
  PROVE  /\ DeferOwners(x)' = Cardinality(Captors(x)') + Shares(x)'
         /\ Shares(x)' \in Nat
         /\ Cardinality(Captors(x)') \in Nat
         /\ IsFiniteSet(Captors(x)')
<1>1. /\ Cardinality({i \in DOMAIN images' : images'[i].defer = x}) = Cardinality(At(images', SharedBy(x)))
      /\ Cardinality(At(images', SharedBy(x))) \in Nat
      /\ Cardinality({d \in Devices : deferIo'[d] = x}) \in Nat
      /\ IsFiniteSet({d \in Devices : deferIo'[d] = x})
  BY OwnersAre, Zenon
<1>2. QED
  BY <1>1, Zenon DEF DeferOwners, Captors, Shares

(* If the release cannot fail, nothing that is captured is dropped.        *)
LEMMA DropsNothing ==
  ASSUME Settled, Settled', running' = running, faults' = faults, "release" \notin faults,
         \A d \in Devices : deferIo'[d] \in {deferIo[d], None}
  PROVE  \A d \in Devices : deferIo'[d] = deferIo[d]
<1>1. SUFFICES ASSUME NEW d \in Devices, deferIo[d] # None, deferIo'[d] = None PROVE FALSE
  OBVIOUS
<1>2. deferIo[d] \in running'
  BY <1>1 DEF Settled, TrackersInv, TrackedInv
<1>3. PICK e \in Devices : deferIo'[e] = deferIo[d]
  BY <1>2 DEF Settled, TrackersInv, ReleasedInv, FreeInv
<1>4. deferIo[e] = deferIo[d]
  BY <1>1, <1>3
<1>5. e = d
  BY <1>1, <1>4 DEF Settled, TrackersInv, TrackedInv
<1>6. QED
  BY <1>1, <1>3, <1>5

(* No count changes: what a failed release has left can be dropped.        *)
LEMMA CountsSame ==
  ASSUME Settled, Settled', Counted, images \in Seq(ImageSet), images' \in Seq(ImageSet),
         UNCHANGED <<heapVars, storeList, faults>>,
         \A d \in Devices : deferIo'[d] \in {deferIo[d], None},
         \A x \in Defers : Shares(x)' = Shares(x)
  PROVE  Counted'
<1>1. UNCHANGED <<refs, uses, running, storeList, faults>>
  BY DEF heapVars
<1>2. HeapTypes' /\ CountsOK(refs, storeList, uses)'
  BY <1>1 DEF Counted, HeapTypes, CountsInv, CountsOK, UsesOK, DevicesOK, StoresOK
<1>3. ASSUME NEW x \in Defers
      PROVE  /\ DeferOwners(x)' <= DeferOwners(x)
             /\ DeferOwners(x)' \in Nat /\ DeferOwners(x) \in Nat
             /\ "release" \notin faults => DeferOwners(x)' = DeferOwners(x)
  <2>1. /\ DeferOwners(x) = Cardinality(Captors(x)) + Shares(x)
        /\ Cardinality(Captors(x)) \in Nat /\ IsFiniteSet(Captors(x))
        /\ Shares(x) \in Nat
    BY OwnersNow
  <2>2. /\ DeferOwners(x)' = Cardinality(Captors(x)') + Shares(x)'
        /\ Cardinality(Captors(x)') \in Nat
    BY OwnersNext
  <2>3. Captors(x)' \subseteq Captors(x)
    BY NoneIsOut DEF Captors
  <2>4. Cardinality(Captors(x)') <= Cardinality(Captors(x))
    BY <2>1, <2>3, FS_Subset
  <2>5. "release" \notin faults => Captors(x)' = Captors(x)
    BY <1>1, DropsNothing DEF Captors
  <2>6. QED
    BY <2>1, <2>2, <2>4, <2>5
<1>4. \A x \in Defers : refs.defer[x] \in Nat
  BY DEF Counted, HeapTypes, RefSet
<1>5. ASSUME NEW x \in Defers PROVE refs'.defer[x] >= DeferOwners(x)'
  BY <1>1, <1>3, <1>4 DEF Counted, CountsInv, DefersInv
<1>6. ASSUME "release" \notin faults, NEW x \in Defers PROVE refs'.defer[x] = DeferOwners(x)'
  BY <1>1, <1>3, <1>6 DEF Counted, CountsInv, DefersInv
<1>7. DefersInv'
  BY <1>1, <1>5, <1>6 DEF DefersInv
<1>8. QED
  BY <1>2, <1>7 DEF Counted, CountsInv

LEMMA BalanceMoves ==
  \A a, b, c, d, e, f \in Nat : a + b + c = d + e + f => a - (e + f) = d - (b + c)
OBVIOUS

LEMMA SameDifference ==
  \A a, b, c, d \in Nat : a - b = c - d => (a >= b <=> c >= d) /\ (a = b <=> c = d)
OBVIOUS

(* The count of one defer IO object changes with its owners.               *)
LEMMA DefersKept ==
  ASSUME DefersInv, refs \in RefSet, refs' \in RefSet, faults' = faults,
         images \in Seq(ImageSet), images' \in Seq(ImageSet),
         \A x \in Defers :
           refs'.defer[x] + Cardinality(Captors(x)) + Shares(x)
             = refs.defer[x] + Cardinality(Captors(x)') + Shares(x)'
  PROVE  DefersInv'
<1>1. ASSUME NEW x \in Defers
      PROVE  /\ refs'.defer[x] - DeferOwners(x)' = refs.defer[x] - DeferOwners(x)
             /\ refs.defer[x] \in Nat /\ refs'.defer[x] \in Nat
             /\ DeferOwners(x) \in Nat /\ DeferOwners(x)' \in Nat
  <2>1. refs.defer[x] \in Nat /\ refs'.defer[x] \in Nat
    BY DEF RefSet
  <2>2. /\ DeferOwners(x) = Cardinality(Captors(x)) + Shares(x)
        /\ Cardinality(Captors(x)) \in Nat /\ Shares(x) \in Nat
    BY OwnersNow
  <2>3. /\ DeferOwners(x)' = Cardinality(Captors(x)') + Shares(x)'
        /\ Cardinality(Captors(x)') \in Nat /\ Shares(x)' \in Nat
    BY OwnersNext
  <2>4. refs'.defer[x] + Cardinality(Captors(x)) + Shares(x)
          = refs.defer[x] + Cardinality(Captors(x)') + Shares(x)'
    OBVIOUS
  <2>5. PICK a, b, c, d, e, f \in Nat :
          /\ a = refs'.defer[x] /\ b = Cardinality(Captors(x)) /\ c = Shares(x)
          /\ d = refs.defer[x] /\ e = Cardinality(Captors(x)') /\ f = Shares(x)'
    BY <2>1, <2>2, <2>3, Zenon
  <2>6. a + b + c = d + e + f
    BY <2>4, <2>5, Zenon
  <2>7. a - (e + f) = d - (b + c) /\ b + c \in Nat /\ e + f \in Nat
    BY <2>6, BalanceMoves
  <2>8. DeferOwners(x) = b + c /\ DeferOwners(x)' = e + f
    BY <2>2, <2>3, <2>5, Zenon
  <2>9. QED
    BY <2>1, <2>5, <2>7, <2>8, Zenon
<1>2. ASSUME NEW x \in Defers
      PROVE  /\ refs'.defer[x] >= DeferOwners(x)' <=> refs.defer[x] >= DeferOwners(x)
             /\ refs'.defer[x] = DeferOwners(x)' <=> refs.defer[x] = DeferOwners(x)
  BY <1>1, SameDifference
<1>3. QED
  BY <1>2 DEF DefersInv

LEMMA CountsUnchanged ==
  ASSUME Counted, UNCHANGED <<heapVars, storeList, faults, deferIo, images>>
  PROVE  Counted'
<1>1. UNCHANGED <<refs, uses, running, storeList, faults, deferIo, images>>
  BY DEF heapVars
<1>2. HeapTypes' /\ CountsOK(refs, storeList, uses)'
  BY <1>1 DEF Counted, HeapTypes, CountsInv, CountsOK, UsesOK, DevicesOK, StoresOK
<1>3. DefersInv'
  BY <1>1 DEF Counted, CountsInv, DefersInv, DeferOwners
<1>4. QED
  BY <1>2, <1>3 DEF Counted, CountsInv

(* snapimage_destroy puts the defer IO object of the image.                *)
LEMMA DestroyImageKeepsCounts ==
  ASSUME Types, Counted, ImagesOK, images' \in Seq(ImageSet), NEW d \in Devices,
         DestroyImage(d), UNCHANGED <<trackerVars, storeList, faults>>
  PROVE  Counted'
<1>1. deferIo' = deferIo
  BY DEF trackerVars
<1>2. CASE ImageOf(d) = 0
  <2>1. UNCHANGED <<images, heapVars>>
    BY <1>2 DEF DestroyImage
  <2>2. QED
    BY <1>1, <2>1, CountsUnchanged
<1>3. CASE ImageOf(d) # 0
  <2>1. PICK k \in DOMAIN images : k = ImageOf(d) /\ images[k].dev = d
    BY <1>3, ImageFound DEF Types
  <2>2. images \in Seq(ImageSet) /\ DOMAIN images = 1 .. Len(images) /\ images[k] \in ImageSet
    BY ElementOfSeq, LenProperties DEF Types
  <2>3. PICK x \in Defers : x = images[k].defer
    <3>1. d # NoDevice
      BY LifecycleAssumption
    <3>2. images[k].defer # None
      BY <2>1, <3>1 DEF ImagesOK, ImagesInv, ImageListInv
    <3>3. images[k].defer \in Defers
      BY <2>2, <3>2 DEF ImageSet
    <3>4. QED
      BY <3>3
  <2>4. /\ images' = RemoveAt(images, k) /\ refs' = PutDefer(refs, x)
        /\ uses' = uses /\ running' = running
    BY <1>3, <2>1, <2>3 DEF DestroyImage
  <2>5. refs.defer[x] > 0
    BY <2>3, FreshDefer DEF Counted, CountsInv, Unused, Alive
  <2>6. /\ refs' \in RefSet /\ CountsOK(refs', storeList, uses)
        /\ refs'.defer = [refs.defer EXCEPT ![x] = @ - 1]
    BY <2>4, <2>5, PutDeferEffect DEF Counted, CountsInv, HeapTypes
  <2>7. refs \in RefSet /\ refs.defer \in [Defers -> Nat]
    BY DEF Counted, HeapTypes, RefSet
  <2>8. ASSUME NEW y \in Defers
        PROVE  refs'.defer[y] + Cardinality(Captors(y)) + Shares(y)
                 = refs.defer[y] + Cardinality(Captors(y)') + Shares(y)'
    <3>1. /\ Cardinality(Captors(y)') = Cardinality(Captors(y))
          /\ Cardinality(Captors(y)) \in Nat /\ Shares(y) \in Nat
      BY <1>1, <2>2, OwnersNow DEF Captors
    <3>2. images[k] \in SharedBy(y) <=> y = x
      BY <2>2, <2>3 DEF SharedBy
    <3>3. Shares(y)' = Shares(y) - (IF y = x THEN 1 ELSE 0)
      BY <2>2, <2>4, <3>2, AtRemove DEF Shares
    <3>4. refs'.defer[y] = refs.defer[y] - (IF y = x THEN 1 ELSE 0) /\ refs.defer[y] \in Nat
      BY <2>6, <2>7
    <3>5. PICK e \in {0, 1} : e = IF y = x THEN 1 ELSE 0
      OBVIOUS
    <3>6. Shares(y)' = Shares(y) - e /\ refs'.defer[y] = refs.defer[y] - e
      BY <3>3, <3>4, <3>5
    <3>7. (refs.defer[y] - e) + Cardinality(Captors(y)) + Shares(y)
            = refs.defer[y] + Cardinality(Captors(y)) + (Shares(y) - e)
      BY <3>1, <3>4
    <3>8. QED
      BY <3>1, <3>6, <3>7
  <2>9. DefersInv'
    BY <2>2, <2>6, <2>7, <2>8, DefersKept DEF Counted, CountsInv
  <2>10. QED
    BY <2>4, <2>6, <2>9 DEF Counted, CountsInv, HeapTypes
<1>4. QED
  BY <1>2, <1>3

(* _tracker_release_snapshot puts the defer IO object of the tracker.      *)
LEMMA ReleaseKeepsCounts ==
  ASSUME Types, TrackedInv, Counted, NEW d \in Devices, ReleaseTracker(d),
         UNCHANGED <<storeList, images, faults>>
  PROVE  Counted'
<1>1. CASE d \notin tracked \/ deferIo[d] = None
  <2>1. UNCHANGED <<trackerVars, heapVars>>
    BY <1>1 DEF ReleaseTracker
  <2>2. QED
    BY <2>1, CountsUnchanged DEF trackerVars
<1>2. CASE ~(d \notin tracked \/ deferIo[d] = None)
  <2>1. PICK x \in Defers : x = deferIo[d]
    BY <1>2 DEF Types, TrackerTypes
  <2>2. /\ deferIo' = [deferIo EXCEPT ![d] = None] /\ refs' = PutDefer(refs, x)
        /\ running' = running \ {x} /\ uses' = uses
    BY <1>2, <2>1 DEF ReleaseTracker
  <2>3. refs.defer[x] > 0
    BY <2>1, FreshDefer DEF Counted, CountsInv, Unused, Alive
  <2>4. /\ refs' \in RefSet /\ CountsOK(refs', storeList, uses)
        /\ refs'.defer = [refs.defer EXCEPT ![x] = @ - 1]
    BY <2>2, <2>3, PutDeferEffect DEF Counted, CountsInv, HeapTypes
  <2>5. refs \in RefSet /\ refs.defer \in [Defers -> Nat] /\ images \in Seq(ImageSet)
    BY DEF Types, Counted, HeapTypes, RefSet
  <2>6. ASSUME NEW y \in Defers
        PROVE  refs'.defer[y] + Cardinality(Captors(y)) + Shares(y)
                 = refs.defer[y] + Cardinality(Captors(y)') + Shares(y)'
    <3>1. Shares(y)' = Shares(y) /\ Shares(y) \in Nat
      BY <2>5, OwnersNow DEF Shares
    <3>2. Captors(y)' = Captors(y) \ (IF y = x THEN {d} ELSE {})
      BY <2>1, <2>2, NoneIsOut DEF Captors, Types, TrackerTypes
    <3>3. Captors(x)' = Captors(x) \ {d} /\ d \in Captors(x)
      BY <2>1, <2>2, NoneIsOut DEF Captors, Types, TrackerTypes
    <3>4. IsFiniteSet(Captors(y)) /\ Cardinality(Captors(y)) \in Nat
      BY <2>5, OwnersNow
    <3>5. Cardinality(Captors(y) \ {d}) =
            IF d \in Captors(y) THEN Cardinality(Captors(y)) - 1 ELSE Cardinality(Captors(y))
      BY <3>4, FS_RemoveElement
    <3>6. Cardinality(Captors(y)') = Cardinality(Captors(y)) - (IF y = x THEN 1 ELSE 0)
      BY <3>2, <3>3, <3>4, <3>5
    <3>7. refs'.defer[y] = refs.defer[y] - (IF y = x THEN 1 ELSE 0) /\ refs.defer[y] \in Nat
      BY <2>4, <2>5
    <3>8. QED
      BY <3>1, <3>4, <3>6, <3>7
  <2>7. DefersInv'
    BY <2>4, <2>5, <2>6, DefersKept DEF Counted, CountsInv
  <2>8. QED
    BY <2>2, <2>4, <2>7 DEF Counted, CountsInv, HeapTypes
<1>3. QED
  BY <1>1, <1>2

(* A new image shares the defer IO object of the tracker.                  *)
LEMMA CreateImageKeepsCounts ==
  ASSUME Types, Counted, images' \in Seq(ImageSet), NEW p \in Processes, Dev(p) \in Devices,
         CreateImage(p), faults' = faults
  PROVE  Counted'
<1>1. PICK d \in Devices, x \in Defers :
        /\ d = Dev(p) /\ x = deferIo[d]
        /\ images' = Append(images, [dev |-> d, defer |-> x, running |-> TRUE])
        /\ refs' = [refs EXCEPT !.defer[x] = @ + 1]
        /\ UNCHANGED <<deferIo, uses, running, storeList>>
  <2>1. deferIo[Dev(p)] \in Defers
    BY DEF CreateImage, Types, TrackerTypes
  <2>2. QED
    BY <2>1 DEF CreateImage, trackerVars
<1>2. refs.defer[x] > 0
  BY <1>1, FreshDefer DEF Counted, CountsInv, Unused, Alive
<1>3. refs \in RefSet /\ refs.defer \in [Defers -> Nat] /\ images \in Seq(ImageSet)
  BY DEF Types, Counted, HeapTypes, RefSet
<1>4. /\ refs' \in RefSet /\ refs'.defer = [refs.defer EXCEPT ![x] = @ + 1]
      /\ refs'.device = refs.device /\ refs'.store = refs.store
  <2>1. [refs.defer EXCEPT ![x] = @ + 1] \in [Defers -> Nat]
    BY <1>3
  <2>2. refs' = [refs EXCEPT !.defer = [refs.defer EXCEPT ![x] = @ + 1]]
    BY <1>1
  <2>3. QED
    BY <1>3, <2>1, <2>2 DEF RefSet
<1>5. \A y \in Defers : refs'.defer[y] > 0 <=> refs.defer[y] > 0
  BY <1>2, <1>3, <1>4
<1>6. CountsOK(refs', storeList, uses)
  <2>1. UsesOK(refs', uses) /\ StoresOK(refs')
    BY <1>4, <1>5 DEF Counted, CountsInv, CountsOK, UsesOK, StoresOK
  <2>2. \A sd : {y \in Defers : refs'.defer[y] > 0 /\ uses[y] = sd}
                  = {y \in Defers : refs.defer[y] > 0 /\ uses[y] = sd}
    BY <1>5
  <2>3. DevicesOK(refs', storeList, uses)
    BY <1>4, <2>2 DEF Counted, CountsInv, CountsOK, DevicesOK
  <2>4. QED
    BY <2>1, <2>3 DEF CountsOK
<1>7. ASSUME NEW y \in Defers
      PROVE  refs'.defer[y] + Cardinality(Captors(y)) + Shares(y)
               = refs.defer[y] + Cardinality(Captors(y)') + Shares(y)'
  <2>1. /\ Cardinality(Captors(y)') = Cardinality(Captors(y))
        /\ Cardinality(Captors(y)) \in Nat /\ Shares(y) \in Nat
    BY <1>1, <1>3, OwnersNow DEF Captors
  <2>2. PICK image \in ImageSet :
          images' = Append(images, image) /\ (image \in SharedBy(y) <=> y = x)
    <3>1. [dev |-> d, defer |-> x, running |-> TRUE] \in ImageSet
      BY DEF ImageSet
    <3>2. [dev |-> d, defer |-> x, running |-> TRUE] \in SharedBy(y) <=> y = x
      BY <3>1 DEF SharedBy
    <3>3. QED
      BY <1>1, <3>1, <3>2
  <2>3. Shares(y)' = Shares(y) + (IF y = x THEN 1 ELSE 0)
    BY <1>3, <2>2, AtAppend DEF Shares
  <2>4. refs'.defer[y] = refs.defer[y] + (IF y = x THEN 1 ELSE 0) /\ refs.defer[y] \in Nat
    BY <1>3, <1>4
  <2>5. QED
    BY <2>1, <2>3, <2>4
<1>8. DefersInv'
  BY <1>3, <1>4, <1>7, DefersKept DEF Counted, CountsInv
<1>9. QED
  BY <1>1, <1>4, <1>6, <1>8 DEF Counted, CountsInv, HeapTypes

(* A capture takes an object that nobody counts, which holds a snapstore   *)
(* device of the list.                                                     *)
LEMMA CreateCaptureKeepsCounts ==
  ASSUME Types, Counted, NEW p \in Processes, Dev(p) \in Devices,
         CreateCapture(p), faults' = faults
  PROVE  Counted'
<1>1. PICK k \in DOMAIN storeList :
        k = StoreDeviceOf(Dev(p)) /\ storeList[k] \in StoreDevices
  <2>1. StoreDeviceOf(Dev(p)) # 0
    BY DEF CreateCapture
  <2>2. QED
    BY <2>1, StoreDeviceFound DEF Types, HeapTypes
<1>2. PICK d \in Devices, sd \in StoreDevices, x \in Defers :
        /\ d = Dev(p) /\ deferIo[d] = None /\ sd = storeList[k]
        /\ ~Alive(x)
        /\ refs' = [refs EXCEPT !.defer[x] = 1, !.device[sd] = @ + 1]
        /\ uses' = [uses EXCEPT ![x] = sd]
        /\ running' = running \cup {x}
        /\ deferIo' = [deferIo EXCEPT ![d] = x]
        /\ UNCHANGED <<storeList, images>>
  BY <1>1 DEF CreateCapture
<1>3. /\ refs \in RefSet /\ refs.defer \in [Defers -> Nat] /\ refs.device \in [StoreDevices -> Nat]
      /\ uses \in [Defers -> StoreDevices \cup {<<>>}]
      /\ images \in Seq(ImageSet) /\ deferIo \in [Devices -> Defers \cup {None}]
      /\ storeList \in Seq(StoreDevices)
  BY DEF Types, TrackerTypes, Counted, HeapTypes, RefSet
<1>4. /\ refs' \in RefSet /\ refs'.store = refs.store
      /\ refs'.defer = [refs.defer EXCEPT ![x] = 1]
      /\ refs'.device = [refs.device EXCEPT ![sd] = @ + 1]
  <2>1. /\ [refs.defer EXCEPT ![x] = 1] \in [Defers -> Nat]
        /\ [refs.device EXCEPT ![sd] = @ + 1] \in [StoreDevices -> Nat]
    BY <1>3
  <2>2. refs' = [refs EXCEPT !.defer = [refs.defer EXCEPT ![x] = 1],
                             !.device = [refs.device EXCEPT ![sd] = @ + 1]]
    BY <1>2
  <2>3. QED
    BY <1>3, <2>1, <2>2 DEF RefSet
<1>5. refs.defer[x] = 0
  BY <1>2, <1>3 DEF Alive
<1>6. \A e \in StoreDevices :
        /\ refs.device[e] = Cardinality(At(storeList, {e})) + Cardinality(Users(refs, uses, e))
        /\ Cardinality(At(storeList, {e})) \in Nat
        /\ Users(refs, uses, e) \in SUBSET Defers
  <2>1. \A e : At(storeList, {e}) = {i \in DOMAIN storeList : storeList[i] = e}
    BY DEF At
  <2>2. \A e : Cardinality(At(storeList, {e})) \in Nat
    BY <1>3, AtFinite
  <2>3. QED
    BY <2>1, <2>2 DEF Counted, CountsInv, CountsOK, DevicesOK, Users
<1>7. ASSUME NEW e \in StoreDevices
      PROVE  refs'.device[e]
               = Cardinality(At(storeList, {e})) + Cardinality(Users(refs', uses', e))
  <2>1. Users(refs', uses', e) = Users(refs, uses, e) \cup (IF e = sd THEN {x} ELSE {})
    BY <1>2, <1>3, <1>4, <1>5 DEF Users
  <2>2. x \notin Users(refs, uses, e)
    BY <1>5 DEF Users
  <2>3. /\ Cardinality(Users(refs, uses, e)) \in Nat
        /\ Cardinality(Users(refs, uses, e) \cup {x}) = Cardinality(Users(refs, uses, e)) + 1
    BY <1>6, <2>2, HeapsAreFinite, FS_AddElement
  <2>4. Cardinality(Users(refs', uses', e))
          = Cardinality(Users(refs, uses, e)) + (IF e = sd THEN 1 ELSE 0)
    <3>1. CASE e = sd
      BY <2>1, <2>3, <3>1
    <3>2. CASE e # sd
      <4>1. Users(refs', uses', e) = Users(refs, uses, e)
        BY <2>1, <3>2
      <4>2. QED
        BY <2>3, <3>2, <4>1
    <3>3. QED
      BY <3>1, <3>2
  <2>5. refs'.device[e] = refs.device[e] + (IF e = sd THEN 1 ELSE 0)
    BY <1>3, <1>4
  <2>6. QED
    BY <1>6, <2>3, <2>4, <2>5
<1>8. refs.device[sd] > 0
  <2>1. k \in At(storeList, {sd})
    BY <1>2 DEF At
  <2>2. IsFiniteSet(At(storeList, {sd}))
    BY <1>3, AtFinite
  <2>3. Cardinality(At(storeList, {sd})) > 0
    BY <1>6, <2>1, <2>2, NonEmptyCount
  <2>4. Cardinality(Users(refs, uses, sd)) \in Nat
    BY <1>6, HeapsAreFinite
  <2>5. \A m, n \in Nat : m > 0 => m + n > 0
    OBVIOUS
  <2>6. QED
    BY <1>6, <2>3, <2>4, <2>5
<1>9. CountsOK(refs', storeList', uses')
  <2>1. UsesOK(refs', uses')
    BY <1>2, <1>3, <1>4 DEF Counted, CountsInv, CountsOK, UsesOK
  <2>2. DevicesOK(refs', storeList', uses')
    BY <1>2, <1>7 DEF DevicesOK, At, Users
  <2>3. \A e \in StoreDevices : refs'.device[e] > 0 <=> refs.device[e] > 0
    BY <1>3, <1>4, <1>8
  <2>4. StoresOK(refs')
    BY <1>4, <2>3 DEF Counted, CountsInv, CountsOK, StoresOK
  <2>5. QED
    BY <2>1, <2>2, <2>4 DEF CountsOK
<1>10. ASSUME NEW y \in Defers
       PROVE  refs'.defer[y] + Cardinality(Captors(y)) + Shares(y)
                = refs.defer[y] + Cardinality(Captors(y)') + Shares(y)'
  <2>1. Shares(y)' = Shares(y) /\ Shares(y) \in Nat
    BY <1>2, <1>3, OwnersNow DEF Shares
  <2>2. Captors(y)' = Captors(y) \cup (IF y = x THEN {d} ELSE {})
    BY <1>2, <1>3, NoneIsOut DEF Captors
  <2>3. d \notin Captors(y)
    BY <1>2, NoneIsOut DEF Captors
  <2>4. IsFiniteSet(Captors(y)) /\ Cardinality(Captors(y)) \in Nat
    BY <1>3, OwnersNow
  <2>5. Cardinality(Captors(y) \cup {d}) = Cardinality(Captors(y)) + 1
    BY <2>3, <2>4, FS_AddElement
  <2>6. Cardinality(Captors(y)') = Cardinality(Captors(y)) + (IF y = x THEN 1 ELSE 0)
    BY <2>2, <2>4, <2>5
  <2>7. refs'.defer[y] = refs.defer[y] + (IF y = x THEN 1 ELSE 0) /\ refs.defer[y] \in Nat
    BY <1>3, <1>4, <1>5
  <2>8. QED
    BY <2>1, <2>4, <2>6, <2>7
<1>11. DefersInv'
  <2>1. images' \in Seq(ImageSet)
    BY <1>2, <1>3
  <2>2. QED
    BY <1>3, <1>4, <1>10, <2>1, DefersKept DEF Counted, CountsInv
<1>12. HeapTypes'
  <2>1. running' \subseteq Defers
    BY <1>2 DEF Counted, HeapTypes
  <2>2. uses' \in [Defers -> StoreDevices \cup {<<>>}] /\ storeList' \in Seq(StoreDevices)
    BY <1>2, <1>3
  <2>3. QED
    BY <1>4, <2>1, <2>2 DEF HeapTypes
<1>13. QED
  BY <1>9, <1>11, <1>12 DEF Counted, CountsInv

(* The list gives up a snapstore device.                                   *)
LEMMA StoreCleanupKeepsCounts ==
  ASSUME Types, Counted, NEW p \in Processes, NEW s \in Stores, StoreCleanup(p, s),
         faults' = faults
  PROVE  Counted'
<1>1. storeList \in Seq(StoreDevices) /\ refs \in RefSet /\ refs.device \in [StoreDevices -> Nat]
  BY DEF Counted, HeapTypes, RefSet
<1>2. PICK k \in DOMAIN storeList, sd \in StoreDevices :
        /\ sd = storeList[k] /\ k \in 1 .. Len(storeList)
        /\ refs' = PutStoreDevice(refs, sd) /\ storeList' = RemoveAt(storeList, k)
        /\ UNCHANGED <<deferIo, uses, running, images>>
  <2>1. StoreDeviceIn(s) # 0
    BY DEF StoreCleanup
  <2>2. StoreDeviceIn(s) \in DOMAIN storeList /\ storeList[StoreDeviceIn(s)] \in StoreDevices
    BY <1>1, <2>1, StoreDeviceInFound
  <2>3. DOMAIN storeList = 1 .. Len(storeList)
    BY <1>1, LenProperties
  <2>4. QED
    BY <2>2, <2>3 DEF StoreCleanup, trackerVars
<1>3. \A e \in StoreDevices :
        /\ refs.device[e] = Cardinality(At(storeList, {e})) + Cardinality(Users(refs, uses, e))
        /\ Cardinality(At(storeList, {e})) \in Nat
        /\ Cardinality(Users(refs, uses, e)) \in Nat
  <2>1. \A e : At(storeList, {e}) = {i \in DOMAIN storeList : storeList[i] = e}
    BY DEF At
  <2>2. \A e : Cardinality(At(storeList, {e})) \in Nat
    BY <1>1, AtFinite
  <2>3. \A e : Users(refs, uses, e) \in SUBSET Defers
    BY DEF Users
  <2>4. QED
    BY <2>1, <2>2, <2>3, HeapsAreFinite DEF Counted, CountsInv, CountsOK, DevicesOK, Users
<1>4. refs.device[sd] > 0
  <2>1. sd \in {sd} /\ k \in At(storeList, {sd})
    BY <1>2 DEF At
  <2>2. IsFiniteSet(At(storeList, {sd}))
    BY <1>1, AtFinite
  <2>3. Cardinality(At(storeList, {sd})) > 0
    BY <1>3, <2>1, <2>2, NonEmptyCount
  <2>4. \A m, n \in Nat : m > 0 => m + n > 0
    OBVIOUS
  <2>5. QED
    BY <1>3, <2>3, <2>4
<1>5. /\ refs' \in RefSet /\ StoresOK(refs') /\ refs'.defer = refs.defer
      /\ refs'.device = [refs.device EXCEPT ![sd] = @ - 1]
  BY <1>1, <1>2, <1>4, PutStoreDeviceEffect DEF Counted, CountsInv, CountsOK
<1>6. ASSUME NEW e \in StoreDevices
      PROVE  refs'.device[e]
               = Cardinality(At(storeList', {e})) + Cardinality(Users(refs', uses', e))
  <2>1. Cardinality(Users(refs', uses', e)) = Cardinality(Users(refs, uses, e))
    BY <1>2, <1>5 DEF Users
  <2>2. Cardinality(At(storeList', {e}))
          = Cardinality(At(storeList, {e})) - (IF e = sd THEN 1 ELSE 0)
    <3>1. sd \in {e} <=> e = sd
      OBVIOUS
    <3>2. QED
      BY <1>1, <1>2, <3>1, AtRemove
  <2>3. refs'.device[e] = refs.device[e] - (IF e = sd THEN 1 ELSE 0)
    BY <1>1, <1>5
  <2>4. QED
    BY <1>3, <2>1, <2>2, <2>3
<1>7. CountsOK(refs', storeList', uses')
  <2>1. DevicesOK(refs', storeList', uses')
    BY <1>6 DEF DevicesOK, At, Users
  <2>2. UsesOK(refs', uses')
    BY <1>2, <1>5 DEF Counted, CountsInv, CountsOK, UsesOK
  <2>3. QED
    BY <1>5, <2>1, <2>2 DEF CountsOK
<1>8. DefersInv'
  BY <1>2, <1>5 DEF Counted, CountsInv, DefersInv, DeferOwners
<1>9. HeapTypes'
  <2>1. storeList' \in Seq(StoreDevices)
    BY <1>1, <1>2, RemoveAtProperties
  <2>2. QED
    BY <1>2, <1>5, <2>1 DEF Counted, HeapTypes
<1>10. QED
  BY <1>7, <1>8, <1>9 DEF Counted, CountsInv

(* A snapstore that nobody counts gets its devices.                        *)
LEMMA StoreCreateKeepsCounts ==
  ASSUME Types, Counted, NEW p \in Processes, NEW s \in Stores, NEW devs \in StoreSets,
         StoreCreate(p, s, devs), faults' = faults
  PROVE  Counted'
<1> DEFINE n == Len(storeList)
           m == Len(devs)
<1>1. /\ storeList \in Seq(StoreDevices) /\ refs \in RefSet
      /\ refs.device \in [StoreDevices -> Nat] /\ refs.store \in [Stores -> Nat]
  BY DEF Counted, HeapTypes, RefSet
<1>2. devs \in Seq(Devices) /\ IsInjective(devs)
  BY LifecycleAssumption
<1>3. /\ n \in Nat /\ DOMAIN storeList = 1 .. n /\ m \in Nat /\ DOMAIN devs = 1 .. m
      /\ \A i \in 1 .. m : devs[i] \in Devices
      /\ \A i, j \in 1 .. m : devs[i] = devs[j] => i = j
  <2>1. /\ n \in Nat /\ DOMAIN storeList = 1 .. n /\ m \in Nat /\ DOMAIN devs = 1 .. m
    BY <1>1, <1>2, LenProperties
  <2>2. \A i \in 1 .. m : devs[i] \in Devices
    BY <1>2, ElementOfSeq
  <2>3. QED
    BY <1>2, <2>1, <2>2 DEF IsInjective
<1>4. PICK new :
        /\ new = [i \in 1 .. m |-> <<s, devs[i]>>]
        /\ refs.store[s] = 0
        /\ refs' = [refs EXCEPT
             !.store[s] = m,
             !.device = [sd \in StoreDevices |-> IF sd \in ToSet(new) THEN 1 ELSE @[sd]]]
        /\ storeList' = storeList \o new
        /\ UNCHANGED <<deferIo, uses, running, images>>
  BY <1>3 DEF StoreCreate, trackerVars
<1>5. /\ new \in Seq(StoreDevices) /\ Len(new) = m /\ DOMAIN new = 1 .. m
      /\ \A i \in 1 .. m : new[i] = <<s, devs[i]>> /\ new[i] \in StoreDevices
      /\ \A i, j \in 1 .. m : new[i] = new[j] => i = j
      /\ ToSet(new) = {new[i] : i \in 1 .. m}
  <2>1. \A i \in 1 .. m : new[i] = <<s, devs[i]>> /\ new[i] \in StoreDevices
    BY <1>3, <1>4 DEF StoreDevices
  <2>2. new \in [1 .. m -> StoreDevices] /\ DOMAIN new = 1 .. m
    BY <1>4, <2>1
  <2>3. new \in Seq(StoreDevices) /\ Len(new) = m
    BY <1>3, <2>2, SeqDef, LenProperties, IsASeq
  <2>4. QED
    BY <1>3, <2>1, <2>2, <2>3 DEF ToSet
<1> HIDE DEF n, m
<1>6. /\ storeList' \in Seq(StoreDevices) /\ DOMAIN storeList' = 1 .. n + m
      /\ \A i \in 1 .. n + m : storeList'[i] = IF i <= n THEN storeList[i] ELSE new[i - n]
  <2>1. Len(storeList) = n /\ storeList \in Seq(StoreDevices) /\ new \in Seq(StoreDevices)
    BY <1>1, <1>5 DEF n
  <2>2. /\ storeList \o new \in Seq(StoreDevices)
        /\ Len(storeList \o new) = Len(storeList) + Len(new)
        /\ \A i \in 1 .. Len(storeList) + Len(new) : (storeList \o new)[i] =
             IF i <= Len(storeList) THEN storeList[i] ELSE new[i - Len(storeList)]
    BY <2>1, ConcatProperties
  <2>3. /\ storeList' \in Seq(StoreDevices) /\ Len(storeList') = n + m
        /\ \A i \in 1 .. n + m : storeList'[i] = IF i <= n THEN storeList[i] ELSE new[i - n]
    BY <1>4, <1>5, <2>1, <2>2, Zenon
  <2>4. QED
    BY <2>3, LenProperties
<1>7. \A e \in StoreDevices :
        /\ refs.device[e] = Cardinality(At(storeList, {e})) + Cardinality(Users(refs, uses, e))
        /\ Cardinality(At(storeList, {e})) \in Nat /\ IsFiniteSet(At(storeList, {e}))
        /\ Cardinality(Users(refs, uses, e)) \in Nat /\ IsFiniteSet(Users(refs, uses, e))
  <2>1. \A e : At(storeList, {e}) = {i \in DOMAIN storeList : storeList[i] = e}
    BY DEF At
  <2>2. \A e : Cardinality(At(storeList, {e})) \in Nat /\ IsFiniteSet(At(storeList, {e}))
    BY <1>1, AtFinite
  <2>3. \A e : Users(refs, uses, e) \in SUBSET Defers
    BY DEF Users
  <2>4. QED
    BY <2>1, <2>2, <2>3, HeapsAreFinite DEF Counted, CountsInv, CountsOK, DevicesOK, Users
<1>8. ASSUME NEW e \in StoreDevices, e[1] = s
      PROVE  refs.device[e] = 0 /\ At(storeList, {e}) = {} /\ Users(refs, uses, e) = {}
  <2>1. InUse(refs, s) \in SUBSET StoreDevices /\ Cardinality(InUse(refs, s)) = 0
    BY <1>4 DEF Counted, CountsInv, CountsOK, StoresOK, InUse
  <2>2. InUse(refs, s) = {}
    BY <2>1, HeapsAreFinite, FS_EmptySet
  <2>3. refs.device[e] = 0
    BY <1>1, <1>8, <2>2 DEF InUse
  <2>4. \A a, b \in Nat : 0 = a + b => a = 0 /\ b = 0
    OBVIOUS
  <2>5. Cardinality(At(storeList, {e})) = 0 /\ Cardinality(Users(refs, uses, e)) = 0
    BY <1>7, <2>3, <2>4
  <2>6. QED
    BY <1>7, <2>3, <2>5, FS_EmptySet
<1>9. /\ refs' \in RefSet /\ refs'.defer = refs.defer
      /\ refs'.store = [refs.store EXCEPT ![s] = m]
      /\ refs'.device = [sd \in StoreDevices |-> IF sd \in ToSet(new) THEN 1 ELSE refs.device[sd]]
  <2>1. [refs.store EXCEPT ![s] = m] \in [Stores -> Nat]
    BY <1>1, <1>3
  <2>2. [sd \in StoreDevices |-> IF sd \in ToSet(new) THEN 1 ELSE refs.device[sd]]
          \in [StoreDevices -> Nat]
    BY <1>1
  <2>3. refs' = [refs EXCEPT !.store = [refs.store EXCEPT ![s] = m],
                   !.device = [sd \in StoreDevices |->
                                 IF sd \in ToSet(new) THEN 1 ELSE refs.device[sd]]]
    BY <1>4
  <2>4. QED
    BY <1>1, <2>1, <2>2, <2>3 DEF RefSet
<1>10. ASSUME NEW e \in StoreDevices
       PROVE  refs'.device[e]
                = Cardinality(At(storeList', {e})) + Cardinality(Users(refs', uses', e))
  <2>1. Users(refs', uses', e) = Users(refs, uses, e)
    BY <1>4, <1>9 DEF Users
  <2>2. CASE e \in ToSet(new)
    <3>1. PICK j \in 1 .. m : e = new[j]
      BY <1>5, <2>2
    <3>2. e[1] = s
      BY <1>5, <3>1
    <3>3. At(storeList', {e}) = {n + j}
      <4>1. n + j \in At(storeList', {e})
        <5>1. n + j \in 1 .. n + m /\ ~(n + j <= n) /\ (n + j) - n = j
          BY <1>3
        <5>2. storeList'[n + j] = e
          BY <1>6, <3>1, <5>1
        <5>3. QED
          BY <1>6, <5>1, <5>2 DEF At
      <4>2. ASSUME NEW i \in At(storeList', {e}) PROVE i = n + j
        <5>1. i \in 1 .. n + m /\ storeList'[i] = e
          BY <1>6, <4>2 DEF At
        <5>2. ~(i <= n)
          <6>1. i <= n => i \in DOMAIN storeList /\ storeList[i] = e
            BY <1>3, <1>6, <5>1
          <6>2. QED
            BY <1>8, <3>2, <6>1 DEF At
        <5>3. i - n \in 1 .. m /\ new[i - n] = new[j]
          BY <1>3, <1>6, <3>1, <5>1, <5>2
        <5>4. i - n = j
          BY <1>5, <5>3
        <5>5. QED
          BY <1>3, <5>1, <5>4
      <4>3. QED
        BY <4>1, <4>2
    <3>4. Cardinality(At(storeList', {e})) = 1 /\ Cardinality(Users(refs, uses, e)) = 0
      BY <1>8, <3>2, <3>3, FS_Singleton, FS_EmptySet
    <3>5. QED
      BY <1>9, <2>1, <2>2, <3>4
  <2>3. CASE e \notin ToSet(new)
    <3>1. At(storeList', {e}) = At(storeList, {e})
      <4>1. ASSUME NEW i \in 1 .. n + m
            PROVE  storeList'[i] = e <=> i <= n /\ storeList[i] = e
        <5>1. ~(i <= n) => i - n \in 1 .. m
          BY <1>3
        <5>2. QED
          BY <1>5, <1>6, <2>3, <5>1
      <4>2. \A i \in 1 .. n : i \in 1 .. n + m /\ i <= n
        BY <1>3
      <4>3. \A i \in 1 .. n + m : i <= n => i \in 1 .. n
        BY <1>3
      <4>4. QED
        BY <1>3, <1>6, <4>1, <4>2, <4>3 DEF At
    <3>2. QED
      BY <1>7, <1>9, <2>1, <2>3, <3>1
  <2>4. QED
    BY <2>2, <2>3
<1>11. ASSUME NEW t \in Stores PROVE refs'.store[t] = Cardinality(InUse(refs', t))
  <2>1. CASE t = s
    <3>1. InUse(refs', t) = ToSet(new)
      <4>1. ASSUME NEW e \in StoreDevices
            PROVE  e[1] = s /\ refs'.device[e] > 0 <=> e \in ToSet(new)
        <5>1. e \in ToSet(new) => e[1] = s /\ refs'.device[e] = 1
          BY <1>5, <1>9
        <5>2. e \notin ToSet(new) => refs'.device[e] = refs.device[e]
          BY <1>9
        <5>3. e[1] = s => refs.device[e] = 0
          BY <1>8
        <5>4. ~(0 > 0) /\ 1 > 0
          OBVIOUS
        <5>5. QED
          BY <5>1, <5>2, <5>3, <5>4, Zenon
      <4>2. ToSet(new) \subseteq StoreDevices
        BY <1>5
      <4>3. QED
        BY <2>1, <4>1, <4>2 DEF InUse
    <3>2. new \in Bijection(1 .. m, ToSet(new))
      <4>1. new \in [1 .. m -> ToSet(new)]
        BY <1>4, <1>5
      <4>2. \A e \in ToSet(new) : \E i \in 1 .. m : new[i] = e
        BY <1>5
      <4>3. QED
        BY <1>5, <4>1, <4>2, Fun_IsBij
    <3>3. IsFiniteSet(1 .. m) /\ Cardinality(1 .. m) = m
      BY <1>3, FS_Interval
    <3>4. Cardinality(ToSet(new)) = m
      BY <3>2, <3>3, FS_Bijection DEF ExistsBijection
    <3>5. QED
      BY <1>1, <1>9, <2>1, <3>1, <3>4
  <2>2. CASE t # s
    <3>1. \A e \in StoreDevices : e[1] = t => refs'.device[e] = refs.device[e]
      BY <1>5, <1>9, <2>2
    <3>2. InUse(refs', t) = InUse(refs, t)
      BY <3>1 DEF InUse
    <3>3. refs'.store[t] = refs.store[t]
      BY <1>1, <1>9, <2>2
    <3>4. QED
      BY <3>2, <3>3 DEF Counted, CountsInv, CountsOK, StoresOK, InUse
  <2>3. QED
    BY <2>1, <2>2
<1>12. CountsOK(refs', storeList', uses')
  <2>1. DevicesOK(refs', storeList', uses')
    BY <1>10 DEF DevicesOK, At, Users
  <2>2. UsesOK(refs', uses')
    BY <1>4, <1>9 DEF Counted, CountsInv, CountsOK, UsesOK
  <2>3. StoresOK(refs')
    BY <1>11 DEF StoresOK, InUse
  <2>4. QED
    BY <2>1, <2>2, <2>3 DEF CountsOK
<1>13. DefersInv'
  BY <1>4, <1>9 DEF Counted, CountsInv, DefersInv, DeferOwners
<1>14. HeapTypes'
  BY <1>4, <1>6, <1>9 DEF Counted, HeapTypes
<1>15. QED
  BY <1>12, <1>13, <1>14 DEF Counted, CountsInv

(* Only the trackers change, and lose what they hold if anything.          *)
LEMMA DropsKeepCounts ==
  ASSUME Types, Settled, Settled', Counted,
         UNCHANGED <<heapVars, storeList, images, faults>>,
         \A d \in Devices : deferIo'[d] \in {deferIo[d], None}
  PROVE  Counted'
<1>1. images' = images /\ images \in Seq(ImageSet)
  BY DEF Types
<1>2. \A x \in Defers : Shares(x)' = Shares(x)
  BY <1>1 DEF Shares
<1>3. QED
  BY <1>1, <1>2, CountsSame

LEMMA AddDrops ==
  ASSUME Types, NEW d \in Devices, NEW id, AddTracker(d, id) \/ AddTrackerFails(d)
  PROVE  \A e \in Devices : deferIo'[e] \in {deferIo[e], None}
BY DEF AddTracker, AddTrackerFails, Replace, Types, TrackerTypes, trackerVars

(* An image without a device, or none at all, goes on the list.            *)
LEMMA SwallowedKeepsCounts ==
  ASSUME Types, Settled, Settled', Counted, images' \in Seq(ImageSet),
         NEW p \in Processes, CreateImageSwallowed(p), faults' = faults
  PROVE  Counted'
<1> DEFINE none == [dev |-> NoDevice, defer |-> None, running |-> FALSE]
<1>1. UNCHANGED <<trackerVars, heapVars, storeList>> /\ images \in Seq(ImageSet)
  BY DEF CreateImageSwallowed, Types
<1>2. images' = images \/ images' = Append(images, none)
  BY DEF CreateImageSwallowed
<1>3. ASSUME NEW x \in Defers PROVE Shares(x)' = Shares(x)
  <2>1. none \in ImageSet
    BY DEF ImageSet
  <2>2. none \notin SharedBy(x)
    BY NoneIsOut DEF SharedBy
  <2>3. Shares(x) \in Nat
    BY <1>1, OwnersNow
  <2>4. CASE images' = images
    BY <2>4 DEF Shares
  <2>5. CASE images' = Append(images, none)
    BY <1>1, <2>1, <2>2, <2>3, <2>5, AtAppend DEF Shares
  <2>6. QED
    BY <1>2, <2>4, <2>5
<1>4. \A d \in Devices : deferIo'[d] \in {deferIo[d], None}
  BY <1>1 DEF trackerVars
<1>5. QED
  BY <1>1, <1>3, <1>4, CountsSame

(* An image that stops is still there.                                     *)
LEMMA DestroyStopKeepsCounts ==
  ASSUME Types, Settled, Settled', Counted, images' \in Seq(ImageSet),
         NEW p \in Processes, DestroyStop(p), faults' = faults
  PROVE  Counted'
<1>1. /\ UNCHANGED <<trackerVars, heapVars, storeList>> /\ images \in Seq(ImageSet)
      /\ images' = IF ImageOf(Dev(p)) = 0 THEN images
                   ELSE [images EXCEPT ![ImageOf(Dev(p))].running = FALSE]
  BY DEF DestroyStop, Types
<1>2. DOMAIN images' = DOMAIN images
  BY <1>1
<1>3. ASSUME NEW i \in DOMAIN images
      PROVE  images[i] \in ImageSet /\ images'[i] \in ImageSet /\ images'[i].defer = images[i].defer
  <2>1. images[i] \in ImageSet
    BY <1>1, ElementOfSeq, LenProperties
  <2>2. images'[i] \in {images[i], [images[i] EXCEPT !.running = FALSE]}
    BY <1>1
  <2>3. QED
    BY <2>1, <2>2 DEF ImageSet
<1>4. ASSUME NEW x \in Defers PROVE Shares(x)' = Shares(x)
  <2>1. At(images', SharedBy(x)) = At(images, SharedBy(x))
    BY <1>2, <1>3 DEF At, SharedBy
  <2>2. QED
    BY <2>1 DEF Shares
<1>5. \A d \in Devices : deferIo'[d] \in {deferIo[d], None}
  BY <1>1 DEF trackerVars
<1>6. QED
  BY <1>1, <1>4, <1>5, CountsSame

(* Every step keeps the counts.                                            *)
LEMMA CountsStep ==
  ASSUME Careful, Types, Settled, Settled', ImagesOK, ImagesOK', Counted, [Next]_vars
  PROVE  Counted'
<1>1. images' \in Seq(ImageSet)
  BY DEF ImagesOK
<1>2. TrackedInv
  BY DEF Settled, TrackersInv
<1>3. ASSUME NEW p \in Processes, ~Idle(p) PROVE Dev(p) \in Devices
  BY <1>3, CallFacts DEF Settled, ControlInv
<1>4. CASE UNCHANGED vars
  BY <1>4, CountsUnchanged DEF vars, trackerVars
<1>5. ASSUME NEW p \in Processes, Create(p), faults' = faults PROVE Counted'
  <2>1. CASE \/ \E devs \in Sets : CreateStart(p, devs)
             \/ CreateCaptureFails(p) \/ CreateCheck(p) \/ CreateImageFails(p)
    <3>1. UNCHANGED <<trackerVars, heapVars, storeList, images>>
      BY <2>1 DEF CreateStart, CreateCaptureFails, CreateCheck, CreateImageFails
    <3>2. QED
      BY <1>5, <3>1, CountsUnchanged DEF trackerVars
  <2>2. CASE CreateAdd(p)
    <3>1. /\ ~Idle(p) /\ UNCHANGED <<heapVars, storeList, images>>
          /\ AddTracker(Dev(p), Snap(p)) \/ AddTrackerFails(Dev(p))
      BY <2>2 DEF CreateAdd, Continue, Idle
    <3>2. QED
      BY <1>3, <1>5, <3>1, AddDrops, DropsKeepCounts
  <2>3. CASE CreateCapture(p)
    <3>1. ~Idle(p)
      BY <2>3 DEF CreateCapture, Continue, Idle
    <3>2. QED
      BY <1>3, <1>5, <2>3, <3>1, CreateCaptureKeepsCounts
  <2>4. CASE CreateImage(p)
    <3>1. ~Idle(p)
      BY <2>4 DEF CreateImage, Idle
    <3>2. QED
      BY <1>1, <1>3, <1>5, <2>4, <3>1, CreateImageKeepsCounts
  <2>5. CASE CreateImageSwallowed(p)
    BY <1>1, <1>5, <2>5, SwallowedKeepsCounts
  <2>6. CASE CreateUnmake(p)
    <3>1. /\ ~Idle(p) /\ DestroyImage(Dev(p))
          /\ UNCHANGED <<trackerVars, storeList>>
      BY <2>6 DEF CreateUnmake, Continue, Idle
    <3>2. QED
      BY <1>1, <1>3, <1>5, <3>1, DestroyImageKeepsCounts
  <2>7. QED
    BY <1>5, <2>1, <2>2, <2>3, <2>4, <2>5, <2>6 DEF Create
<1>6. ASSUME NEW p \in Processes, Destroy(p), faults' = faults PROVE Counted'
  <2>1. CASE (\E s \in Snapshots : DestroyStart(p, s)) \/ DestroyAllStart(p)
    <3>1. UNCHANGED <<trackerVars, heapVars, storeList, images>>
      BY <2>1 DEF DestroyStart, DestroyAllStart, TakeSnapshot
    <3>2. QED
      BY <1>6, <3>1, CountsUnchanged DEF trackerVars
  <2>2. CASE DestroyStop(p)
    BY <1>1, <1>6, <2>2, DestroyStopKeepsCounts
  <2>3. CASE DestroyImages(p)
    <3>1. /\ ~Idle(p) /\ DestroyImage(Dev(p))
          /\ UNCHANGED <<trackerVars, storeList>>
      BY <2>3 DEF DestroyImages, Continue, Idle
    <3>2. QED
      BY <1>1, <1>3, <1>6, <3>1, DestroyImageKeepsCounts
  <2>4. QED
    BY <1>6, <2>1, <2>2, <2>3 DEF Destroy
<1>7. ASSUME NEW p \in Processes, TakeBack(p), faults' = faults PROVE Counted'
  <2>1. CASE Release(p) \/ ReleaseFails(p)
    <3>1. /\ ~Idle(p) /\ ReleaseTracker(Dev(p)) /\ UNCHANGED <<storeList, images>>
      BY <2>1 DEF Release, ReleaseFails, Continue, Idle
    <3>2. QED
      BY <1>2, <1>3, <1>7, <3>1, ReleaseKeepsCounts
  <2>2. CASE Cleanup(p)
    <3>1. UNCHANGED <<deferIo, heapVars, storeList, images>>
      BY <2>2 DEF Cleanup
    <3>2. QED
      BY <1>7, <3>1, CountsUnchanged
  <2>3. QED
    BY <1>7, <2>1, <2>2 DEF TakeBack
<1>8. ASSUME NEW p \in Processes, Tracking(p), faults' = faults PROVE Counted'
  <2>1. PICK d \in Devices : TrackingAdd(p, d) \/ TrackingRemove(p, d)
    BY <1>8 DEF Tracking
  <2>2. UNCHANGED <<heapVars, storeList, images>>
    BY <2>1 DEF TrackingAdd, TrackingRemove
  <2>3. CASE TrackingAdd(p, d)
    <3>1. AddTracker(d, None) \/ AddTrackerFails(d)
      BY <2>3 DEF TrackingAdd
    <3>2. QED
      BY <1>8, <2>2, <3>1, AddDrops, DropsKeepCounts
  <2>4. CASE TrackingRemove(p, d)
    <3>1. \A e \in Devices : deferIo'[e] \in {deferIo[e], None}
      BY <2>4 DEF TrackingRemove, Replace
    <3>2. QED
      BY <1>8, <2>2, <3>1, DropsKeepCounts
  <2>5. QED
    BY <2>1, <2>3, <2>4
<1>9. ASSUME NEW p \in Processes, Store(p), faults' = faults PROVE Counted'
  BY <1>9, StoreCleanupKeepsCounts, StoreCreateKeepsCounts DEF Store
<1>10. ASSUME NEW d \in Devices, CbtFault(d), faults' = faults PROVE Counted'
  <2>1. UNCHANGED <<deferIo, heapVars, storeList, images>>
    BY <1>10 DEF CbtFault
  <2>2. QED
    BY <1>10, <2>1, CountsUnchanged
<1>11. QED
  BY <1>4, <1>5, <1>6, <1>7, <1>8, <1>9, <1>10 DEF Next

-----------------------------------------------------------------------------
(* The inductive invariant.                                                *)

LEMMA InitIInv == Init => IInv
<1> SUFFICES ASSUME Init PROVE IInv
  OBVIOUS
<1>1. \A p \in Processes : Idle(p) /\ call[p].at = "idle"
  BY DEF Init, Idle
<1>2. /\ status = [s \in Snapshots |-> "none"] /\ members = [s \in Snapshots |-> <<>>]
      /\ \A s \in Snapshots : Members(s) = {}
  BY DEF Init, Members, ToSet
<1>3. ControlTypes
  <2>1. <<>> \in Seq(Snapshots) /\ <<>> \in Seq(Devices)
    BY EmptySeq
  <2>2. [at |-> "idle", snapshot |-> None, todo |-> <<>>, all |-> FALSE, ok |-> TRUE] \in CallSet
    BY <2>1 DEF CallSet, CallStates
  <2>3. listed \in Seq(Snapshots) /\ faults \in FaultSets
    BY <2>1 DEF Init
  <2>4. members \in [Snapshots -> Seq(Devices)] /\ status \in [Snapshots -> Statuses]
    BY <1>2, <2>1 DEF Statuses
  <2>5. call \in [Processes -> CallSet]
    BY <2>2 DEF Init
  <2>6. QED
    BY <2>3, <2>4, <2>5 DEF ControlTypes
<1>4. TrackerTypes
  BY DEF Init, TrackerTypes
<1>5. HeapTypes
  BY EmptySeq DEF Init, HeapTypes, RefSet
<1>6. images \in Seq(ImageSet)
  BY EmptySeq DEF Init
<1>7. ControlInv
  <2>1. CallsInv
    BY <1>1 DEF CallsInv
  <2>2. SnapshotsInv
    BY <1>2 DEF SnapshotsInv, IsInjective
  <2>3. ListedInv
    BY DEF Init, ListedInv, IsInjective
  <2>4. QED
    BY <2>1, <2>2, <2>3 DEF ControlInv
<1>8. TrackersInv
  <2>1. TrackedInv /\ TrackersAreDisjoint
    BY DEF Init, TrackedInv, TrackersAreDisjoint
  <2>2. CapturedInv
    BY <1>1, <1>2 DEF CapturedInv, CreatedInv, CallCaptured
  <2>3. FreeInv
    BY DEF Init, FreeInv, Free
  <2>4. ReleasedInv
    BY <1>1, <1>2, <2>3 DEF ReleasedInv, CallReleased
  <2>5. QED
    BY <2>1, <2>2, <2>4 DEF TrackersInv
<1>9. ImagesInv
  <2>1. images = <<>> /\ DOMAIN images = {}
    BY DEF Init
  <2>2. ImageListInv
    BY <2>1 DEF ImageListInv
  <2>3. ImageCallsInv
    BY <1>1, <1>2 DEF ImageCallsInv, ImageCall, MadeCall
  <2>4. QED
    BY <2>2, <2>3 DEF ImagesInv
<1>10. CountsInv
  <2>1. /\ \A x \in Defers : refs.defer[x] = 0
        /\ \A sd \in StoreDevices : refs.device[sd] = 0
        /\ \A s \in Stores : refs.store[s] = 0
    BY DEF Init
  <2>2. ASSUME NEW x \in Defers PROVE DeferOwners(x) = 0
    <3>1. {d \in Devices : deferIo[d] = x} = {} /\ {i \in DOMAIN images : images[i].defer = x} = {}
      BY NoneIsOut DEF Init
    <3>2. QED
      BY <3>1, FS_EmptySet DEF DeferOwners
  <2>3. DevicesOK(refs, storeList, uses)
    <3>1. \A sd \in StoreDevices :
            /\ {i \in DOMAIN storeList : storeList[i] = sd} = {}
            /\ {x \in Defers : refs.defer[x] > 0 /\ uses[x] = sd} = {}
      BY <2>1 DEF Init
    <3>2. QED
      BY <2>1, <3>1, FS_EmptySet DEF DevicesOK
  <2>4. StoresOK(refs)
    <3>1. \A s \in Stores : {sd \in StoreDevices : sd[1] = s /\ refs.device[sd] > 0} = {}
      BY <2>1
    <3>2. QED
      BY <2>1, <3>1, FS_EmptySet DEF StoresOK
  <2>5. UsesOK(refs, uses)
    BY <2>1 DEF UsesOK
  <2>6. QED
    BY <2>1, <2>2, <2>3, <2>4, <2>5 DEF CountsInv, DefersInv, CountsOK
<1>11. QED
  BY <1>3, <1>4, <1>5, <1>6, <1>7, <1>8, <1>9, <1>10 DEF IInv, Types

LEMMA RunningStep ==
  ASSUME Types, [Next]_vars
  PROVE  running' \subseteq Defers
<1>1. running \subseteq Defers
  BY DEF Types, HeapTypes
<1>2. ASSUME NEW d, ReleaseTracker(d) PROVE running' \subseteq running
  BY <1>2 DEF ReleaseTracker, heapVars
<1>3. ASSUME NEW d, DestroyImage(d) PROVE running' = running
  BY <1>3 DEF DestroyImage, heapVars
<1>4. CASE UNCHANGED vars
  BY <1>1, <1>4 DEF vars, heapVars
<1>5. ASSUME NEW p \in Processes, Create(p) PROVE running' \subseteq Defers
  <2>1. CreateCapture(p) => running' \subseteq Defers
    BY <1>1 DEF CreateCapture
  <2>2. CreateUnmake(p) => running' = running
    BY <1>3 DEF CreateUnmake
  <2>3. QED
    BY <1>1, <1>5, <2>1, <2>2
    DEF Create, CreateStart, CreateAdd, CreateCaptureFails, CreateCheck, CreateImage,
        CreateImageSwallowed, CreateImageFails, heapVars
<1>6. ASSUME NEW p \in Processes, Destroy(p) PROVE running' = running
  BY <1>3, <1>6
  DEF Destroy, DestroyStart, DestroyAllStart, TakeSnapshot, DestroyStop, DestroyImages, heapVars
<1>7. ASSUME NEW p \in Processes, TakeBack(p) PROVE running' \subseteq running
  BY <1>2, <1>7 DEF TakeBack, Release, ReleaseFails, Cleanup, heapVars
<1>8. ASSUME NEW p \in Processes, Tracking(p) \/ Store(p) PROVE running' = running
  BY <1>8 DEF Tracking, TrackingAdd, TrackingRemove, Store, StoreCreate, StoreCleanup, heapVars
<1>9. ASSUME NEW d \in Devices, CbtFault(d) PROVE running' = running
  BY <1>9 DEF CbtFault, heapVars
<1>10. QED
  BY <1>1, <1>4, <1>5, <1>6, <1>7, <1>8, <1>9 DEF Next

LEMMA StepIInv == Careful /\ IInv /\ [Next]_vars => IInv'
<1> SUFFICES ASSUME Careful, IInv, [Next]_vars PROVE IInv'
  OBVIOUS
<1>1. Types /\ Settled /\ ImagesOK /\ Counted
  BY DEF IInv, Types, Settled, ImagesOK, Counted, HeapTypes
<1>2. ControlTypes' /\ ControlInv'
  BY <1>1, ControlStep DEF Settled
<1>3. \A x \in Defers : ~Alive(x) => Unused(x)
  BY <1>1, FreshDefer DEF Counted, CountsInv
<1>4. TrackerTypes' /\ TrackersInv'
  BY <1>1, <1>3, TrackersStep
<1>5. running' \subseteq Defers
  BY <1>1, RunningStep
<1>6. Settled'
  BY <1>2, <1>4, <1>5 DEF Settled
<1>7. ImagesOK'
  BY <1>1, <1>6, ImagesStep
<1>8. Counted'
  BY <1>1, <1>6, <1>7, CountsStep
<1>9. QED
  BY <1>2, <1>4, <1>7, <1>8 DEF IInv, Types, ImagesOK, Counted

LEMMA IInvAlways ==
  ASSUME Careful
  PROVE  Spec => []IInv
<1>1. Init => IInv
  BY InitIInv
<1>2. IInv /\ [Next]_vars => IInv'
  BY StepIInv
<1>3. QED
  BY <1>1, <1>2, PTL DEF Spec

LEMMA IInvGivesComplete == IInv => SnapshotIsComplete
<1> SUFFICES ASSUME IInv PROVE SnapshotIsComplete
  OBVIOUS
<1> USE DEF IInv
<1>1. ASSUME NEW s \in Snapshots, status[s] = "created", NEW d \in ToSet(members[s])
      PROVE  /\ d \in Devices /\ d \in tracked /\ snapshotId[d] = s
             /\ deferIo[d] \in running
  <2>1. d \in Members(s) /\ d \in Devices
    BY <1>1, MembersAreDevices DEF Members, Types
  <2>2. Captured(d, s)
    BY <1>1, <2>1 DEF TrackersInv, CapturedInv, CreatedInv
  <2>3. QED
    BY <2>1, <2>2 DEF Captured, TrackersInv, TrackedInv
<1>2. SnapshotIsCaptured
  BY <1>1 DEF SnapshotIsCaptured
<1>3. ASSUME NoneLacking, NEW s \in Snapshots, status[s] = "created", NEW d \in ToSet(members[s])
      PROVE  ImageOf(d) # 0 /\ images[ImageOf(d)].defer = deferIo[d]
  <2>1. HasImage(d)
    BY <1>3 DEF ImagesInv, ImageCallsInv, Members
  <2>2. PICK i \in DOMAIN images : images[i].dev = d /\ images[i].defer = deferIo[d]
    BY <2>1 DEF HasImage, Shown
  <2>3. ImageOf(d) # 0 /\ ImageOf(d) \in DOMAIN images /\ images[ImageOf(d)].dev = d
    BY <2>2, ImageFound DEF NoImage, Types
  <2>4. NoneLeft
    BY <1>3 DEF NoneLeft, NoneLacking
  <2>5. ImageOf(d) = i
    BY <2>2, <2>3, <2>4 DEF ImagesInv, ImageListInv
  <2>6. QED
    BY <2>2, <2>3, <2>5
<1>4. ImagesAreFound
  BY <1>1, <1>3 DEF ImagesAreFound, NoneLacking
<1>5. QED
  BY <1>2, <1>4 DEF SnapshotIsComplete

LEMMA IInvGivesOwnership == IInv => OwnershipIsExact
<1> SUFFICES ASSUME IInv PROVE OwnershipIsExact
  OBVIOUS
<1> USE DEF IInv
<1>1. RefsAreExact
  BY DEF RefsAreExact, CountsInv, DefersInv, DeferOwners, CountsOK, DevicesOK, StoresOK, Alive
<1>2. ASSUME NoneLeft, \A s \in Snapshots : status[s] = "none"
      PROVE  /\ images = <<>> /\ running = {}
             /\ \A d \in Devices : deferIo[d] = None /\ snapshotId[d] = None
  <2>1. \A s \in Snapshots : Members(s) = {}
    BY <1>2 DEF ControlInv, SnapshotsInv, Members, ToSet
  <2>2. \A d : ~InSome(d)
    BY <2>1 DEF InSome
  <2>3. FreeInv
    BY <1>2 DEF NoneLeft, TrackersInv, ReleasedInv
  <2>4. \A d \in Devices : deferIo[d] = None
    BY <2>2, <2>3 DEF FreeInv, Free
  <2>5. running = {}
    <3>1. running \subseteq Defers
      BY DEF Types, HeapTypes
    <3>2. QED
      BY <2>3, <2>4, <3>1, NoneIsOut DEF FreeInv
  <2>6. \A d \in Devices : snapshotId[d] = None
    <3>1. \A d \in Devices : snapshotId[d] \in Snapshots \cup {None}
      BY DEF Types, TrackerTypes
    <3>2. QED
      BY <2>1, <3>1 DEF TrackersInv, TrackedInv
  <2>7. images = <<>>
    <3>1. images \in Seq(ImageSet) /\ DOMAIN images = 1 .. Len(images) /\ Len(images) \in Nat
      BY LenProperties DEF Types
    <3>2. DOMAIN images = {}
      BY <1>2, <2>2 DEF ImagesInv, ImageListInv
    <3>3. Len(images) = 0
      BY <3>1, <3>2
    <3>4. QED
      BY <3>1, <3>3, EmptySeq
  <2>8. QED
    BY <2>4, <2>5, <2>6, <2>7
<1>3. NothingIsLeft
  BY <1>2 DEF NothingIsLeft, NoneLeft
<1>4. TrackersAreDisjoint
  BY DEF TrackersInv
<1>5. QED
  BY <1>1, <1>3, <1>4 DEF OwnershipIsExact

-----------------------------------------------------------------------------
LEMMA HollowStep ==
  ASSUME IInv, HollowInv, [Next]_vars
  PROVE  HollowInv'
<1>1. ASSUME NEW d \in Devices, NEW id, AddTracker(d, id) \/ AddTrackerFails(d) PROVE HollowInv'
  BY <1>1 DEF AddTracker, AddTrackerFails, Replace, HollowInv, trackerVars
<1>2. ASSUME UNCHANGED <<tracked, hollow>> PROVE HollowInv'
  BY <1>2 DEF HollowInv
<1>3. ASSUME NEW d, ReleaseTracker(d) PROVE UNCHANGED <<tracked, hollow>>
  BY <1>3 DEF ReleaseTracker, trackerVars
<1>4. ASSUME NEW p \in Processes, Create(p) PROVE HollowInv'
  <2>1. CASE CreateAdd(p)
    <3>1. Dev(p) \in Devices
      BY <2>1, CallFacts DEF CreateAdd, Continue, Idle, IInv, Types, ControlInv
    <3>2. QED
      BY <1>1, <2>1, <3>1 DEF CreateAdd
  <2>2. CASE ~CreateAdd(p)
    BY <1>2, <1>4, <2>2
    DEF Create, CreateStart, CreateCapture, CreateCaptureFails, CreateCheck, CreateImage,
        CreateImageSwallowed, CreateImageFails, CreateUnmake, trackerVars
  <2>3. QED
    BY <2>1, <2>2
<1>5. ASSUME NEW p \in Processes, Destroy(p) PROVE HollowInv'
  BY <1>2, <1>5 DEF Destroy, DestroyStart, DestroyAllStart, TakeSnapshot, DestroyStop,
                    DestroyImages, trackerVars
<1>6. ASSUME NEW p \in Processes, TakeBack(p) PROVE HollowInv'
  BY <1>2, <1>3, <1>6 DEF TakeBack, Release, ReleaseFails, Cleanup
<1>7. ASSUME NEW p \in Processes, Tracking(p) PROVE HollowInv'
  <2>1. PICK d \in Devices : TrackingAdd(p, d) \/ TrackingRemove(p, d)
    BY <1>7 DEF Tracking
  <2>2. CASE TrackingAdd(p, d)
    BY <1>1, <2>2 DEF TrackingAdd
  <2>3. CASE TrackingRemove(p, d)
    BY <2>3 DEF TrackingRemove, Replace, HollowInv
  <2>4. QED
    BY <2>1, <2>2, <2>3
<1>8. ASSUME NEW p \in Processes, Store(p) PROVE HollowInv'
  BY <1>2, <1>8 DEF Store, StoreCreate, StoreCleanup, trackerVars
<1>9. ASSUME NEW d \in Devices, CbtFault(d) PROVE HollowInv'
  BY <1>2, <1>9 DEF CbtFault
<1>10. CASE UNCHANGED vars
  BY <1>2, <1>10 DEF vars, trackerVars
<1>11. QED
  BY <1>4, <1>5, <1>6, <1>7, <1>8, <1>9, <1>10 DEF Next

(* Every variable keeps its type, whatever steps of the control calls      *)
(* (ctrl_fops.c) fail and however they interleave.                         *)
THEOREM TypeCorrect ==
  ASSUME Careful
  PROVE  Spec => []TypeOK
<1>1. Init => HollowInv
  BY DEF Init, HollowInv
<1>2. IInv /\ HollowInv /\ [Next]_vars => HollowInv'
  BY HollowStep
<1>3. IInv /\ HollowInv => TypeOK
  BY TypesGiveTypeOK DEF IInv
<1>4. QED
  BY <1>1, <1>2, <1>3, IInvAlways, PTL DEF Spec

(* From the return of snapshot_Create to the call of snapshot_Destroy all  *)
(* devices of a snapshot are captured for it, and found by its images,     *)
(* whatever calls for other devices do and however they fail.  The callers *)
(* are Careful: no calls for one device at a time, no tracking_add for a   *)
(* device in a snapshot or for one that it overlaps, no second snapshot of *)
(* it.  The driver does not see to that.                                   *)
THEOREM SnapshotsAreComplete ==
  ASSUME Careful
  PROVE  Spec => []SnapshotIsComplete
<1>1. IInv => SnapshotIsComplete
  BY IInvGivesComplete
<1>2. QED
  BY <1>1, IInvAlways, PTL

(* The reference counts of shared_resource.h are the number of owners, if  *)
(* no release fails; nothing of a destroyed snapshot is left, if neither a *)
(* release nor snapimage_create fails; no sector is tracked twice, but by  *)
(* a disk that is added after several of its partitions.  The callers are  *)
(* Careful, as above.                                                      *)
THEOREM OwnershipExact ==
  ASSUME Careful
  PROVE  Spec => []OwnershipIsExact
<1>1. IInv => OwnershipIsExact
  BY IInvGivesOwnership
<1>2. QED
  BY <1>1, IInvAlways, PTL

=============================================================================
