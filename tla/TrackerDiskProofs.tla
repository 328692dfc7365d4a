-------------------------- MODULE TrackerDiskProofs --------------------------
(***************************************************************************)
(* Theorems about TrackerDisk, for every disk, every set of partitions and *)
(* of requests, and any number of tracker_disk_t.                          *)
(***************************************************************************)
EXTENDS TrackerDisk, FiniteSetTheorems, SequenceTheorems, TLAPS

(* tr_disk and the reference that tracking_add holds, at each point of     *)
(* tracking_add and tracking_remove.                                       *)
PointersInv ==
  \A p \in Parts :
    /\ probe[p] # NoDisk => control[p] = "probed"
    /\ trDisk[p] # NoDisk => tracker[p] = "ready" /\ control[p] \in {"idle", "thaw", "drain", "put"}
    /\ tracker[p] = "ready" => trDisk[p] # NoDisk \/ control[p] \in {"detach", "free"}
    /\ control[p] \in {"probed", "new"} => tracker[p] = "none"
    /\ control[p] \in {"block", "freeze", "find", "insert", "failed"} => tracker[p] = "new"
    /\ control[p] = "thaw" => tracker[p] = "ready"
    /\ control[p] = "idle" => tracker[p] \in {"none", "ready"}

(* The list has each tracker_disk_t once, and none before it is allocated. *)
ListInv ==
  /\ \A i, j \in 1 .. Len(container) : container[i] = container[j] => i = j
  /\ \A i \in 1 .. Len(container) : container[i] <= allocated

(* How many partitions point to d.                                         *)
Count(f, d) == Cardinality({p \in Parts : f[p] = d})

(* The pointer of one partition moves.                                     *)
Moves(f, g, p, from, to) ==
  f[p] = from /\ g[p] = to /\ \A q \in Parts \ {p} : g[q] = f[q]

CountInv == PointersInv /\ ListInv /\ RefsAreExact

-----------------------------------------------------------------------------
(* When callers take turns.                                                *)
OneAtATime ==
  \A p, q \in Parts : control[p] # "idle" /\ control[q] # "idle" => p = q

(* The hook is that of the only tracker_disk_t, which keeps the driver's   *)
(* own fops; none comes between the look for it and its insertion.         *)
HookInv ==
  /\ OneHook
  /\ container # <<>> => original[fops] = Driver
  /\ \A p \in Parts : control[p] = "insert" => container = <<>>

(* A request that must be served stays with the tracker_disk_t and the     *)
(* tracker of its partition.                                               *)
ServedInv ==
  \A u \in Users :
    /\ at[u] # "submit" => holds[u] = "nothing"
    /\ must[u] => /\ at[u] # "idle"
                  /\ Tracked(PartOf[u])
                  /\ at[u] \in {"found", "submit"} => seen[u] = trDisk[PartOf[u]]
                  /\ holds[u] # "freed"

SerialInv == serial => OneAtATime /\ HookInv /\ ServedInv /\ ~hurt

-----------------------------------------------------------------------------
(* What RemoveAt leaves of a sequence.                                     *)
LEMMA RemoveAtProperties ==
  ASSUME NEW S, NEW s \in Seq(S), NEW k \in 1 .. Len(s)
  PROVE  /\ RemoveAt(s, k) \in Seq(S)
         /\ Len(RemoveAt(s, k)) = Len(s) - 1
         /\ \A i \in 1 .. Len(s) - 1 :
              RemoveAt(s, k)[i] = IF i < k THEN s[i] ELSE s[i + 1]
<1> DEFINE n == Len(s)
           front == SubSeq(s, 1, k - 1)
           back  == SubSeq(s, k + 1, n)
<1>1. n \in Nat /\ k \in Int /\ 1 <= k /\ k <= n /\ \A i \in 1 .. n : s[i] \in S
  BY LenProperties, ElementOfSeq
<1>2. front \in Seq(S) /\ Len(front) = k - 1 /\ \A i \in 1 .. k - 1 : front[i] = s[i]
  <2>1. \A i \in 1 .. k - 1 : i \in 1 .. n
    BY <1>1
  <2>2. QED
    BY <1>1, <2>1, SubSeqProperties
<1>3. back \in Seq(S) /\ Len(back) = n - k /\ \A i \in 1 .. n - k : back[i] = s[k + i]
  <2>1. \A i \in k + 1 .. n : i \in 1 .. n
    BY <1>1
  <2>2. QED
    BY <1>1, <2>1, SubSeqProperties
<1>4. RemoveAt(s, k) = front \o back
  BY DEF RemoveAt
<1> HIDE DEF front, back, n
<1>5. /\ front \o back \in Seq(S)
      /\ Len(front \o back) = Len(front) + Len(back)
      /\ \A i \in 1 .. Len(front) + Len(back) :
           (front \o back)[i] = IF i <= Len(front) THEN front[i] ELSE back[i - Len(front)]
  BY <1>2, <1>3, ConcatProperties
<1>6. ASSUME NEW i \in 1 .. n - 1
      PROVE  (front \o back)[i] = IF i < k THEN s[i] ELSE s[i + 1]
  <2>1. CASE i < k
    BY <1>1, <1>2, <1>3, <1>5, <2>1
  <2>2. CASE i >= k
    <3>1. i - (k - 1) \in 1 .. n - k /\ k + (i - (k - 1)) = i + 1
      BY <1>1, <2>2
    <3>2. (front \o back)[i] = back[i - (k - 1)]
      BY <1>1, <1>2, <1>3, <1>5, <2>2
    <3>3. back[i - (k - 1)] = s[i + 1]
      BY <1>3, <3>1
    <3>4. QED
      BY <1>1, <2>2, <3>2, <3>3
  <2>3. i < k \/ i >= k
    BY <1>1
  <2>4. QED
    BY <2>1, <2>2, <2>3
<1>7. QED
  BY <1>1, <1>2, <1>3, <1>4, <1>5, <1>6 DEF n

(* The element that list_del takes out of the list was in it once: the     *)
(* rest keeps its order and its elements.                                  *)
LEMMA UnlinkedList ==
  ASSUME container \in Seq(Disks), allocated \in Int, ListInv, NEW d \in Disks, Live(d)
  PROVE  /\ Unlinked(d) \in Seq(Disks)
         /\ Len(Unlinked(d)) = Len(container) - 1
         /\ \A i, j \in 1 .. Len(Unlinked(d)) : Unlinked(d)[i] = Unlinked(d)[j] => i = j
         /\ \A i \in 1 .. Len(Unlinked(d)) : Unlinked(d)[i] <= allocated
         /\ \A e : Contains(Unlinked(d), e) <=> Live(e) /\ e # d
<1> DEFINE k == CHOOSE i \in DOMAIN container : container[i] = d
           n == Len(container)
           rest == Unlinked(d)
<1>1. n \in Nat /\ DOMAIN container = 1 .. n /\ \A i \in 1 .. n : container[i] \in Disks
  BY LenProperties, ElementOfSeq
<1>2. k \in 1 .. n /\ container[k] = d
  BY <1>1 DEF Live, Contains
<1>3. rest = RemoveAt(container, k)
  BY DEF Unlinked
<1> HIDE DEF k, rest
<1>4. /\ rest \in Seq(Disks) /\ Len(rest) = n - 1
      /\ \A i \in 1 .. n - 1 : rest[i] = IF i < k THEN container[i] ELSE container[i + 1]
  BY <1>2, <1>3, RemoveAtProperties
<1>5. \A i, j \in 1 .. n : container[i] = container[j] => i = j
  BY DEF ListInv
<1>6. \A i, j \in 1 .. n - 1 : rest[i] = rest[j] => i = j
  BY <1>1, <1>2, <1>4, <1>5
<1>7. \A i \in 1 .. n - 1 : rest[i] <= allocated
  BY <1>1, <1>2, <1>4 DEF ListInv
<1>8. ASSUME NEW e
       PROVE  Contains(rest, e) <=> Live(e) /\ e # d
  <2>1. ASSUME NEW i \in 1 .. n - 1, rest[i] = e
        PROVE  Live(e) /\ e # d
    BY <1>1, <1>2, <1>4, <1>5, <2>1 DEF Live, Contains
  <2>2. ASSUME NEW i \in 1 .. n, container[i] = e, e # d
        PROVE  \E j \in 1 .. n - 1 : rest[j] = e
    <3>1. CASE i < k
      <4>1. i \in 1 .. n - 1 /\ rest[i] = e
        BY <1>1, <1>2, <1>4, <2>2, <3>1
      <4>2. QED
        BY <4>1
    <3>2. CASE i > k
      <4>1. i - 1 \in 1 .. n - 1 /\ rest[i - 1] = e
        BY <1>1, <1>2, <1>4, <2>2, <3>2
      <4>2. QED
        BY <4>1
    <3>3. QED
      BY <1>1, <1>2, <2>2, <3>1, <3>2
  <2>3. QED
    BY <1>4, <2>1, <2>2 DEF Live, Contains
<1>9. QED
  BY <1>4, <1>6, <1>7, <1>8 DEF rest

(* It is a number, and not zero when one does.                             *)
LEMMA CountIsNumber ==
  ASSUME NEW f, NEW d
  PROVE  /\ Count(f, d) \in Nat
         /\ Count(f, d) = 0 <=> \A p \in Parts : f[p] # d
<1>1. IsFiniteSet({p \in Parts : f[p] = d})
  BY DiskAssumption, FS_Subset
<1>2. QED
  BY <1>1, FS_CardinalityType, FS_EmptySet DEF Count

(* When the pointer of one partition moves, the count of the object that   *)
(* it leaves falls and that of the object that it comes to rises.          *)
LEMMA PointerMoves ==
  ASSUME NEW f, NEW g, NEW p \in Parts, NEW from, NEW to, Moves(f, g, p, from, to),
         from # to, NEW d
  PROVE  Count(g, d) = Count(f, d) + (IF to = d THEN 1 ELSE IF from = d THEN -1 ELSE 0)
<1> DEFINE before == {q \in Parts : f[q] = d}
           after  == {q \in Parts : g[q] = d}
<1>1. IsFiniteSet(before) /\ Cardinality(before) \in Nat
  BY DiskAssumption, FS_Subset, FS_CardinalityType
<1>2. Cardinality(after) = Cardinality(before) + (IF to = d THEN 1 ELSE IF from = d THEN -1 ELSE 0)
  <2>1. CASE to = d
    <3>1. after = before \cup {p} /\ p \notin before
      BY <2>1 DEF Moves
    <3>2. QED
      BY <1>1, <2>1, <3>1, FS_AddElement
  <2>2. CASE to # d /\ from = d
    <3>1. after = before \ {p} /\ p \in before
      BY <2>2 DEF Moves
    <3>2. QED
      BY <1>1, <2>2, <3>1, FS_RemoveElement
  <2>3. CASE to # d /\ from # d
    <3>1. after = before
      BY <2>3 DEF Moves
    <3>2. QED
      BY <1>1, <2>3, <3>1
  <2>4. QED
    BY <2>1, <2>2, <2>3
<1>3. QED
  BY <1>2 DEF Count

(* RefsAreExact in these terms.                                            *)
LEMMA RefsCount ==
  RefsAreExact <=> /\ \A d \in Disks : refs[d] = Count(trDisk, d) + Count(probe, d)
                   /\ \A d \in Disks : Live(d) <=> refs[d] > 0
<1>1. (\A d \in Disks : refs[d] = Count(trDisk, d) + Count(probe, d))
        <=> (\A d \in Disks : refs[d] = Cardinality({p \in Parts : trDisk[p] = d})
                                      + Cardinality({p \in Parts : probe[p] = d}))
  BY DEF Count
<1>2. QED
  BY <1>1 DEF RefsAreExact

-----------------------------------------------------------------------------
(* The count of references, and the list.                                  *)
LEMMA CountInit == Init => TypeOK /\ CountInv
<1> SUFFICES ASSUME Init PROVE TypeOK /\ CountInv
  OBVIOUS
<1>1. container = <<>> /\ Len(container) = 0
  BY DEF Init
<1>2. TypeOK
  <2>1. 0 \in 0 .. MaxDisks
    BY DiskAssumption
  <2>2. /\ container \in Seq(Disks) /\ refs \in [Disks -> Nat]
        /\ original \in [Disks -> Disks \cup {Driver}]
        /\ trDisk \in [Parts -> Disks \cup {NoDisk}] /\ probe \in [Parts -> Disks \cup {NoDisk}]
        /\ seen \in [Users -> Disks \cup {NoDisk}]
    BY DEF Init
  <2>3. /\ tracker \in [Parts -> {"none", "new", "ready"}]
        /\ at \in [Users -> {"idle", "entered", "found", "submit"}]
        /\ holds \in [Users -> {"nothing", "tracker", "freed"}]
        /\ must \in [Users -> BOOLEAN]
    BY DEF Init
  <2>4. QED
    BY <2>1, <2>2, <2>3 DEF Init, TypeOK
<1>3. PointersInv
  BY DEF Init, PointersInv, NoDisk
<1>4. ListInv
  BY <1>1 DEF ListInv
<1>5. RefsAreExact
  <2>1. ASSUME NEW d \in Disks
        PROVE  /\ refs[d] = Count(trDisk, d) + Count(probe, d)
               /\ Live(d) <=> refs[d] > 0
    <3>1. d # NoDisk
      BY DEF Disks, NoDisk
    <3>2. refs[d] = 0 /\ ~Live(d) /\ \A p \in Parts : trDisk[p] # d /\ probe[p] # d
      BY <1>1, <3>1 DEF Init, Live, Contains
    <3>3. Count(trDisk, d) = 0 /\ Count(probe, d) = 0
      BY <3>2, CountIsNumber
    <3>4. QED
      BY <3>2, <3>3
  <2>2. QED
    BY <2>1, RefsCount
<1>6. QED
  BY <1>2, <1>3, <1>4, <1>5 DEF CountInv

(* What is found is on the list, and so is what a partition points to.     *)
LEMMA FindIsLive ==
  ASSUME TypeOK
  PROVE  /\ Find \in Disks \cup {NoDisk}
         /\ Find = NoDisk <=> container = <<>>
         /\ Find # NoDisk => Live(Find)
<1>1. container \in Seq(Disks) /\ NoDisk \notin Disks
  BY DEF TypeOK, NoDisk, Disks
<1>2. CASE container = <<>>
  BY <1>2 DEF Find
<1>3. CASE container # <<>>
  <2>1. Head(container) \in Disks /\ Head(container) = container[1] /\ 1 \in 1 .. Len(container)
    BY <1>1, <1>3, HeadTailProperties, LenProperties, EmptySeq
  <2>2. QED
    BY <1>1, <1>3, <2>1 DEF Find, Live, Contains
<1>4. QED
  BY <1>2, <1>3

LEMMA PointedToIsLive ==
  ASSUME TypeOK, CountInv, NEW p \in Parts, NEW d \in Disks, trDisk[p] = d \/ probe[p] = d
  PROVE  refs[d] > 0 /\ Live(d)
<1>1. /\ Count(trDisk, d) \in Nat /\ (Count(trDisk, d) = 0 => trDisk[p] # d)
      /\ Count(probe, d) \in Nat /\ (Count(probe, d) = 0 => probe[p] # d)
  BY CountIsNumber
<1>2. refs[d] = Count(trDisk, d) + Count(probe, d) /\ (Live(d) <=> refs[d] > 0)
  <2>1. RefsAreExact
    BY DEF CountInv
  <2>2. QED
    BY <2>1, RefsCount
<1>3. QED
  BY <1>1, <1>2

(* kref_get of an object that is in use.                                   *)
LEMMA GetEffect ==
  ASSUME TypeOK, CountInv, NEW d \in Disks, Live(d), Get(d)
  PROVE  /\ refs' \in [Disks -> Nat]
         /\ \A e \in Disks : refs'[e] = refs[e] + (IF e = d THEN 1 ELSE 0)
         /\ ListInv'
         /\ \A e \in Disks : Live(e)' <=> refs'[e] > 0
         /\ UNCHANGED <<container, original, fops, allocated>>
<1>1. /\ refs \in [Disks -> Nat] /\ refs' = [refs EXCEPT ![d] = @ + 1]
      /\ UNCHANGED <<container, original, fops, allocated>>
  BY DEF TypeOK, Get
<1>2. ListInv'
  BY <1>1 DEF CountInv, ListInv
<1>3. refs' \in [Disks -> Nat] /\ \A e \in Disks : refs'[e] = refs[e] + (IF e = d THEN 1 ELSE 0)
  BY <1>1
<1>4. \A e \in Disks : (Live(e)' <=> Live(e)) /\ (Live(e) <=> refs[e] > 0) /\ refs[e] \in Nat
  BY <1>1 DEF Live, CountInv, RefsAreExact
<1>5. QED
  BY <1>1, <1>2, <1>3, <1>4

(* kref_put of an object that is in use: the last one takes it off the     *)
(* list.                                                                   *)
LEMMA PutEffect ==
  ASSUME TypeOK, CountInv, NEW d \in Disks, refs[d] > 0, Put(d)
  PROVE  /\ container' \in Seq(Disks)
         /\ refs' \in [Disks -> Nat]
         /\ \A e \in Disks : refs'[e] = refs[e] - (IF e = d THEN 1 ELSE 0)
         /\ fops' \in Disks \cup {Driver}
         /\ ListInv'
         /\ \A e \in Disks : Live(e)' <=> refs'[e] > 0
         /\ UNCHANGED <<original, allocated>>
<1>1. /\ refs \in [Disks -> Nat] /\ refs' = [refs EXCEPT ![d] = @ - 1]
      /\ UNCHANGED <<original, allocated>>
      /\ container \in Seq(Disks) /\ allocated \in Int
  BY DEF TypeOK, Put
<1>2. refs' \in [Disks -> Nat] /\ \A e \in Disks : refs'[e] = refs[e] - (IF e = d THEN 1 ELSE 0)
  BY <1>1
<1>3. ListInv /\ \A e \in Disks : Live(e) <=> refs[e] > 0
  BY DEF CountInv, RefsAreExact
<1>4. CASE refs[d] = 1
  <2>1. container' = Unlinked(d) /\ fops' = original[d]
    BY <1>4 DEF Put
  <2>2. /\ container' \in Seq(Disks)
        /\ \A i, j \in 1 .. Len(container') : container'[i] = container'[j] => i = j
        /\ \A i \in 1 .. Len(container') : container'[i] <= allocated
        /\ \A e : Contains(container', e) <=> Live(e) /\ e # d
    BY <1>1, <1>3, <2>1, UnlinkedList
  <2>3. \A e \in Disks : Live(e)' <=> refs'[e] > 0
    BY <1>1, <1>2, <1>3, <1>4, <2>2 DEF Live
  <2>4. fops' \in Disks \cup {Driver}
    BY <2>1 DEF TypeOK
  <2>5. QED
    BY <1>1, <1>2, <2>2, <2>3, <2>4 DEF ListInv
<1>5. CASE refs[d] # 1
  <2>1. UNCHANGED <<container, fops>>
    BY <1>5 DEF Put
  <2>2. \A e \in Disks : Live(e)' <=> refs'[e] > 0
    BY <1>1, <1>2, <1>3, <1>5, <2>1 DEF Live
  <2>3. QED
    BY <1>1, <1>2, <1>3, <2>1, <2>2 DEF ListInv, TypeOK
<1>6. QED
  BY <1>4, <1>5

LEMMA RefsCountNext ==
  RefsAreExact' <=> /\ \A d \in Disks : refs'[d] = Count(trDisk', d) + Count(probe', d)
                    /\ \A d \in Disks : Live(d)' <=> refs'[d] > 0
<1>1. (\A d \in Disks : refs'[d] = Count(trDisk', d) + Count(probe', d))
        <=> (\A d \in Disks : refs'[d] = Cardinality({p \in Parts : trDisk'[p] = d})
                                       + Cardinality({p \in Parts : probe'[p] = d}))
  BY DEF Count
<1>2. QED
  BY <1>1 DEF RefsAreExact

(* One reference is given back where a pointer leaves, and one is taken    *)
(* where it comes to.                                                      *)
LEMMA Recount ==
  ASSUME CountInv, NEW p \in Parts, NEW from, NEW to, from # to,
         \/ Moves(trDisk, trDisk', p, from, to) /\ UNCHANGED probe
         \/ Moves(probe, probe', p, from, to) /\ UNCHANGED trDisk,
         \A e \in Disks :
           refs'[e] = refs[e] + (IF to = e THEN 1 ELSE IF from = e THEN -1 ELSE 0),
         \A e \in Disks : Live(e)' <=> refs'[e] > 0
  PROVE  RefsAreExact'
<1>1. SUFFICES ASSUME NEW e \in Disks
               PROVE  refs'[e] = Count(trDisk', e) + Count(probe', e)
  BY RefsCountNext
<1>2. Count(trDisk, e) \in Nat /\ Count(probe, e) \in Nat
  BY CountIsNumber
<1>3. refs[e] = Count(trDisk, e) + Count(probe, e)
  BY RefsCount DEF CountInv
<1>4. CASE Moves(trDisk, trDisk', p, from, to) /\ UNCHANGED probe
  <2>1. Count(trDisk', e) = Count(trDisk, e) + (IF to = e THEN 1 ELSE IF from = e THEN -1 ELSE 0)
    BY <1>4, PointerMoves
  <2>2. QED
    BY <1>2, <1>3, <1>4, <2>1
<1>5. CASE Moves(probe, probe', p, from, to) /\ UNCHANGED trDisk
  <2>1. Count(probe', e) = Count(probe, e) + (IF to = e THEN 1 ELSE IF from = e THEN -1 ELSE 0)
    BY <1>5, PointerMoves
  <2>2. QED
    BY <1>2, <1>3, <1>5, <2>1
<1>6. QED
  BY <1>4, <1>5

(* What a step keeps that touches no reference.                            *)
LEMMA CountKept ==
  ASSUME CountInv, UNCHANGED <<container, refs, allocated, trDisk, probe>>
  PROVE  ListInv' /\ RefsAreExact'
BY DEF CountInv, ListInv, RefsAreExact, Live

(* tracking_add and tracking_remove: the types, one action after the other *)
(* where a reference is taken or given back, and the others together.      *)
LEMMA ProbeKeepsCount ==
  ASSUME TypeOK, CountInv, NEW p \in Parts, AddProbe(p)
  PROVE  TypeOK' /\ CountInv'
<1>1. /\ control[p] = "idle" /\ control' = [control EXCEPT ![p] = "probed"] /\ tracker[p] = "none"
      /\ probe' = [probe EXCEPT ![p] = Find]
      /\ UNCHANGED <<tracker, trDisk, frozen, userVars>>
  BY DEF AddProbe, Goes
<1>2. probe[p] = NoDisk /\ trDisk[p] = NoDisk
  BY <1>1 DEF CountInv, PointersInv
<1>3. Find \in Disks \cup {NoDisk} /\ probe' \in [Parts -> Disks \cup {NoDisk}]
      /\ control' \in [Parts -> {"idle", "probed", "new", "block", "freeze", "find",
                               "insert", "thaw", "failed", "drain", "put", "detach", "free"}]
  BY <1>1, FindIsLive DEF TypeOK
<1>4. PointersInv'
  BY <1>1, <1>2 DEF TypeOK, CountInv, PointersInv
<1>5. CASE Find = NoDisk
  <2>1. UNCHANGED diskVars
    BY <1>5 DEF AddProbe
  <2>2. probe' = probe
    BY <1>1, <1>2, <1>5 DEF TypeOK
  <2>3. ListInv' /\ RefsAreExact'
    BY <1>1, <2>1, <2>2, CountKept DEF diskVars
  <2>4. QED
    BY <1>1, <1>3, <1>4, <2>1, <2>3 DEF TypeOK, CountInv, diskVars, userVars, modeVars
<1>6. CASE Find # NoDisk
  <2>1. Find \in Disks /\ Live(Find) /\ Get(Find)
    BY <1>3, <1>6, FindIsLive DEF AddProbe
  <2>2. /\ refs' \in [Disks -> Nat]
        /\ \A e \in Disks : refs'[e] = refs[e] + (IF e = Find THEN 1 ELSE 0)
        /\ ListInv'
        /\ \A e \in Disks : Live(e)' <=> refs'[e] > 0
        /\ UNCHANGED <<container, original, fops, allocated>>
    BY <2>1, GetEffect
  <2>3. \A e \in Disks :
          refs'[e] = refs[e] + (IF Find = e THEN 1 ELSE IF NoDisk = e THEN -1 ELSE 0)
    BY <2>2 DEF Disks, NoDisk
  <2>4. RefsAreExact'
    <3>1. Moves(probe, probe', p, NoDisk, Find) /\ UNCHANGED trDisk
      BY <1>1, <1>2 DEF TypeOK, Moves
    <3>2. QED
      BY <1>6, <2>2, <2>3, <3>1, Recount
  <2>5. QED
    BY <1>1, <1>3, <1>4, <2>2, <2>4 DEF TypeOK, CountInv, userVars, modeVars
<1>7. QED
  BY <1>5, <1>6

LEMMA ProbedKeepsCount ==
  ASSUME TypeOK, CountInv, NEW p \in Parts, AddProbed(p)
  PROVE  TypeOK' /\ CountInv'
<1>1. /\ control[p] = "probed" /\ control' = [control EXCEPT ![p] = "new"]
      /\ probe' = [probe EXCEPT ![p] = NoDisk]
      /\ UNCHANGED <<tracker, trDisk, frozen, userVars>>
  BY DEF AddProbed, Goes
<1>2. /\ probe[p] \in Disks \cup {NoDisk} /\ probe' \in [Parts -> Disks \cup {NoDisk}]
      /\ control' \in [Parts -> {"idle", "probed", "new", "block", "freeze", "find",
                               "insert", "thaw", "failed", "drain", "put", "detach", "free"}]
  BY <1>1 DEF TypeOK
<1>3. PointersInv'
  BY <1>1 DEF TypeOK, CountInv, PointersInv
<1>4. CASE probe[p] = NoDisk
  <2>1. UNCHANGED diskVars
    BY <1>4 DEF AddProbed
  <2>2. probe' = probe
    BY <1>1, <1>4 DEF TypeOK
  <2>3. ListInv' /\ RefsAreExact'
    BY <1>1, <2>1, <2>2, CountKept DEF diskVars
  <2>4. QED
    BY <1>1, <1>2, <1>3, <2>1, <2>3 DEF TypeOK, CountInv, diskVars, userVars, modeVars
<1>5. CASE probe[p] # NoDisk
  <2>1. probe[p] \in Disks /\ Put(probe[p])
    BY <1>2, <1>5 DEF AddProbed
  <2>2. /\ container' \in Seq(Disks)
        /\ refs' \in [Disks -> Nat]
        /\ \A e \in Disks : refs'[e] = refs[e] - (IF e = probe[p] THEN 1 ELSE 0)
        /\ fops' \in Disks \cup {Driver}
        /\ ListInv'
        /\ \A e \in Disks : Live(e)' <=> refs'[e] > 0
        /\ UNCHANGED <<original, allocated>>
    BY <2>1, PointedToIsLive, PutEffect
  <2>3. \A e \in Disks :
          refs'[e] = refs[e] + (IF NoDisk = e THEN 1 ELSE IF probe[p] = e THEN -1 ELSE 0)
    <3>1. \A e \in Disks : e # NoDisk /\ refs[e] \in Int
      BY DEF TypeOK, Disks, NoDisk
    <3>2. QED
      BY <2>2, <3>1
  <2>4. RefsAreExact'
    <3>1. Moves(probe, probe', p, probe[p], NoDisk) /\ UNCHANGED trDisk
      BY <1>1 DEF TypeOK, Moves
    <3>2. QED
      BY <1>5, <2>2, <2>3, <3>1, Recount
  <2>5. QED
    BY <1>1, <1>2, <1>3, <2>2, <2>4 DEF TypeOK, CountInv, userVars, modeVars
<1>6. QED
  BY <1>4, <1>5

LEMMA FindKeepsCount ==
  ASSUME TypeOK, CountInv, NEW p \in Parts, DiskFind(p)
  PROVE  TypeOK' /\ CountInv'
<1>1. /\ control[p] = "find" /\ UNCHANGED <<probe, frozen, userVars>>
      /\ trDisk[p] = NoDisk /\ tracker[p] = "new"
  BY DEF DiskFind, Goes, CountInv, PointersInv
<1>2. CASE Find = NoDisk
  <2>1. control' = [control EXCEPT ![p] = "insert"] /\ UNCHANGED <<diskVars, trDisk, tracker>>
    BY <1>2 DEF DiskFind, Goes
  <2>2. ListInv' /\ RefsAreExact'
    BY <1>1, <2>1, CountKept DEF diskVars
  <2>3. PointersInv'
    BY <1>1, <2>1 DEF TypeOK, CountInv, PointersInv
  <2>4. QED
    BY <1>1, <2>1, <2>2, <2>3 DEF TypeOK, CountInv, diskVars, userVars, modeVars
<1>3. CASE Find # NoDisk
  <2>1. /\ control' = [control EXCEPT ![p] = "thaw"]
        /\ trDisk' = [trDisk EXCEPT ![p] = Find]
        /\ tracker' = [tracker EXCEPT ![p] = "ready"]
        /\ Get(Find) /\ Find \in Disks /\ Live(Find)
    BY <1>3, FindIsLive DEF DiskFind, Goes, Attach
  <2>2. /\ refs' \in [Disks -> Nat]
        /\ \A e \in Disks : refs'[e] = refs[e] + (IF e = Find THEN 1 ELSE 0)
        /\ ListInv'
        /\ \A e \in Disks : Live(e)' <=> refs'[e] > 0
        /\ UNCHANGED <<container, original, fops, allocated>>
    BY <2>1, GetEffect
  <2>3. \A e \in Disks :
          refs'[e] = refs[e] + (IF Find = e THEN 1 ELSE IF NoDisk = e THEN -1 ELSE 0)
    BY <2>2 DEF Disks, NoDisk
  <2>4. RefsAreExact'
    <3>1. Moves(trDisk, trDisk', p, NoDisk, Find) /\ UNCHANGED probe
      BY <1>1, <2>1 DEF TypeOK, Moves
    <3>2. QED
      BY <1>3, <2>2, <2>3, <3>1, Recount
  <2>5. PointersInv'
    BY <1>1, <1>3, <2>1 DEF TypeOK, CountInv, PointersInv
  <2>6. /\ trDisk' \in [Parts -> Disks \cup {NoDisk}]
        /\ tracker' \in [Parts -> {"none", "new", "ready"}]
        /\ control' \in [Parts -> {"idle", "probed", "new", "block", "freeze", "find",
                                 "insert", "thaw", "failed", "drain", "put", "detach", "free"}]
    BY <2>1 DEF TypeOK
  <2>7. QED
    BY <1>1, <2>2, <2>4, <2>5, <2>6 DEF TypeOK, CountInv, userVars, modeVars
<1>4. QED
  BY <1>2, <1>3

(* Nothing points to a tracker_disk_t before it is inserted.               *)
LEMMA InsertKeepsCount ==
  ASSUME TypeOK, CountInv, NEW p \in Parts, DiskInsert(p)
  PROVE  TypeOK' /\ CountInv'
<1> DEFINE d == allocated + 1
           n == Len(container)
<1>1. /\ control[p] = "insert" /\ control' = [control EXCEPT ![p] = "thaw"]
      /\ trDisk' = [trDisk EXCEPT ![p] = d]
      /\ tracker' = [tracker EXCEPT ![p] = "ready"]
      /\ allocated < MaxDisks /\ allocated' = d
      /\ container' = Append(container, d)
      /\ refs' = [refs EXCEPT ![d] = 1]
      /\ original' = [original EXCEPT ![d] = fops]
      /\ fops' = d
      /\ UNCHANGED <<probe, frozen, userVars>>
  BY DEF DiskInsert, Goes, Attach
<1>2. d \in Disks /\ d \in 0 .. MaxDisks /\ d # NoDisk
  BY <1>1, DiskAssumption DEF TypeOK, Disks, NoDisk
<1>3. /\ container \in Seq(Disks) /\ n \in Nat /\ allocated \in Int
      /\ \A i \in 1 .. n : container[i] \in Disks /\ container[i] # d
  <2>1. container \in Seq(Disks) /\ n \in Nat /\ allocated \in Int
        /\ \A i \in 1 .. n : container[i] \in Disks
    BY LenProperties, ElementOfSeq DEF TypeOK
  <2>2. \A i \in 1 .. n : container[i] # d
    BY <2>1 DEF CountInv, ListInv, Disks
  <2>3. QED
    BY <2>1, <2>2
<1>4. /\ container' \in Seq(Disks) /\ Len(container') = n + 1
      /\ \A i \in 1 .. n : container'[i] = container[i]
      /\ container'[n + 1] = d
  BY <1>1, <1>2, <1>3, AppendProperties
<1> HIDE DEF d, n
<1>5. ListInv'
  <2>1. \A i, j \in 1 .. n : container[i] = container[j] => i = j
    BY DEF CountInv, ListInv, n
  <2>2. \A i, j \in 1 .. n + 1 : container'[i] = container'[j] => i = j
    BY <1>3, <1>4, <2>1
  <2>3. \A i \in 1 .. n + 1 : container'[i] <= d
    <3>1. \A i \in 1 .. n : container[i] \in Int /\ container[i] <= allocated
      BY <1>3 DEF CountInv, ListInv, Disks, n
    <3>2. d = allocated + 1
      BY DEF d
    <3>3. QED
      BY <1>3, <1>4, <3>1, <3>2
  <2>4. QED
    BY <1>1, <1>4, <2>2, <2>3 DEF ListInv
<1>6. ~Live(d) /\ refs[d] = 0
  <2>1. ~Live(d)
    BY <1>3 DEF Live, Contains, n
  <2>2. QED
    BY <1>2, <2>1 DEF CountInv, RefsAreExact, TypeOK
<1>7. /\ refs' \in [Disks -> Nat]
      /\ \A e \in Disks : refs'[e] = refs[e] + (IF d = e THEN 1 ELSE IF NoDisk = e THEN -1 ELSE 0)
  <2>1. \A e \in Disks : e # NoDisk /\ refs[e] \in Nat
    BY DEF TypeOK, Disks, NoDisk
  <2>2. QED
    BY <1>1, <1>2, <1>6, <2>1 DEF TypeOK
<1>8. \A e \in Disks : Live(e)' <=> refs'[e] > 0
  <2>1. \A e \in Disks : Live(e)' <=> Live(e) \/ e = d
    BY <1>3, <1>4 DEF Live, Contains, n
  <2>2. \A e \in Disks : (Live(e) <=> refs[e] > 0) /\ refs[e] \in Nat /\ e # NoDisk
    BY DEF CountInv, RefsAreExact, TypeOK, Disks, NoDisk
  <2>3. QED
    BY <1>6, <1>7, <2>1, <2>2
<1>9. trDisk[p] = NoDisk /\ tracker[p] = "new"
  BY <1>1 DEF CountInv, PointersInv
<1>10. RefsAreExact'
  <2>1. Moves(trDisk, trDisk', p, NoDisk, d) /\ UNCHANGED probe
    BY <1>1, <1>9 DEF TypeOK, Moves
  <2>2. QED
    BY <1>2, <1>7, <1>8, <2>1, Recount
<1>11. PointersInv'
  BY <1>1, <1>2, <1>9 DEF TypeOK, CountInv, PointersInv
<1>12. /\ trDisk' \in [Parts -> Disks \cup {NoDisk}]
       /\ tracker' \in [Parts -> {"none", "new", "ready"}]
       /\ original' \in [Disks -> Disks \cup {Driver}]
       /\ control' \in [Parts -> {"idle", "probed", "new", "block", "freeze", "find",
                                "insert", "thaw", "failed", "drain", "put", "detach", "free"}]
  BY <1>1, <1>2 DEF TypeOK
<1>13. QED
  BY <1>1, <1>2, <1>4, <1>5, <1>7, <1>10, <1>11, <1>12 DEF TypeOK, CountInv, userVars, modeVars

LEMMA RemovePutKeepsCount ==
  ASSUME TypeOK, CountInv, NEW p \in Parts, RemovePut(p)
  PROVE  TypeOK' /\ CountInv'
<1>1. /\ control[p] = "put" /\ control' = [control EXCEPT ![p] = "detach"]
      /\ trDisk' = [trDisk EXCEPT ![p] = NoDisk]
      /\ UNCHANGED <<tracker, probe, frozen, userVars>>
  BY DEF RemovePut, Goes
<1>2. /\ trDisk[p] \in Disks \cup {NoDisk} /\ trDisk' \in [Parts -> Disks \cup {NoDisk}]
      /\ control' \in [Parts -> {"idle", "probed", "new", "block", "freeze", "find",
                               "insert", "thaw", "failed", "drain", "put", "detach", "free"}]
  BY <1>1 DEF TypeOK
<1>3. PointersInv'
  BY <1>1 DEF TypeOK, CountInv, PointersInv
<1>4. CASE trDisk[p] = NoDisk
  <2>1. UNCHANGED diskVars
    BY <1>4 DEF RemovePut
  <2>2. trDisk' = trDisk
    BY <1>1, <1>4 DEF TypeOK
  <2>3. ListInv' /\ RefsAreExact'
    BY <1>1, <2>1, <2>2, CountKept DEF diskVars
  <2>4. QED
    BY <1>1, <1>2, <1>3, <2>1, <2>3 DEF TypeOK, CountInv, diskVars, userVars, modeVars
<1>5. CASE trDisk[p] # NoDisk
  <2>1. trDisk[p] \in Disks /\ Put(trDisk[p])
    BY <1>2, <1>5 DEF RemovePut
  <2>2. /\ container' \in Seq(Disks)
        /\ refs' \in [Disks -> Nat]
        /\ \A e \in Disks : refs'[e] = refs[e] - (IF e = trDisk[p] THEN 1 ELSE 0)
        /\ fops' \in Disks \cup {Driver}
        /\ ListInv'
        /\ \A e \in Disks : Live(e)' <=> refs'[e] > 0
        /\ UNCHANGED <<original, allocated>>
    BY <2>1, PointedToIsLive, PutEffect
  <2>3. \A e \in Disks :
          refs'[e] = refs[e] + (IF NoDisk = e THEN 1 ELSE IF trDisk[p] = e THEN -1 ELSE 0)
    <3>1. \A e \in Disks : e # NoDisk /\ refs[e] \in Int
      BY DEF TypeOK, Disks, NoDisk
    <3>2. QED
      BY <2>2, <3>1
  <2>4. RefsAreExact'
    <3>1. Moves(trDisk, trDisk', p, trDisk[p], NoDisk) /\ UNCHANGED probe
      BY <1>1 DEF TypeOK, Moves
    <3>2. QED
      BY <1>5, <2>2, <2>3, <3>1, Recount
  <2>5. QED
    BY <1>1, <1>2, <1>3, <2>2, <2>4 DEF TypeOK, CountInv, userVars, modeVars
<1>6. QED
  BY <1>4, <1>5

(* The steps that leave the references alone.                              *)
LEMMA OthersKeepCount ==
  ASSUME TypeOK, CountInv, NEW p \in Parts,
         \/ NewTracker(p) \/ AddFreeze(p) \/ DiskInsertFails(p) \/ AddThaw(p)
         \/ RemoveFreeze(p) \/ RemoveThaw(p) \/ RemoveFree(p)
  PROVE  TypeOK' /\ CountInv'
<1>1. UNCHANGED <<diskVars, trDisk, probe, at, seen, hurt, modeVars>>
  BY DEF NewTracker, AddFreeze, DiskInsertFails, AddThaw, RemoveFreeze, RemoveThaw, RemoveFree,
         Blocks, Freezes, Thaws, Removes, userVars
<1>2. ListInv' /\ RefsAreExact'
  BY <1>1, CountKept DEF diskVars
<1> USE DEF Goes, Blocks, Freezes, Thaws, userVars
<1>3. CASE NewTracker(p)
  <2>1. /\ control[p] = "new" /\ control' = [control EXCEPT ![p] = "block"]
        /\ tracker' = [tracker EXCEPT ![p] = "new"]
        /\ UNCHANGED <<frozen, holds, must>>
    BY <1>3 DEF NewTracker
  <2>2. PointersInv'
    BY <1>1, <2>1 DEF TypeOK, CountInv, PointersInv
  <2>3. QED
    BY <1>1, <1>2, <2>1, <2>2 DEF TypeOK, CountInv, diskVars, modeVars
<1>4. CASE AddFreeze(p) \/ DiskInsertFails(p) \/ AddThaw(p) \/ RemoveThaw(p)
  <2>1. \/ control[p] = "block" /\ control' = [control EXCEPT ![p] = "freeze"]
        \/ control[p] = "freeze" /\ control' = [control EXCEPT ![p] = "find"]
        \/ control[p] = "insert" /\ control' = [control EXCEPT ![p] = "failed"]
        \/ control[p] = "thaw" /\ control' = [control EXCEPT ![p] = "idle"]
        \/ control[p] = "detach" /\ control' = [control EXCEPT ![p] = "free"]
    BY <1>4 DEF AddFreeze, DiskInsertFails, AddThaw, RemoveThaw
  <2>2. UNCHANGED <<tracker, holds, must>> /\ frozen' \subseteq Parts
    BY <1>4 DEF AddFreeze, DiskInsertFails, AddThaw, RemoveThaw, TypeOK
  <2>3. PointersInv'
    <3>1. \A q \in Parts : q # p => control'[q] = control[q]
      BY <2>1 DEF TypeOK
    <3>2. \/ control[p] = "block" /\ control'[p] = "freeze"
          \/ control[p] = "freeze" /\ control'[p] = "find"
          \/ control[p] = "insert" /\ control'[p] = "failed"
          \/ control[p] = "thaw" /\ control'[p] = "idle"
          \/ control[p] = "detach" /\ control'[p] = "free"
      BY <2>1 DEF TypeOK
    <3>3. UNCHANGED <<tracker, trDisk, probe>>
      BY <1>1, <2>2
    <3>4. QED
      BY <3>1, <3>2, <3>3 DEF CountInv, PointersInv
  <2>4. control' \in [Parts -> {"idle", "probed", "new", "block", "freeze", "find",
                             "insert", "thaw", "failed", "drain", "put", "detach", "free"}]
    BY <2>1 DEF TypeOK
  <2>5. QED
    BY <1>1, <1>2, <2>2, <2>3, <2>4 DEF TypeOK, CountInv, diskVars, modeVars
<1>5. CASE RemoveFreeze(p)
  <2>1. \/ control[p] = "idle" /\ control' = [control EXCEPT ![p] = "drain"]
        \/ control[p] = "failed" /\ control' = [control EXCEPT ![p] = "drain"]
        \/ control[p] = "drain" /\ control' = [control EXCEPT ![p] = "put"]
    BY <1>5 DEF RemoveFreeze
  <2>2. /\ UNCHANGED <<tracker, holds>> /\ frozen' \subseteq Parts
        /\ must' \in [Users -> BOOLEAN]
    <3>1. must \in [Users -> BOOLEAN] /\ frozen \subseteq Parts
      BY DEF TypeOK
    <3>2. UNCHANGED <<tracker, holds>> /\ frozen' \subseteq Parts
      BY <1>5, <3>1 DEF RemoveFreeze
    <3>3. must' = must \/ must' = [u \in Users |-> must[u] /\ PartOf[u] # p]
      BY <1>5 DEF RemoveFreeze
    <3>4. QED
      BY <3>1, <3>2, <3>3
  <2>3. PointersInv'
    BY <1>1, <2>1, <2>2 DEF TypeOK, CountInv, PointersInv
  <2>4. control' \in [Parts -> {"idle", "probed", "new", "block", "freeze", "find",
                             "insert", "thaw", "failed", "drain", "put", "detach", "free"}]
    BY <2>1 DEF TypeOK
  <2>5. QED
    BY <1>1, <1>2, <2>2, <2>3, <2>4 DEF TypeOK, CountInv, diskVars, modeVars
<1>6. CASE RemoveFree(p)
  <2>1. /\ control[p] = "free" /\ control' = [control EXCEPT ![p] = "idle"]
        /\ tracker' = [tracker EXCEPT ![p] = "none"]
        /\ holds' \in [Users -> {"nothing", "tracker", "freed"}]
        /\ UNCHANGED <<frozen, must>>
    BY <1>6 DEF RemoveFree, TypeOK
  <2>2. PointersInv'
    BY <1>1, <2>1 DEF TypeOK, CountInv, PointersInv
  <2>3. QED
    BY <1>1, <1>2, <2>1, <2>2 DEF TypeOK, CountInv, diskVars, modeVars
<1>7. QED
  BY <1>3, <1>4, <1>5, <1>6

LEMMA BioKeepsCount ==
  ASSUME TypeOK, CountInv, NEW u \in Users, Bio(u)
  PROVE  TypeOK' /\ CountInv'
<1>1. UNCHANGED <<diskVars, trackerVars, modeVars>>
  BY DEF Bio, Enter, FindDisk, FindTracker, SubmitBio
<1>2. CountInv'
  BY <1>1, CountKept DEF CountInv, PointersInv, diskVars, trackerVars
<1> USE DEF TypeOK
<1>3. Find \in Disks \cup {NoDisk}
  BY FindIsLive
<1>4. /\ at' \in [Users -> {"idle", "entered", "found", "submit"}]
      /\ seen' \in [Users -> Disks \cup {NoDisk}]
      /\ holds' \in [Users -> {"nothing", "tracker", "freed"}]
  BY <1>3 DEF Bio, Enter, FindDisk, FindTracker, SubmitBio, Leave
<1>5. must' \in [Users -> BOOLEAN] /\ hurt' \in BOOLEAN
  BY DEF Bio, Enter, FindDisk, FindTracker, SubmitBio, Leave, Hurts, Tracked
<1>6. QED
  BY <1>1, <1>2, <1>4, <1>5 DEF diskVars, trackerVars, modeVars

LEMMA CountStep == TypeOK /\ CountInv /\ [Next]_vars => TypeOK' /\ CountInv'
<1> SUFFICES ASSUME TypeOK, CountInv, [Next]_vars
             PROVE  TypeOK' /\ CountInv'
  OBVIOUS
<1>1. CASE UNCHANGED vars
  <2>1. UNCHANGED <<diskVars, trackerVars, userVars>>
    BY <1>1 DEF vars
  <2>2. CountInv'
    BY <2>1, CountKept DEF CountInv, PointersInv, diskVars, trackerVars
  <2>3. QED
    BY <2>1, <2>2 DEF TypeOK, diskVars, trackerVars, userVars, modeVars
<1>2. QED
  BY <1>1, ProbeKeepsCount, ProbedKeepsCount, FindKeepsCount, InsertKeepsCount,
     RemovePutKeepsCount, OthersKeepCount, BioKeepsCount DEF Next, Control

(* Every variable keeps its type; a count of references never falls below  *)
(* zero.                                                                   *)
THEOREM TypeCorrect == Spec => []TypeOK
BY CountInit, CountStep, PTL DEF Spec

(* The count of a tracker_disk_t is the number of those who use it, and it *)
(* is on the list while that is not zero, whether or not the callers of    *)
(* tracking_add and tracking_remove take turns.                            *)
THEOREM RefsCounted == Spec => []RefsAreExact
<1>1. CountInv => RefsAreExact
  BY DEF CountInv
<1>2. QED
  BY <1>1, CountInit, CountStep, PTL DEF Spec

-----------------------------------------------------------------------------
(* When callers take turns, there is one hook, and it serves every request *)
(* of a tracked partition.                                                 *)
LEMMA SerialInit == Init => SerialInv
<1> SUFFICES ASSUME Init PROVE OneAtATime /\ HookInv /\ ServedInv /\ ~hurt
  BY DEF SerialInv
<1>1. OneAtATime /\ HookInv
  BY DEF Init, OneAtATime, HookInv, OneHook
<1>2. ServedInv /\ ~hurt
  BY DEF Init, ServedInv
<1>3. QED
  BY <1>1, <1>2

(* The tracker_disk_t of a tracked partition is the only one.              *)
LEMMA TrackedIsHooked ==
  ASSUME TypeOK, CountInv, OneHook, NEW p \in Parts, Tracked(p)
  PROVE  /\ trDisk[p] \in Disks
         /\ trDisk[p] # NoDisk
         /\ Live(trDisk[p])
         /\ Find = trDisk[p]
         /\ fops # Driver
<1>1. trDisk[p] \in Disks /\ trDisk[p] # NoDisk /\ Driver \notin Disks
  BY DEF TypeOK, CountInv, PointersInv, Tracked, Disks, Driver
<1>2. Live(trDisk[p])
  BY <1>1, PointedToIsLive
<1>3. container = <<fops>>
  <2>1. PICK i \in 1 .. Len(container) : container[i] = trDisk[p]
    BY <1>2 DEF Live, Contains
  <2>2. container # <<>>
    BY <2>1
  <2>3. QED
    BY <2>2 DEF OneHook
<1>4. fops = trDisk[p] /\ Head(container) = fops
  BY <1>2, <1>3 DEF Live, Contains
<1>5. QED
  BY <1>1, <1>2, <1>3, <1>4 DEF Find

(* A call begins when no other is under way.                               *)
LEMMA TurnsAreTaken ==
  ASSUME TypeOK, serial, OneAtATime, NEW p \in Parts, Control(p)
  PROVE  /\ \A q \in Parts \ {p} : control[q] = "idle" /\ control'[q] = "idle"
         /\ OneAtATime'
<1>1. /\ control[p] # "idle" \/ MayCall(p)
      /\ \E to : control' = [control EXCEPT ![p] = to]
  BY DEF Control, AddProbe, AddProbed, NewTracker, AddFreeze, DiskFind, DiskInsert,
         DiskInsertFails, AddThaw, RemoveFreeze, Removes, RemovePut, RemoveThaw, RemoveFree,
         Blocks, Freezes, Thaws, Goes
<1>2. \A q \in Parts \ {p} : control[q] = "idle"
  BY <1>1 DEF MayCall, OneAtATime
<1>3. \A q \in Parts \ {p} : control'[q] = "idle"
  BY <1>1, <1>2 DEF TypeOK
<1>4. QED
  BY <1>2, <1>3 DEF OneAtATime

(* The last reference to the only tracker_disk_t gives the disk its fops   *)
(* back.                                                                   *)
LEMMA PutKeepsHook ==
  ASSUME TypeOK, CountInv, OneHook, container # <<>> => original[fops] = Driver,
         NEW d \in Disks, refs[d] > 0, Put(d)
  PROVE  OneHook' /\ (container' # <<>> => original'[fops'] = Driver)
<1>1. Live(d) /\ container \in Seq(Disks) /\ allocated \in Int
  BY DEF CountInv, RefsAreExact, TypeOK
<1>2. container # <<>>
  BY <1>1 DEF Live, Contains
<1>3. container = <<fops>> /\ original[fops] = Driver /\ d = fops
  <2>1. container = <<fops>> /\ original[fops] = Driver
    BY <1>2 DEF OneHook
  <2>2. QED
    BY <1>1, <2>1 DEF Live, Contains
<1>4. CASE refs[d] = 1
  <2>1. container' = Unlinked(d) /\ fops' = original[d]
    BY <1>4 DEF Put
  <2>2. Unlinked(d) \in Seq(Disks) /\ Len(Unlinked(d)) = Len(container) - 1
    BY <1>1, UnlinkedList DEF CountInv
  <2>3. container' = <<>>
    BY <1>3, <2>1, <2>2, EmptySeq
  <2>4. QED
    BY <1>3, <2>1, <2>3 DEF OneHook
<1>5. CASE refs[d] # 1
  <2>1. UNCHANGED <<container, fops, original>>
    BY <1>5 DEF Put
  <2>2. QED
    BY <1>3, <2>1 DEF OneHook
<1>6. QED
  BY <1>4, <1>5

LEMMA ControlKeepsHook ==
  ASSUME TypeOK, CountInv, serial, OneAtATime, HookInv, NEW p \in Parts, Control(p)
  PROVE  HookInv'
<1>1. \A q \in Parts \ {p} : control'[q] # "insert"
  BY TurnsAreTaken
<1>2. SUFFICES /\ OneHook' /\ (container' # <<>> => original'[fops'] = Driver)
               /\ control'[p] = "insert" => container' = <<>>
  BY <1>1 DEF HookInv
<1>3. CASE UNCHANGED diskVars /\ control'[p] # "insert"
  BY <1>3 DEF HookInv, OneHook, diskVars
<1>4. CASE AddProbe(p)
  <2>1. UNCHANGED <<container, original, fops>> /\ control'[p] # "insert"
    BY <1>4 DEF AddProbe, Goes, Get, diskVars, TypeOK
  <2>2. QED
    BY <2>1 DEF HookInv, OneHook
<1>5. CASE AddProbed(p)
  <2>1. control'[p] # "insert" /\ probe[p] \in Disks \cup {NoDisk}
    BY <1>5 DEF AddProbed, Goes, TypeOK
  <2>2. CASE probe[p] = NoDisk
    BY <1>3, <1>5, <2>1, <2>2 DEF AddProbed
  <2>3. CASE probe[p] # NoDisk
    <3>1. probe[p] \in Disks /\ refs[probe[p]] > 0 /\ Put(probe[p])
      BY <1>5, <2>1, <2>3, PointedToIsLive DEF AddProbed
    <3>2. QED
      BY <2>1, <3>1, PutKeepsHook DEF HookInv
  <2>4. QED
    BY <2>2, <2>3
<1>6. CASE RemovePut(p)
  <2>1. control'[p] # "insert" /\ trDisk[p] \in Disks \cup {NoDisk}
    BY <1>6 DEF RemovePut, Goes, TypeOK
  <2>2. CASE trDisk[p] = NoDisk
    BY <1>3, <1>6, <2>1, <2>2 DEF RemovePut
  <2>3. CASE trDisk[p] # NoDisk
    <3>1. trDisk[p] \in Disks /\ refs[trDisk[p]] > 0 /\ Put(trDisk[p])
      BY <1>6, <2>1, <2>3, PointedToIsLive DEF RemovePut
    <3>2. QED
      BY <2>1, <3>1, PutKeepsHook DEF HookInv
  <2>4. QED
    BY <2>2, <2>3
<1>7. CASE DiskFind(p)
  <2>1. UNCHANGED <<container, original, fops>> /\ (control'[p] = "insert" => Find = NoDisk)
    BY <1>7 DEF DiskFind, Goes, Get, diskVars, TypeOK
  <2>2. QED
    BY <2>1, FindIsLive DEF HookInv, OneHook
<1>8. CASE DiskInsert(p)
  <2> DEFINE d == allocated + 1
  <2>1. /\ control[p] = "insert" /\ control'[p] = "thaw" /\ allocated < MaxDisks
        /\ container' = Append(container, d) /\ fops' = d
        /\ original' = [original EXCEPT ![d] = fops]
    BY <1>8 DEF DiskInsert, Goes, TypeOK
  <2>2. container = <<>> /\ fops = Driver
    BY <2>1 DEF HookInv, OneHook
  <2>3. d \in Disks
    BY <2>1, DiskAssumption DEF TypeOK, Disks
  <2>4. container' = <<d>> /\ original'[d] = Driver
    BY <2>1, <2>2, <2>3 DEF TypeOK
  <2> HIDE DEF d
  <2>5. container' = <<fops'>> /\ container' # <<>> /\ original'[fops'] = Driver
    BY <2>1, <2>4
  <2>6. QED
    BY <2>1, <2>5 DEF OneHook
<1>9. CASE \/ NewTracker(p) \/ AddFreeze(p) \/ DiskInsertFails(p) \/ AddThaw(p)
           \/ RemoveFreeze(p) \/ RemoveThaw(p) \/ RemoveFree(p)
  <2>1. UNCHANGED diskVars /\ control'[p] # "insert"
    BY <1>9 DEF NewTracker, AddFreeze, DiskInsertFails, AddThaw, RemoveFreeze, RemoveThaw,
               RemoveFree, Blocks, Freezes, Thaws, Goes, TypeOK
  <2>2. QED
    BY <1>3, <2>1
<1>10. QED
  BY <1>4, <1>5, <1>6, <1>7, <1>8, <1>9 DEF Control

(* What must be served stays so while its partition is tracked.            *)
LEMMA ControlKeepsServed ==
  ASSUME TypeOK, CountInv, serial, OneAtATime, HookInv, ServedInv, ~hurt,
         NEW p \in Parts, Control(p)
  PROVE  ServedInv' /\ ~hurt'
<1>1. \A q \in Parts \ {p} : control'[q] = control[q]
  BY TurnsAreTaken
<1>2. /\ UNCHANGED <<at, seen, hurt>>
      /\ \A u \in Users : \/ holds'[u] = holds[u]
                          \/ RemoveFree(p) /\ PartOf[u] = p /\ holds[u] = "tracker"
      /\ \A u \in Users : must'[u] => must[u]
  BY DEF Control, AddProbe, AddProbed, NewTracker, AddFreeze, DiskFind, DiskInsert,
         DiskInsertFails, AddThaw, RemoveFreeze, RemovePut, RemoveThaw, RemoveFree,
         Blocks, Freezes, Thaws, userVars
<1>3. \A q \in Parts \ {p} : tracker'[q] = tracker[q] /\ trDisk'[q] = trDisk[q]
  BY DEF Control, AddProbe, AddProbed, NewTracker, AddFreeze, DiskFind, DiskInsert,
         DiskInsertFails, AddThaw, RemoveFreeze, RemovePut, RemoveThaw, RemoveFree,
         Blocks, Freezes, Thaws, Attach, TypeOK
<1>4. ASSUME NEW u \in Users, must'[u], PartOf[u] = p
      PROVE  /\ Tracked(p)' /\ trDisk'[p] = trDisk[p] /\ ~RemoveFree(p)
  <2>1. Tracked(p)
    BY <1>2, <1>4 DEF ServedInv
  <2>2. control[p] \in {"idle", "thaw"} /\ tracker[p] = "ready"
    BY <2>1 DEF Tracked, CountInv, PointersInv
  <2>3. ~RemoveFreeze(p)
    <3>1. RemoveFreeze(p) => ~must'[u]
      BY <1>4, <2>2 DEF RemoveFreeze, Freezes, Goes
    <3>2. QED
      BY <1>4, <3>1
  <2>4. AddThaw(p)
    BY <2>2, <2>3 DEF Control, AddProbe, AddProbed, NewTracker, AddFreeze, DiskFind, DiskInsert,
         DiskInsertFails, AddThaw, RemovePut, RemoveThaw, RemoveFree, Blocks, Freezes, Thaws, Goes
  <2>5. QED
    BY <2>2, <2>4 DEF AddThaw, Thaws, Goes, RemoveFree, Tracked, TypeOK
<1>5. ASSUME NEW u \in Users
      PROVE  /\ at'[u] # "submit" => holds'[u] = "nothing"
             /\ must'[u] => /\ at'[u] # "idle"
                            /\ Tracked(PartOf[u])'
                            /\ at'[u] \in {"found", "submit"} => seen'[u] = trDisk'[PartOf[u]]
                            /\ holds'[u] # "freed"
  <2>1. at'[u] # "submit" => holds'[u] = "nothing"
    BY <1>2 DEF ServedInv
  <2>2. ASSUME must'[u]
        PROVE  /\ Tracked(PartOf[u])' /\ trDisk'[PartOf[u]] = trDisk[PartOf[u]]
               /\ holds'[u] = holds[u]
    <3>1. PartOf[u] \in Parts /\ Tracked(PartOf[u])
      BY <1>2, <2>2, DiskAssumption DEF ServedInv
    <3>2. CASE PartOf[u] = p
      BY <1>2, <1>4, <2>2, <3>2
    <3>3. CASE PartOf[u] # p
      BY <1>1, <1>2, <1>3, <3>1, <3>3 DEF Tracked
    <3>4. QED
      BY <3>2, <3>3
  <2>3. QED
    BY <1>2, <2>1, <2>2 DEF ServedInv
<1>6. QED
  BY <1>2, <1>5 DEF ServedInv

LEMMA BioKeepsServed ==
  ASSUME TypeOK, CountInv, HookInv, ServedInv, ~hurt, NEW u \in Users, Bio(u)
  PROVE  ServedInv' /\ ~hurt'
<1>1. UNCHANGED <<tracker, control, trDisk>> /\ PartOf[u] \in Parts
  BY DiskAssumption DEF Bio, Enter, FindDisk, FindTracker, SubmitBio, trackerVars
<1>2. /\ \A v \in Users \ {u} : /\ at'[v] = at[v] /\ seen'[v] = seen[v]
                                /\ holds'[v] = holds[v] /\ must'[v] = must[v]
  BY DEF Bio, Enter, FindDisk, FindTracker, SubmitBio, Leave, TypeOK
<1>3. \A p \in Parts : Tracked(p)' = Tracked(p)
  BY <1>1 DEF Tracked
<1>4. OneHook
  BY DEF HookInv
<1>5. must[u] => /\ at[u] # "idle" /\ Tracked(PartOf[u]) /\ holds[u] # "freed"
                 /\ at[u] \in {"found", "submit"} => seen[u] = trDisk[PartOf[u]]
  BY DEF ServedInv
<1>6. at[u] # "submit" => holds[u] = "nothing"
  BY DEF ServedInv
<1>7. SUFFICES /\ ~hurt'
               /\ at'[u] # "submit" => holds'[u] = "nothing"
               /\ must'[u] => /\ at'[u] # "idle" /\ Tracked(PartOf[u])' /\ holds'[u] # "freed"
                              /\ at'[u] \in {"found", "submit"} => seen'[u] = trDisk'[PartOf[u]]
  <2>1. ASSUME NEW v \in Users \ {u}
        PROVE  /\ at'[v] # "submit" => holds'[v] = "nothing"
               /\ must'[v] => /\ at'[v] # "idle" /\ Tracked(PartOf[v])' /\ holds'[v] # "freed"
                              /\ at'[v] \in {"found", "submit"} => seen'[v] = trDisk'[PartOf[v]]
    <3>1. PartOf[v] \in Parts
      BY DiskAssumption
    <3>2. QED
      BY <1>1, <1>2, <1>3, <3>1 DEF ServedInv
  <2>2. QED
    BY <1>7, <2>1 DEF ServedInv
<1>8. CASE Enter(u)
  <2>1. CASE fops = Driver
    <3>1. ~Tracked(PartOf[u])
      BY <1>1, <1>4, <2>1, TrackedIsHooked
    <3>2. ~hurt' /\ UNCHANGED <<at, must, seen, holds>>
      BY <1>8, <2>1, <3>1 DEF Enter
    <3>3. QED
      BY <1>1, <1>3, <1>5, <1>6, <3>2
  <2>2. CASE fops # Driver
    <3>1. /\ at[u] = "idle" /\ at'[u] = "entered" /\ must'[u] = Tracked(PartOf[u])
          /\ UNCHANGED <<hurt, seen, holds>>
      BY <1>8, <2>2 DEF Enter, TypeOK
    <3>2. QED
      BY <1>1, <1>3, <1>6, <3>1
  <2>3. QED
    BY <2>1, <2>2
<1>9. CASE FindDisk(u)
  <2>1. at[u] = "entered" /\ holds[u] = "nothing"
    BY <1>6, <1>9 DEF FindDisk
  <2>2. CASE Find = NoDisk
    <3>1. ~must[u]
      BY <1>1, <1>4, <1>5, <2>2, TrackedIsHooked
    <3>2. ~hurt' /\ at'[u] = "idle" /\ holds'[u] = "nothing" /\ must'[u] = FALSE
      BY <1>9, <2>2, <3>1 DEF FindDisk, Leave, Hurts, TypeOK
    <3>3. QED
      BY <3>2
  <2>3. CASE Find # NoDisk
    <3>1. /\ at'[u] = "found" /\ seen'[u] = Find
          /\ UNCHANGED <<holds, must, hurt>>
      BY <1>9, <2>3 DEF FindDisk, TypeOK
    <3>2. must[u] => Find = trDisk[PartOf[u]]
      BY <1>1, <1>4, <1>5, TrackedIsHooked
    <3>3. QED
      BY <1>1, <1>3, <1>5, <2>1, <3>1, <3>2
  <2>4. QED
    BY <2>2, <2>3
<1>10. CASE FindTracker(u)
  <2>1. must[u] => Matches(u)
    BY <1>5, <1>10 DEF FindTracker, Matches, Tracked
  <2>2. ~hurt' /\ at'[u] = "submit" /\ holds'[u] # "freed" /\ UNCHANGED <<seen, must>>
    BY <1>10, <2>1 DEF FindTracker, Hurts, TypeOK
  <2>3. QED
    BY <1>1, <1>3, <1>5, <1>10, <2>2 DEF FindTracker
<1>11. CASE SubmitBio(u)
  <2>1. must[u] => Live(seen[u]) /\ holds[u] # "freed"
    BY <1>1, <1>4, <1>5, <1>11, TrackedIsHooked DEF SubmitBio
  <2>2. ~hurt' /\ at'[u] = "idle" /\ holds'[u] = "nothing" /\ must'[u] = FALSE
    BY <1>11, <2>1 DEF SubmitBio, Leave, Hurts, TypeOK
  <2>3. QED
    BY <2>2
<1>12. QED
  BY <1>8, <1>9, <1>10, <1>11 DEF Bio

LEMMA SerialStep == TypeOK /\ CountInv /\ SerialInv /\ [Next]_vars => SerialInv'
<1> SUFFICES ASSUME TypeOK, CountInv, SerialInv, [Next]_vars, serial'
             PROVE  OneAtATime' /\ HookInv' /\ ServedInv' /\ ~hurt'
  BY DEF SerialInv
<1>1. serial
  BY DEF Next, Control, AddProbe, AddProbed, NewTracker, AddFreeze, DiskFind, DiskInsert,
         DiskInsertFails, AddThaw, RemoveFreeze, RemovePut, RemoveThaw, RemoveFree,
         Blocks, Freezes, Thaws, Bio, Enter, FindDisk, FindTracker, SubmitBio, vars, userVars,
         modeVars
<1>2. OneAtATime /\ HookInv /\ ServedInv /\ ~hurt
  BY <1>1 DEF SerialInv
<1>3. ASSUME NEW p \in Parts, Control(p)
      PROVE  OneAtATime' /\ HookInv' /\ ServedInv' /\ ~hurt'
  BY <1>1, <1>2, <1>3, TurnsAreTaken, ControlKeepsHook, ControlKeepsServed
<1>4. ASSUME UNCHANGED <<diskVars, control>>
      PROVE  OneAtATime' /\ HookInv'
  BY <1>2, <1>4 DEF OneAtATime, HookInv, OneHook, diskVars
<1>5. ASSUME NEW u \in Users, Bio(u)
      PROVE  OneAtATime' /\ HookInv' /\ ServedInv' /\ ~hurt'
  <2>1. UNCHANGED <<diskVars, control>>
    BY <1>5 DEF Bio, Enter, FindDisk, FindTracker, SubmitBio, trackerVars
  <2>2. QED
    BY <1>2, <1>4, <1>5, <2>1, BioKeepsServed
<1>6. CASE UNCHANGED vars
  <2>1. UNCHANGED <<diskVars, trackerVars, at, seen, holds, must, hurt>>
    BY <1>6 DEF vars, userVars
  <2>2. ServedInv' /\ ~hurt'
    BY <1>2, <2>1 DEF ServedInv, Tracked, trackerVars
  <2>3. QED
    BY <1>4, <2>1, <2>2 DEF trackerVars
<1>7. QED
  BY <1>3, <1>5, <1>6 DEF Next

(* When the callers of tracking_add and tracking_remove take turns, a disk *)
(* has one tracker_disk_t at most, and its fops while it has one.          *)
THEOREM SerialCallersKeepOneHook == Spec => []SerialOneHook
<1>1. SerialInv => SerialOneHook
  BY DEF SerialInv, HookInv, SerialOneHook
<1>2. QED
  BY <1>1, CountInit, CountStep, SerialInit, SerialStep, PTL DEF Spec

(* No request of a tracked partition fails, gets past its tracker or runs  *)
(* into what was freed, whatever is added and removed on the same disk.    *)
THEOREM RequestsServed == Spec => []TrackedRequestsAreServed
<1>1. SerialInv => TrackedRequestsAreServed
  BY DEF SerialInv, TrackedRequestsAreServed
<1>2. QED
  BY <1>1, CountInit, CountStep, SerialInit, SerialStep, PTL DEF Spec

=============================================================================
