------------------------- MODULE PersistentCbtProofs -------------------------
(***************************************************************************)
(* Theorems about PersistentCbt, for every set of devices, every largest   *)
(* snapshot number, and any number of maps and mounts; and about the file  *)
(* below it, CbtStorage.  The two have no variable in common.              *)
(*                                                                         *)
(* The invariant is stated of registers regs, trackers trk, maps all and n *)
(* draws, for a load builds new ones step by step.                         *)
(***************************************************************************)
EXTENDS PersistentCbt, CbtStorage, FiniteSetTheorems, SequenceTheorems, WellFoundedInduction, TLAPS

RegisterSet == [dev : Devices, crc : Crc \cup {NoCrc}, map : 1 .. MaxDraws]

EntrySet ==
  [dev : Devices, crc : Crc, write : Numbers, genActive : Generations, numActive : 1 .. MaxNumber,
   again : BOOLEAN]

(* Each register has a map of its own; a tracker may have one that is in   *)
(* no register, but none of another device.                                *)
Holders(regs, trk, all, n) ==
  /\ regs \in Seq(RegisterSet)
  /\ n \in Generations
  /\ DOMAIN all \subseteq 1 .. n
  /\ \A id \in DOMAIN all : all[id] \in Map
  /\ \A i \in DOMAIN regs : regs[i].map \in DOMAIN all
  /\ trk \in [Devices -> DOMAIN all \cup {None}]
  /\ \A i, j \in DOMAIN regs : regs[i].map = regs[j].map => i = j
  /\ \A i \in DOMAIN regs : \A d \in Devices : trk[d] = regs[i].map => regs[i].dev = d
  /\ \A d, e \in Devices : trk[d] = trk[e] /\ trk[d] # None => d = e

(* The file system of a register or an entry that has its checksum has not *)
(* been mounted since the register was stored.                             *)
Untouched(crc, d) == crc = superblock[d]

Sealed(crc, d) == crc <= superblock[d] /\ (Untouched(crc, d) => d \notin mounted)

Checksums(regs, entries) ==
  /\ \A i \in DOMAIN regs : Sealed(regs[i].crc, regs[i].dev)
  /\ \A i \in DOMAIN entries : entries[i] # Error => Sealed(entries[i].crc, entries[i].dev)

(* Nothing is claimed of what was loaded again, and of the last backup if  *)
(* it was made of a map that was.                                          *)
Clean(map, d) == ~map.again /\ ~known[d].again

(* A generation belongs to one map, or to one entry in the storage.        *)
Gens(map) == {map.genActive, map.genPrevious}

Apart(all, entries, n) ==
  /\ \A id \in DOMAIN all : Gens(all[id]) \subseteq 1 .. n
  /\ \A id, other \in DOMAIN all :
       ~all[id].again /\ ~all[other].again /\ Gens(all[id]) \cap Gens(all[other]) # {} => id = other
  /\ \A i \in DOMAIN entries : entries[i] # Error => entries[i].genActive \in 1 .. n
  /\ \A i \in DOMAIN entries : entries[i] # Error /\ ~entries[i].again =>
       /\ \A id \in DOMAIN all : ~all[id].again => entries[i].genActive \notin Gens(all[id])
       /\ \A j \in DOMAIN entries :
            entries[j] # Error /\ ~entries[j].again /\ entries[j].genActive = entries[i].genActive => i = j
  /\ \A d \in Devices : known[d].gen \in 0 .. n

(* The generation that the next snapshot will report.                      *)
NextGen(map) == IF map.numActive = 1 THEN map.genActive ELSE map.genPrevious

(* A generation whose first snapshot is to come has not been backed up,    *)
(* and a backup of a generation that goes on is older than its number.     *)
Older(map, d) ==
  Clean(map, d) =>
    /\ map.numActive = 1 => map.genActive # known[d].gen
    /\ NextGen(map) = known[d].gen => known[d].number < map.numActive

InOrder(all, entries) ==
  /\ \A id \in DOMAIN all : \A d \in Devices : Older(all[id], d)
  /\ \A id \in DOMAIN all : all[id].numActive # 1 => all[id].numPrevious < all[id].numActive
  /\ \A i \in DOMAIN entries : \A d \in Devices :
       entries[i] # Error /\ Clean(entries[i], d) /\ entries[i].numActive = 1 =>
         entries[i].genActive # known[d].gen

(* What is not in the last backup is marked with a later number, in a map  *)
(* that goes on with the generation of the backup: in the map of the       *)
(* tracker, and in the map of a register that can give a tracker its map.  *)
Reports(map, d) ==
  Clean(map, d) /\ map.active /\ NextGen(map) = known[d].gen => map.write > known[d].number

Reporting(regs, trk, all) ==
  /\ \A d \in Devices : trk[d] # None /\ d \in changed => Reports(all[trk[d]], d)
  /\ \A i \in DOMAIN regs : LET d == regs[i].dev IN
       Untouched(regs[i].crc, d) /\ trk[d] # regs[i].map /\ (d \in changed \/ image[d] = "changed") =>
         Reports(all[regs[i].map], d)

(* The map of an image, which was switched when the image was made.        *)
ImageReports(map, d) ==
  /\ map.numActive = 1 => map.genPrevious # map.genActive
  /\ map.numActive # 1 => map.read <= map.write
  /\ d \in changed /\ map.active /\ NextGen(map) = map.genPrevious => map.write > map.numPrevious
  /\ image[d] = "changed" /\ Clean(map, d) /\ map.genPrevious = known[d].gen =>
       map.read > known[d].number

Images(trk, all) ==
  \A d \in Devices : image[d] # "none" => trk[d] # None /\ ImageReports(all[trk[d]], d)

Good(regs, trk, all, entries, n) ==
  /\ Holders(regs, trk, all, n)
  /\ entries \in Seq(EntrySet \cup {Error})
  /\ Checksums(regs, entries)
  /\ Apart(all, entries, n)
  /\ InOrder(all, entries)
  /\ Reporting(regs, trk, all)
  /\ Images(trk, all)

Sessions ==
  ~inKernel => registers = <<>> /\ tracker = Untracked /\ \A d \in Devices : image[d] = "none"

IInv == Good(registers, tracker, maps, storage.entries, draws) /\ Sessions

-----------------------------------------------------------------------------
(* Helpers of the model.                                                   *)

LEMMA FirstIn ==
  ASSUME NEW n \in Nat, NEW I \in SUBSET (1 .. n), I # {}
  PROVE  Min(I) \in I /\ Min(I) \in 1 .. n /\ Min(I) # 0 /\ \A i \in I : Min(I) <= i
<1> DEFINE R == {pair \in Nat \X Nat : pair[1] < pair[2]}
<1>1. IsWellFoundedOn(R, Nat)
  BY NatLessThanWellFounded DEF OpToRel
<1>2. \E i \in I : \A j \in I : i <= j
  <2>1. I \subseteq Nat
    OBVIOUS
  <2> HIDE DEF R
  <2>2. PICK i \in I : \A j \in I : ~(<<j, i>> \in R)
    BY <1>1, <2>1, WFMin
  <2>3. ASSUME NEW j \in I PROVE i <= j
    <3>1. i \in Nat /\ j \in Nat
      BY <2>1
    <3>2. j < i => <<j, i>> \in R
      BY <3>1 DEF R
    <3>3. QED
      BY <2>2, <3>1, <3>2
  <2>4. QED
    BY <2>3
<1>3. Min(I) \in I /\ \A i \in I : Min(I) <= i
  BY <1>2 DEF Min
<1>4. Min(I) \in 1 .. n
  BY <1>3
<1>5. QED
  BY <1>3, <1>4

LEMMA RegisterTypes ==
  ASSUME NEW regs \in Seq(RegisterSet), NEW i \in DOMAIN regs
  PROVE  /\ regs[i] \in RegisterSet /\ regs[i].dev \in Devices
         /\ regs[i].crc \in Crc \cup {NoCrc} /\ regs[i].map \in 1 .. MaxDraws
<1>1. regs[i] \in RegisterSet
  BY ElementOfSeq, LenProperties
<1>2. QED
  BY <1>1 DEF RegisterSet

(* A tracker that starts gets the map of a register of its device, one     *)
(* that passed the check if there is a check.                              *)
LEMMA StartedEffect ==
  ASSUME NEW regs \in Seq(RegisterSet), NEW devs, NEW checked, NEW d \in Devices
  PROVE  \/ Started(regs, devs, checked)[d] = tracker[d]
         \/ /\ tracker[d] = None
            /\ \E i \in DOMAIN regs : /\ regs[i].dev = d
                                      /\ checked => Permitted(regs[i])
                                      /\ Started(regs, devs, checked)[d] = regs[i].map
<1> DEFINE I == {i \in 1 .. Len(regs) : regs[i].dev = d /\ (checked => Permitted(regs[i]))}
           first == IF I # {} THEN Min(I) ELSE 0
<1>1. first = SelectInSeq(regs, LAMBDA reg : reg.dev = d /\ (checked => Permitted(reg)))
  BY DEF SelectInSeq
<1>2. Started(regs, devs, checked)[d] =
        IF d \notin devs \/ tracker[d] # None \/ first = 0 THEN tracker[d] ELSE regs[first].map
  BY <1>1 DEF Started
<1>3. CASE I = {}
  BY <1>2, <1>3
<1>4. CASE I # {}
  <2>1. first \in I
    BY <1>4, FirstIn, LenProperties
  <2>2. first \in DOMAIN regs
    BY <2>1, LenProperties
  <2>3. regs[first].dev = d /\ (checked => Permitted(regs[first]))
    BY <2>1
  <2> HIDE DEF first, I
  <2>4. QED
    BY <1>2, <2>2, <2>3
<1>5. QED
  BY <1>3, <1>4

(* A map that nobody holds is freed.                                       *)
Held(regs, trk) == (Range(trk) \ {None}) \cup {reg.map : reg \in Range(regs)}

LEMMA HeldKeepsGood ==
  ASSUME NEW regs, NEW trk, NEW all, NEW entries, NEW n, Good(regs, trk, all, entries, n)
  PROVE  Good(regs, trk, Restrict(all, Held(regs, trk)), entries, n)
<1> DEFINE some == Restrict(all, Held(regs, trk))
<1>1. /\ \A i \in DOMAIN regs : regs[i].map \in Held(regs, trk)
      /\ trk \in [Devices -> Held(regs, trk) \cup {None}]
      /\ Held(regs, trk) \subseteq DOMAIN all
  BY DEF Good, Holders, Held, Range
<1>2. DOMAIN some = Held(regs, trk) /\ \A id \in Held(regs, trk) : some[id] = all[id]
  BY DEF Restrict
<1> HIDE DEF some
<1>3. Holders(regs, trk, some, n)
  BY <1>1, <1>2 DEF Good, Holders
<1>4. Apart(some, entries, n)
  BY <1>1, <1>2 DEF Good, Apart
<1>5. InOrder(some, entries)
  BY <1>1, <1>2 DEF Good, InOrder
<1>6. Reporting(regs, trk, some)
  BY <1>1, <1>2 DEF Good, Reporting, Holders
<1>7. Images(trk, some)
  BY <1>1, <1>2 DEF Good, Images, Holders
<1>8. QED
  BY <1>3, <1>4, <1>5, <1>6, <1>7 DEF Good, some

(* Trackers start with the maps of registers: with a check of the file     *)
(* system, or with maps that have just been loaded, none of which goes on  *)
(* with the generation of a backup unless it was loaded again.             *)
LEMMA StartKeepsGood ==
  ASSUME NEW regs, NEW all, NEW entries, NEW n, NEW devs, NEW checked \in BOOLEAN,
         Good(regs, tracker, all, entries, n),
         checked \/ \A i \in DOMAIN regs : Reports(all[regs[i].map], regs[i].dev)
  PROVE  Good(regs, Started(regs, devs, checked), all, entries, n)
<1> DEFINE trk == Started(regs, devs, checked)
<1>1. regs \in Seq(RegisterSet) /\ Holders(regs, tracker, all, n)
  BY DEF Good, Holders
<1>2. \A d \in Devices :
        \/ trk[d] = tracker[d]
        \/ /\ tracker[d] = None
           /\ \E i \in DOMAIN regs : /\ regs[i].dev = d
                                     /\ checked => Permitted(regs[i])
                                     /\ trk[d] = regs[i].map
  BY <1>1, StartedEffect
<1>3. trk \in [Devices -> DOMAIN all \cup {None}]
  <2>1. DOMAIN trk = Devices /\ trk = [d \in Devices |-> trk[d]]
    BY DEF Started
  <2> HIDE DEF trk
  <2>2. \A d \in Devices : trk[d] \in DOMAIN all \cup {None}
    BY <1>1, <1>2 DEF Holders
  <2>3. QED
    BY <2>1, <2>2
<1> HIDE DEF trk
<1>4. Holders(regs, trk, all, n)
  <2>1. \A i \in DOMAIN regs : \A d \in Devices : trk[d] = regs[i].map => regs[i].dev = d
    BY <1>1, <1>2 DEF Holders
  <2>2. \A d, e \in Devices : trk[d] = trk[e] /\ trk[d] # None => d = e
    BY <1>1, <1>2, <2>1 DEF Holders
  <2>3. QED
    BY <1>1, <1>3, <2>1, <2>2 DEF Holders
<1>5. Reporting(regs, trk, all)
  <2>1. Reporting(regs, tracker, all)
    BY DEF Good
  <2>2. ASSUME NEW d \in Devices, trk[d] # None, d \in changed PROVE Reports(all[trk[d]], d)
    <3>1. CASE trk[d] = tracker[d]
      BY <2>1, <2>2, <3>1 DEF Reporting
    <3>2. CASE trk[d] # tracker[d]
      <4>1. PICK i \in DOMAIN regs : /\ regs[i].dev = d /\ tracker[d] = None
                                     /\ checked => Permitted(regs[i])
                                     /\ trk[d] = regs[i].map
        BY <1>2, <3>2
      <4>2. CASE checked
        <5>1. Untouched(regs[i].crc, d) /\ tracker[d] # regs[i].map
          BY <3>2, <4>1, <4>2 DEF Permitted, NoOfflineChanges, Checksum, Untouched
        <5>2. QED
          BY <2>1, <2>2, <4>1, <5>1 DEF Reporting
      <4>3. CASE ~checked
        BY <4>1, <4>3
      <4>4. QED
        BY <4>2, <4>3
    <3>3. QED
      BY <3>1, <3>2
  <2>3. ASSUME NEW i \in DOMAIN regs, Untouched(regs[i].crc, regs[i].dev), trk[regs[i].dev] # regs[i].map,
               regs[i].dev \in changed \/ image[regs[i].dev] = "changed"
        PROVE  Reports(all[regs[i].map], regs[i].dev)
    <3>1. regs[i].dev \in Devices
      BY <1>1, RegisterTypes
    <3>2. CASE tracker[regs[i].dev] # regs[i].map
      BY <2>1, <2>3, <3>2 DEF Reporting
    <3>3. CASE tracker[regs[i].dev] = regs[i].map
      <4>1. regs[i].map \in DOMAIN all /\ regs[i].map # None
        BY <1>1 DEF Holders, None
      <4>2. QED
        BY <1>2, <2>3, <3>1, <3>3, <4>1
    <3>4. QED
      BY <3>2, <3>3
  <2>4. QED
    BY <2>2, <2>3 DEF Reporting
<1>6. Images(trk, all)
  <2>1. \A d \in Devices : image[d] # "none" => trk[d] = tracker[d]
    BY <1>2 DEF Good, Images
  <2>2. QED
    BY <2>1 DEF Good, Images
<1>7. QED
  BY <1>4, <1>5, <1>6 DEF Good, trk

-----------------------------------------------------------------------------
(* Steps that leave the world and the service alone.                       *)

LEMMA GoodGoesOn ==
  ASSUME NEW regs, NEW trk, NEW all, NEW entries, NEW n, Good(regs, trk, all, entries, n),
         registers' = regs, tracker' = trk, maps' = all, storage'.entries = entries, draws' = n,
         UNCHANGED <<worldVars, serviceVars>>
  PROVE  Good(registers, tracker, maps, storage.entries, draws)'
<1>1. UNCHANGED <<mounted, superblock, changed, image, known>>
  BY DEF worldVars, serviceVars
<1>2. Holders(registers, tracker, maps, draws)'
  BY DEF Good, Holders
<1>3. Checksums(registers, storage.entries)'
  BY <1>1 DEF Good, Checksums, Sealed, Untouched
<1>4. Apart(maps, storage.entries, draws)'
  BY <1>1 DEF Good, Apart, Gens
<1>5. InOrder(maps, storage.entries)'
  BY <1>1 DEF Good, InOrder, Older, NextGen, Clean
<1>6. Reporting(registers, tracker, maps)'
  BY <1>1 DEF Good, Reporting, Reports, Untouched, NextGen, Clean
<1>7. Images(tracker, maps)'
  BY <1>1 DEF Good, Images, ImageReports, NextGen, Clean
<1>8. QED
  BY <1>2, <1>3, <1>4, <1>5, <1>6, <1>7 DEF Good

LEMMA HoldKeepsGood ==
  ASSUME NEW regs, NEW trk, NEW all, NEW entries, NEW n, Good(regs, trk, all, entries, n),
         Hold(regs, trk, all), storage'.entries = entries, draws' = n,
         UNCHANGED <<worldVars, serviceVars>>
  PROVE  Good(registers, tracker, maps, storage.entries, draws)'
<1>1. Good(regs, trk, Restrict(all, Held(regs, trk)), entries, n)
  BY HeldKeepsGood
<1>2. registers' = regs /\ tracker' = trk /\ maps' = Restrict(all, Held(regs, trk))
  BY DEF Hold, Held
<1>3. QED
  BY <1>1, <1>2, GoodGoesOn

(* The types follow.                                                       *)
LEMMA GoodTypes ==
  ASSUME NEW regs, NEW trk, NEW all, NEW n, Holders(regs, trk, all, n),
         NEW entries \in Seq(EntrySet \cup {Error})
  PROVE  /\ DOMAIN all \subseteq 1 .. MaxDraws
         /\ \A m \in DOMAIN all : all[m] \in Map
         /\ \A reg \in Range(regs) :
              reg.dev \in Devices /\ reg.crc \in Crc \cup {NoCrc} /\ reg.map \in DOMAIN all
         /\ trk \in [Devices -> DOMAIN all \cup {None}]
         /\ \A e \in Range(entries) :
              e # Error => /\ e.dev \in Devices /\ e.crc \in Crc /\ e.write \in Numbers
                           /\ e.genActive \in Generations /\ e.numActive \in 1 .. MaxNumber
                           /\ e.again \in BOOLEAN
         /\ n \in Generations
<1>1. regs \in Seq(RegisterSet)
  BY DEF Holders
<1>2. DOMAIN all \subseteq 1 .. MaxDraws
  BY PersistentAssumption DEF Holders, Generations
<1>3. ASSUME NEW reg \in Range(regs)
      PROVE  reg.dev \in Devices /\ reg.crc \in Crc \cup {NoCrc} /\ reg.map \in DOMAIN all
  <2>1. PICK i \in DOMAIN regs : reg = regs[i]
    BY DEF Range
  <2>2. QED
    BY <1>1, <2>1, RegisterTypes DEF Holders
<1>4. ASSUME NEW e \in Range(entries), e # Error
      PROVE  /\ e.dev \in Devices /\ e.crc \in Crc /\ e.write \in Numbers
             /\ e.genActive \in Generations /\ e.numActive \in 1 .. MaxNumber
                           /\ e.again \in BOOLEAN
  <2>1. PICK i \in DOMAIN entries : e = entries[i]
    BY DEF Range
  <2>2. e \in EntrySet
    BY <1>4, <2>1, ElementOfSeq, LenProperties
  <2>3. QED
    BY <2>2 DEF EntrySet
<1>5. QED
  BY <1>2, <1>3, <1>4 DEF Holders

(* The initial state.                                                      *)
LEMMA IInit == Init => TypeOK /\ IInv
<1> SUFFICES ASSUME Init PROVE TypeOK /\ IInv
  OBVIOUS
<1>1. /\ registers = <<>> /\ storage.entries = <<>> /\ DOMAIN registers = {} /\ DOMAIN storage.entries = {}
      /\ maps = <<>> /\ DOMAIN maps = {} /\ draws = 0 /\ tracker = [d \in Devices |-> None]
      /\ registers \in Seq(RegisterSet) /\ storage.entries \in Seq(EntrySet \cup {Error})
  BY DEF Init, EmptyStorage, Untracked
<1>2. 0 \in Generations /\ 0 \in Numbers /\ 0 \in Crc
  BY PersistentAssumption DEF Generations, Numbers, Crc
<1>3. Holders(registers, tracker, maps, draws)
  BY <1>1, <1>2 DEF Holders
<1>4. Checksums(registers, storage.entries) /\ Apart(maps, storage.entries, draws) /\ InOrder(maps, storage.entries)
  BY <1>1 DEF Checksums, Apart, InOrder, Init
<1>5. Reporting(registers, tracker, maps) /\ Images(tracker, maps)
  BY <1>1 DEF Reporting, Images, Init
<1>6. Good(registers, tracker, maps, storage.entries, draws)
  BY <1>1, <1>3, <1>4, <1>5 DEF Good
<1>7. TypeOK
  <2>1. /\ superblock \in [Devices -> Crc] /\ image \in [Devices -> {"none", "clean", "changed"}]
        /\ known \in [Devices -> [gen : Generations, number : Numbers, again : BOOLEAN]]
    BY <1>2 DEF Init
  <2>2. QED
    BY <1>1, <1>3, <2>1, GoodTypes DEF Init, EmptyStorage, TypeOK
<1>8. QED
  BY <1>6, <1>7 DEF IInv, Sessions, Init

(* Nothing changes that the invariant is about.                            *)
LEMMA QuietKeepsInv ==
  ASSUME TypeOK, IInv, UNCHANGED <<registerVars, storage, worldVars, serviceVars>>,
         inKernel' \in BOOLEAN, configured' \in BOOLEAN, isLoad' \in BOOLEAN, notified' \subseteq Devices,
         inKernel => inKernel'
  PROVE  TypeOK' /\ IInv'
<1>1. UNCHANGED <<registers, maps, tracker, draws, storage, mounted, superblock, changed, image, known>>
  BY DEF registerVars, worldVars, serviceVars
<1>2. Good(registers, tracker, maps, storage.entries, draws)'
  BY <1>1, GoodGoesOn DEF IInv, worldVars, serviceVars
<1>3. Sessions'
  BY <1>1 DEF IInv, Sessions, Untracked
<1>4. TypeOK'
  BY <1>1 DEF TypeOK
<1>5. QED
  BY <1>2, <1>3, <1>4 DEF IInv

(* What is held changes in a session.                                      *)
LEMMA HoldKeepsInv ==
  ASSUME TypeOK, IInv, NEW regs, NEW trk, NEW all, NEW n, Good(regs, trk, all, storage'.entries, n),
         Hold(regs, trk, all), draws' = n, UNCHANGED <<worldVars, serviceVars>>,
         inKernel' = TRUE, configured' \in BOOLEAN, isLoad' \in BOOLEAN, notified' \subseteq Devices,
         storage'.full \in BOOLEAN
  PROVE  TypeOK' /\ IInv'
<1>1. Good(registers, tracker, maps, storage.entries, draws)'
  BY HoldKeepsGood
<1>2. Sessions'
  BY DEF Sessions
<1>3. UNCHANGED <<mounted, superblock, changed, image, known>>
  BY DEF worldVars, serviceVars
<1>4. TypeOK'
  <2>1. /\ mounted' \subseteq Devices /\ superblock' \in [Devices -> Crc]
        /\ changed' \subseteq Devices /\ image' \in [Devices -> {"none", "clean", "changed"}]
        /\ known' \in [Devices -> [gen : Generations, number : Numbers, again : BOOLEAN]]
    BY <1>3 DEF TypeOK
  <2>2. QED
    <3>1. Holders(registers', tracker', maps', draws') /\ storage'.entries \in Seq(EntrySet \cup {Error})
      BY <1>1 DEF Good, Holders
    <3>2. QED
      BY <2>1, <3>1, GoodTypes DEF TypeOK
<1>5. QED
  BY <1>1, <1>2, <1>4 DEF IInv

-----------------------------------------------------------------------------
(* Loading the registers.                                                  *)

LEMMA LoadableEntries ==
  ASSUME storage.entries \in Seq(EntrySet \cup {Error})
  PROVE  /\ Len(Loadable) \in Nat /\ DOMAIN Loadable = 1 .. Len(Loadable)
         /\ \A i \in DOMAIN Loadable :
              /\ i \in DOMAIN storage.entries /\ Loadable[i] = storage.entries[i]
              /\ Loadable[i] # Error /\ Loadable[i] \in EntrySet
<1> DEFINE s == storage.entries
           I == {i \in 1 .. Len(s) : s[i] = Error}
           error == IF I # {} THEN Min(I) ELSE 0
<1>1. error = SelectInSeq(s, LAMBDA e : e = Error)
  BY DEF SelectInSeq
<1>2. Loadable = IF ~storage.full THEN <<>> ELSE IF error = 0 THEN s ELSE SubSeq(s, 1, error - 1)
  BY <1>1 DEF Loadable
<1>3. s \in Seq(EntrySet \cup {Error}) /\ Len(s) \in Nat /\ DOMAIN s = 1 .. Len(s)
  BY LenProperties
<1> HIDE DEF s
<1>4. \A i \in 1 .. Len(s) : s[i] # Error => s[i] \in EntrySet
  BY <1>3, ElementOfSeq
<1>a. CASE ~storage.full
  BY <1>2, <1>a
<1>5. CASE storage.full /\ I = {}
  <2>1. Loadable = s
    BY <1>2, <1>5
  <2>2. QED
    BY <1>3, <1>4, <1>5, <2>1 DEF s
<1>6. CASE storage.full /\ I # {}
  <2>1. Min(I) \in 1 .. Len(s) /\ Min(I) # 0 /\ \A i \in I : Min(I) <= i
    BY <1>3, <1>6, FirstIn
  <2>2. PICK k \in 1 .. Len(s) : k = Min(I)
    BY <2>1
  <2>3. Loadable = SubSeq(s, 1, k - 1) /\ \A i \in I : k <= i
    BY <1>2, <1>6, <2>1, <2>2
  <2>4. 1 \in 1 .. Len(s) + 1 /\ k - 1 \in 1 - 1 .. Len(s) /\ (k - 1) - 1 + 1 = k - 1 /\ k - 1 \in Nat
    BY <1>3
  <2>5. Len(Loadable) = k - 1 /\ \A i \in 1 .. k - 1 : Loadable[i] = s[i] /\ Loadable \in Seq(EntrySet \cup {Error})
    <3>1. /\ Len(SubSeq(s, 1, k - 1)) = (k - 1) - 1 + 1
          /\ \A i \in 1 .. (k - 1) - 1 + 1 : SubSeq(s, 1, k - 1)[i] = s[1 + i - 1]
          /\ SubSeq(s, 1, k - 1) \in Seq(EntrySet \cup {Error})
      BY <1>3, <2>4, SubSeqProperties
    <3>2. QED
      BY <2>3, <2>4, <3>1
  <2>6. \A i \in 1 .. k - 1 : i \in 1 .. Len(s) /\ s[i] # Error
    BY <2>3
  <2>7. DOMAIN Loadable = 1 .. k - 1
    <3>1. Loadable \in Seq(EntrySet \cup {Error})
      BY <1>3, <2>3, <2>4, SubSeqProperties
    <3>2. QED
      BY <2>5, <3>1, LenProperties
  <2>8. QED
    BY <1>3, <1>4, <2>4, <2>5, <2>6, <2>7 DEF s
<1>7. QED
  BY <1>a, <1>5, <1>6

(* The registers stay in the storage, those that were loaded marked so.    *)
LEMMA EmptiedEntries ==
  ASSUME storage.entries \in Seq(EntrySet \cup {Error})
  PROVE  /\ Emptied.full = FALSE
         /\ Emptied.entries \in Seq(EntrySet \cup {Error})
         /\ DOMAIN Emptied.entries = DOMAIN storage.entries
         /\ \A i \in DOMAIN Emptied.entries :
              IF i \in DOMAIN Loadable
              THEN /\ Emptied.entries[i].dev = storage.entries[i].dev
                   /\ Emptied.entries[i].crc = storage.entries[i].crc
                   /\ Emptied.entries[i].genActive = storage.entries[i].genActive
                   /\ Emptied.entries[i].again
              ELSE Emptied.entries[i] = storage.entries[i]
<1> DEFINE s == storage.entries
           left(i) == IF i \in DOMAIN Loadable THEN [s[i] EXCEPT !.again = TRUE] ELSE s[i]
<1>1. s \in Seq(EntrySet \cup {Error}) /\ Len(s) \in Nat /\ DOMAIN s = 1 .. Len(s)
  BY LenProperties
<1>2. Emptied.full = FALSE /\ Emptied.entries = [i \in DOMAIN s |-> left(i)]
  BY DEF Emptied
<1>3. \A i \in DOMAIN Loadable : s[i] \in EntrySet
  BY LoadableEntries
<1>4. \A i \in 1 .. Len(s) : s[i] \in EntrySet \cup {Error}
  BY <1>1, ElementOfSeq
<1> HIDE DEF s
<1>5. \A i \in 1 .. Len(s) : left(i) \in EntrySet \cup {Error}
  <2>1. \A i \in DOMAIN Loadable : [s[i] EXCEPT !.again = TRUE] \in EntrySet
    BY <1>3 DEF EntrySet
  <2>2. QED
    BY <1>4, <2>1
<1>6. \A i \in DOMAIN Loadable :
        /\ left(i).dev = s[i].dev /\ left(i).crc = s[i].crc
        /\ left(i).genActive = s[i].genActive /\ left(i).again
  BY <1>3 DEF EntrySet
<1>7. \A i \in DOMAIN s : i \notin DOMAIN Loadable => left(i) = s[i]
  OBVIOUS
<1> HIDE DEF left
<1>8. Emptied.entries \in Seq(EntrySet \cup {Error})
  <2>1. [i \in 1 .. Len(s) |-> left(i)] \in [1 .. Len(s) -> EntrySet \cup {Error}]
    BY <1>5
  <2>2. QED
    BY <1>1, <1>2, <2>1
<1>9. QED
  BY <1>2, <1>6, <1>7, <1>8 DEF s

LEMMA LoadedRegs ==
  ASSUME storage.entries \in Seq(EntrySet \cup {Error}), registers \in Seq(RegisterSet),
         draws \in Nat, MaxDraws \in Nat, draws + Len(Loadable) <= MaxDraws
  PROVE  /\ LoadedRegisters \in Seq(RegisterSet)
         /\ DOMAIN LoadedRegisters = 1 .. Len(Loadable) + Len(registers)
         /\ \A i \in 1 .. Len(Loadable) :
              /\ Len(Loadable) - i + 1 \in DOMAIN Loadable
              /\ LoadedRegisters[i].dev = Loadable[Len(Loadable) - i + 1].dev
              /\ LoadedRegisters[i].crc = Loadable[Len(Loadable) - i + 1].crc
              /\ LoadedRegisters[i].map = draws + (Len(Loadable) - i + 1)
         /\ \A i \in 1 .. Len(Loadable) + Len(registers) : i \notin 1 .. Len(Loadable) =>
              i - Len(Loadable) \in DOMAIN registers /\ LoadedRegisters[i] = registers[i - Len(Loadable)]
<1> DEFINE n == Len(Loadable)
           new == [i \in DOMAIN Loadable |->
                     [dev |-> Loadable[i].dev, crc |-> Loadable[i].crc, map |-> draws + i]]
           back == [i \in 1 .. n |-> new[(n - i) + 1]]
<1>1. /\ n \in Nat /\ DOMAIN Loadable = 1 .. n
      /\ \A i \in 1 .. n : Loadable[i] \in EntrySet
  BY LoadableEntries
<1>2. \A i \in 1 .. n : new[i] \in RegisterSet
  <2>1. \A i \in 1 .. n : Loadable[i].dev \in Devices /\ Loadable[i].crc \in Crc /\ draws + i \in 1 .. MaxDraws
    BY <1>1 DEF EntrySet
  <2>2. QED
    BY <1>1, <2>1 DEF RegisterSet
<1>3. new \in Seq(RegisterSet) /\ Len(new) = n
  <2>1. new \in [1 .. n -> RegisterSet]
    BY <1>1, <1>2
  <2> HIDE DEF n, new
  <2>2. QED
    BY <1>1, <2>1
<1>4. back = Reverse(new)
  <2> HIDE DEF n, new
  <2>1. QED
    BY <1>3 DEF Reverse
<1>5. \A i \in 1 .. n : (n - i) + 1 \in 1 .. n
  BY <1>1
<1>6. back \in Seq(RegisterSet) /\ Len(back) = n
  <2>1. back \in [1 .. n -> RegisterSet]
    BY <1>2, <1>5
  <2> HIDE DEF n, back
  <2>2. QED
    BY <1>1, <2>1
<1>7. LoadedRegisters = back \o registers
  BY <1>4 DEF LoadedRegisters
<1>8. \A i \in 1 .. n : back[i] = [dev |-> Loadable[(n - i) + 1].dev, crc |-> Loadable[(n - i) + 1].crc,
                                    map |-> draws + ((n - i) + 1)]
  BY <1>1, <1>5
<1> HIDE DEF n, back, new
<1>9. /\ LoadedRegisters \in Seq(RegisterSet) /\ Len(LoadedRegisters) = n + Len(registers)
      /\ Len(registers) \in Nat /\ DOMAIN registers = 1 .. Len(registers)
      /\ \A i \in 1 .. n + Len(registers) : LoadedRegisters[i] = IF i <= n THEN back[i] ELSE registers[i - n]
  BY <1>6, <1>7, ConcatProperties, LenProperties
<1>10. DOMAIN LoadedRegisters = 1 .. n + Len(registers)
  BY <1>9, LenProperties
<1>11. \A i \in 1 .. n : LoadedRegisters[i] = back[i]
  BY <1>1, <1>9
<1>12. \A i \in 1 .. n + Len(registers) : i \notin 1 .. n =>
         i - n \in DOMAIN registers /\ LoadedRegisters[i] = registers[i - n]
  BY <1>1, <1>9
<1>13. \A i \in 1 .. n : /\ LoadedRegisters[i].dev = Loadable[(n - i) + 1].dev
                         /\ LoadedRegisters[i].crc = Loadable[(n - i) + 1].crc
                         /\ LoadedRegisters[i].map = draws + ((n - i) + 1)
  <2> SUFFICES ASSUME NEW i \in 1 .. n
               PROVE  /\ LoadedRegisters[i].dev = Loadable[(n - i) + 1].dev
                      /\ LoadedRegisters[i].crc = Loadable[(n - i) + 1].crc
                      /\ LoadedRegisters[i].map = draws + ((n - i) + 1)
    OBVIOUS
  <2>1. LoadedRegisters[i] = back[i]
    BY <1>11
  <2>2. back[i] = [dev |-> Loadable[(n - i) + 1].dev, crc |-> Loadable[(n - i) + 1].crc,
                   map |-> draws + ((n - i) + 1)]
    BY <1>8
  <2>3. back[i].dev = Loadable[(n - i) + 1].dev /\ back[i].crc = Loadable[(n - i) + 1].crc
        /\ back[i].map = draws + ((n - i) + 1)
    BY <2>2
  <2>4. QED
    BY <2>1, <2>3
<1>14. QED
  BY <1>1, <1>5, <1>9, <1>10, <1>12, <1>13 DEF n

(* What is loaded gets new maps: they report a generation of their own, or *)
(* one whose first snapshot is to come, and hence none that has been       *)
(* backed up, unless it is loaded again.                                   *)
LEMMA LoadKeepsGood ==
  ASSUME Good(registers, tracker, maps, storage.entries, draws), draws + Len(Loadable) <= MaxDraws
  PROVE  /\ Good(LoadedRegisters, tracker, LoadedMaps, Emptied.entries, draws + Len(Loadable))
         /\ \A i \in DOMAIN LoadedRegisters : i \in 1 .. Len(Loadable) =>
              Reports(LoadedMaps[LoadedRegisters[i].map], LoadedRegisters[i].dev)
<1> DEFINE n == Len(Loadable)
           entries == storage.entries
           regs == LoadedRegisters
           all == LoadedMaps
           new == {draws + i : i \in 1 .. n}
           left == Emptied.entries
<1>1. /\ Holders(registers, tracker, maps, draws) /\ entries \in Seq(EntrySet \cup {Error})
      /\ Checksums(registers, entries) /\ Apart(maps, entries, draws) /\ InOrder(maps, entries)
      /\ Reporting(registers, tracker, maps) /\ Images(tracker, maps)
      /\ draws \in Nat /\ MaxDraws \in Nat /\ draws \in 0 .. MaxDraws /\ registers \in Seq(RegisterSet)
  BY PersistentAssumption DEF Good, Holders, Generations
<1>2. /\ n \in Nat /\ DOMAIN Loadable = 1 .. n
      /\ \A i \in 1 .. n : /\ i \in DOMAIN entries /\ Loadable[i] = entries[i]
                           /\ entries[i] # Error /\ entries[i] \in EntrySet
  BY <1>1, LoadableEntries
<1>3. /\ regs \in Seq(RegisterSet) /\ DOMAIN regs = 1 .. n + Len(registers) /\ Len(registers) \in Nat
      /\ \A i \in 1 .. n : /\ n - i + 1 \in 1 .. n
                           /\ regs[i].dev = entries[n - i + 1].dev
                           /\ regs[i].crc = entries[n - i + 1].crc
                           /\ regs[i].map = draws + (n - i + 1)
      /\ \A i \in DOMAIN regs : i \notin 1 .. n =>
           i - n \in DOMAIN registers /\ regs[i] = registers[i - n]
  BY <1>1, <1>2, LoadedRegs, LenProperties
<1>4. /\ DOMAIN all = DOMAIN maps \cup new
      /\ \A id \in DOMAIN maps : id \in 1 .. draws /\ id \notin new /\ all[id] = maps[id]
      /\ \A i \in 1 .. n : all[draws + i] = LoadedMap(entries[i], draws + i)
  <2>1. draws + 1 .. draws + n = new
    <3>1. \A k \in draws + 1 .. draws + n : k - draws \in 1 .. n /\ draws + (k - draws) = k
      BY <1>1, <1>2
    <3>2. \A i \in 1 .. n : draws + i \in draws + 1 .. draws + n
      BY <1>1, <1>2
    <3>3. QED
      BY <3>1, <3>2
  <2>2. \A id \in DOMAIN maps : id \in 1 .. draws /\ ~(id > draws)
    BY <1>1 DEF Holders
  <2>3. \A i \in 1 .. n : draws + i \in new /\ draws + i > draws /\ (draws + i) - draws = i
    BY <1>1, <1>2
  <2>4. DOMAIN all = DOMAIN maps \cup new
    BY <2>1 DEF LoadedMaps
  <2>5. \A id \in DOMAIN maps : all[id] = maps[id]
    BY <2>2 DEF LoadedMaps
  <2>6. \A i \in 1 .. n : all[draws + i] = LoadedMap(entries[i], draws + i)
    BY <1>2, <2>1, <2>3 DEF LoadedMaps
  <2>7. \A id \in DOMAIN maps : id \notin new
    BY <1>1, <1>2, <2>2
  <2>8. QED
    BY <2>2, <2>4, <2>5, <2>6, <2>7
<1>e. /\ left \in Seq(EntrySet \cup {Error}) /\ DOMAIN left = DOMAIN entries
      /\ \A i \in DOMAIN left : i \in 1 .. n =>
           /\ left[i].dev = entries[i].dev /\ left[i].crc = entries[i].crc
           /\ left[i].genActive = entries[i].genActive /\ left[i].again
           /\ entries[i] # Error
      /\ \A i \in DOMAIN left : i \notin 1 .. n => left[i] = entries[i]
  BY <1>1, <1>2, EmptiedEntries
<1> HIDE DEF n, entries, regs, all, new, left
<1>5. \A i \in 1 .. n :
        /\ draws + i \in new /\ draws + i \in 1 .. draws + n /\ draws + i <= MaxDraws /\ draws + i > draws
        /\ all[draws + i].genActive = entries[i].genActive /\ all[draws + i].genPrevious = draws + i
        /\ all[draws + i].numActive = entries[i].numActive /\ all[draws + i].numPrevious = 0
        /\ all[draws + i] \in Map /\ all[draws + i].again = entries[i].again
        /\ entries[i].genActive \in 1 .. draws /\ entries[i].numActive \in 1 .. MaxNumber
  <2> SUFFICES ASSUME NEW i \in 1 .. n
      PROVE  /\ draws + i \in new /\ draws + i \in 1 .. draws + n /\ draws + i <= MaxDraws /\ draws + i > draws
             /\ all[draws + i].genActive = entries[i].genActive /\ all[draws + i].genPrevious = draws + i
             /\ all[draws + i].numActive = entries[i].numActive /\ all[draws + i].numPrevious = 0
             /\ all[draws + i] \in Map /\ all[draws + i].again = entries[i].again
             /\ entries[i].genActive \in 1 .. draws /\ entries[i].numActive \in 1 .. MaxNumber
    OBVIOUS
  <2>1. draws + i \in new /\ draws + i \in 1 .. draws + n /\ draws + i <= MaxDraws /\ draws + i > draws
        /\ draws + i \in 0 .. MaxDraws
    BY <1>1, <1>2 DEF n, new
  <2>2. all[draws + i] = [NewMap(draws + i) EXCEPT !.genActive = entries[i].genActive,
                                                   !.numActive = entries[i].numActive,
                                                   !.write = entries[i].write,
                                                   !.again = entries[i].again]
    BY <1>4 DEF LoadedMap
  <2>3. entries[i].genActive \in 1 .. draws /\ entries[i].genActive \in 0 .. MaxDraws
        /\ entries[i].numActive \in 1 .. MaxNumber /\ entries[i].write \in 0 .. MaxNumber
        /\ entries[i].again \in BOOLEAN
    BY <1>1, <1>2 DEF Apart, EntrySet, Generations, Numbers
  <2>4. all[draws + i] = [genActive |-> entries[i].genActive, genPrevious |-> draws + i,
                          numActive |-> entries[i].numActive, numPrevious |-> 0,
                          write |-> entries[i].write, read |-> 0, active |-> TRUE,
                          again |-> entries[i].again]
    BY <2>2 DEF NewMap
  <2>5. 0 \in 0 .. MaxNumber
    BY PersistentAssumption
  <2>6. QED
    BY <2>1, <2>3, <2>4, <2>5 DEF Map, Generations, Numbers
<1>6. \A i \in 1 .. n : \A d \in Devices :
        Older(all[draws + i], d) /\ Reports(all[draws + i], d)
  <2> SUFFICES ASSUME NEW i \in 1 .. n, NEW d \in Devices, Clean(all[draws + i], d)
      PROVE  Older(all[draws + i], d) /\ Reports(all[draws + i], d)
    BY DEF Reports, Older
  <2>1. known[d].gen \in 0 .. draws
    BY <1>1 DEF Apart
  <2>2. entries[i].numActive = 1 => entries[i].genActive # known[d].gen
    <3>1. Clean(entries[i], d)
      BY <1>5 DEF Clean
    <3>2. QED
      BY <1>1, <1>2, <3>1 DEF InOrder
  <2>3. draws + i # known[d].gen
    BY <1>1, <1>5, <2>1
  <2>4. NextGen(all[draws + i]) # known[d].gen
    BY <1>5, <2>2, <2>3 DEF NextGen
  <2>5. all[draws + i].numActive = 1 => all[draws + i].genActive # known[d].gen
    BY <1>5, <2>2
  <2>6. QED
    BY <2>4, <2>5 DEF Older, Reports
(* A register that was loaded, and one that was there.                     *)
<1>7. \A i \in DOMAIN regs :
        \/ /\ i \in 1 .. n
           /\ \E k \in 1 .. n : /\ k = n - i + 1 /\ regs[i].map = draws + k /\ regs[i].map \in new
                                /\ regs[i].dev = entries[k].dev /\ regs[i].crc = entries[k].crc
        \/ i \notin 1 .. n /\ i - n \in DOMAIN registers /\ regs[i] = registers[i - n] /\ regs[i].map \in DOMAIN maps
  <2>1. ASSUME NEW i \in DOMAIN regs, i \in 1 .. n
        PROVE  \E k \in 1 .. n : /\ k = n - i + 1 /\ regs[i].map = draws + k /\ regs[i].map \in new
                                 /\ regs[i].dev = entries[k].dev /\ regs[i].crc = entries[k].crc
    <3>1. PICK k \in 1 .. n : k = n - i + 1
      BY <1>3, <2>1
    <3>2. regs[i].map = draws + k /\ regs[i].dev = entries[k].dev /\ regs[i].crc = entries[k].crc
      BY <1>3, <2>1, <3>1
    <3>3. QED
      BY <1>5, <3>1, <3>2
  <2>2. ASSUME NEW i \in DOMAIN regs, i \notin 1 .. n
        PROVE  i - n \in DOMAIN registers /\ regs[i] = registers[i - n] /\ regs[i].map \in DOMAIN maps
    BY <1>1, <1>3, <2>2 DEF Holders
  <2>3. QED
    BY <2>1, <2>2
<1>8. Holders(regs, tracker, all, draws + n)
  <2>1. draws + n \in Generations /\ DOMAIN all \subseteq 1 .. draws + n
    <3>1. draws + n \in 0 .. MaxDraws /\ 1 .. draws \subseteq 1 .. draws + n
      BY <1>1, <1>2 DEF n
    <3>2. new \subseteq 1 .. draws + n
      BY <1>5 DEF new
    <3>3. QED
      BY <1>4, <3>1, <3>2 DEF Generations
  <2>2. \A id \in DOMAIN all : all[id] \in Map
    <3>1. \A id \in DOMAIN maps : all[id] \in Map
      BY <1>1, <1>4 DEF Holders
    <3>2. \A id \in new : all[id] \in Map
      BY <1>5 DEF new
    <3>3. QED
      BY <1>4, <3>1, <3>2
  <2>3. \A i \in DOMAIN regs : regs[i].map \in DOMAIN all
    BY <1>4, <1>7
  <2>4. tracker \in [Devices -> DOMAIN all \cup {None}] /\ \A d \in Devices : tracker[d] \notin new
    <3>1. tracker \in [Devices -> DOMAIN maps \cup {None}]
      BY <1>1 DEF Holders
    <3>2. None \notin new
      BY <1>1, <1>5 DEF None, new
    <3>3. QED
      BY <1>4, <3>1, <3>2
  <2>5. ASSUME NEW i \in DOMAIN regs, NEW j \in DOMAIN regs, regs[i].map = regs[j].map PROVE i = j
    <3>1. CASE i \in 1 .. n /\ j \in 1 .. n
      <4>1. draws + (n - i + 1) = draws + (n - j + 1)
        BY <1>3, <2>5, <3>1
      <4>2. draws \in Int /\ n \in Int /\ i \in Int /\ j \in Int
        BY <1>1, <1>2, <3>1
      <4>3. QED
        BY <4>1, <4>2
    <3>2. CASE i \notin 1 .. n /\ j \notin 1 .. n
      <4>1. i - n \in DOMAIN registers /\ j - n \in DOMAIN registers /\ registers[i - n].map = registers[j - n].map
        BY <1>3, <2>5, <3>2
      <4>2. i - n = j - n
        BY <1>1, <4>1 DEF Holders
      <4>3. QED
        BY <1>2, <1>3, <4>2
    <3>3. CASE (i \in 1 .. n) # (j \in 1 .. n)
      BY <1>4, <1>7, <2>5, <3>3
    <3>4. QED
      BY <3>1, <3>2, <3>3
  <2>6. ASSUME NEW i \in DOMAIN regs, NEW d \in Devices, tracker[d] = regs[i].map PROVE regs[i].dev = d
    BY <1>1, <1>7, <2>4, <2>6 DEF Holders
  <2>7. QED
    BY <1>1, <1>3, <2>1, <2>2, <2>3, <2>4, <2>5, <2>6 DEF Holders
<1>9. Checksums(regs, left)
  <2>1. \A i \in DOMAIN regs : Sealed(regs[i].crc, regs[i].dev)
    BY <1>1, <1>2, <1>7 DEF Checksums
  <2>2. ASSUME NEW i \in DOMAIN left, left[i] # Error PROVE Sealed(left[i].crc, left[i].dev)
    <3>1. entries[i] # Error /\ left[i].crc = entries[i].crc /\ left[i].dev = entries[i].dev
      BY <1>e, <2>2
    <3>2. QED
      BY <1>1, <1>e, <3>1 DEF Checksums
  <2>3. QED
    BY <2>1, <2>2 DEF Checksums
<1>10. Apart(all, left, draws + n)
  <2>1. 1 .. draws \subseteq 1 .. draws + n /\ 0 .. draws \subseteq 0 .. draws + n
    BY <1>1, <1>2
  <2>2. \A id \in DOMAIN maps : Gens(all[id]) \subseteq 1 .. draws
    BY <1>1, <1>4 DEF Apart
  <2>3. \A i \in 1 .. n : Gens(all[draws + i]) = {entries[i].genActive, draws + i}
    BY <1>5 DEF Gens
  <2>4. \A id \in DOMAIN all : Gens(all[id]) \subseteq 1 .. draws + n
    <3>1. ASSUME NEW i \in 1 .. n PROVE Gens(all[draws + i]) \subseteq 1 .. draws + n
      BY <1>5, <2>1, <2>3
    <3>2. \A id \in new : Gens(all[id]) \subseteq 1 .. draws + n
      BY <3>1 DEF new
    <3>3. QED
      BY <1>4, <2>1, <2>2, <3>2
  <2>5. ASSUME NEW i \in 1 .. n, NEW id \in DOMAIN maps, ~all[draws + i].again, ~all[id].again
        PROVE  Gens(all[draws + i]) \cap Gens(all[id]) = {}
    <3>1. entries[i].genActive \notin Gens(all[id])
      BY <1>1, <1>2, <1>4, <1>5, <2>5 DEF Apart
    <3>2. draws + i \notin 1 .. draws
      BY <1>1, <1>5
    <3>3. QED
      BY <2>2, <2>3, <3>1, <3>2
  <2>6. ASSUME NEW i \in 1 .. n, NEW j \in 1 .. n, ~all[draws + i].again, ~all[draws + j].again,
               Gens(all[draws + i]) \cap Gens(all[draws + j]) # {}
        PROVE  i = j
    <3>1. entries[i].genActive = entries[j].genActive => i = j
      BY <1>1, <1>2, <1>5, <2>6 DEF Apart
    <3>2. draws + i # entries[j].genActive /\ draws + j # entries[i].genActive
      <4>1. entries[i].genActive \in 1 .. draws /\ entries[j].genActive \in 1 .. draws
        BY <1>5
      <4>2. draws + i > draws /\ draws + j > draws /\ draws \in Nat
        BY <1>1, <1>5
      <4>3. QED
        BY <4>1, <4>2
    <3>3. draws + i = draws + j => i = j
      BY <1>1, <1>2
    <3>4. QED
      BY <2>3, <2>6, <3>1, <3>2, <3>3
  <2>7. ASSUME NEW id \in DOMAIN all, NEW other \in DOMAIN all, ~all[id].again, ~all[other].again,
               Gens(all[id]) \cap Gens(all[other]) # {}
        PROVE  id = other
    <3>1. CASE id \in DOMAIN maps /\ other \in DOMAIN maps
      BY <1>1, <1>4, <2>7, <3>1 DEF Apart
    <3>2. CASE id \in new /\ other \in new
      <4>1. PICK i \in 1 .. n, j \in 1 .. n : id = draws + i /\ other = draws + j
        BY <3>2 DEF new
      <4>2. QED
        BY <2>6, <2>7, <4>1
    <3>3. CASE id \in new /\ other \in DOMAIN maps
      BY <2>5, <2>7, <3>3 DEF new
    <3>4. CASE id \in DOMAIN maps /\ other \in new
      BY <2>5, <2>7, <3>4 DEF new
    <3>5. QED
      BY <1>4, <3>1, <3>2, <3>3, <3>4
  <2>8. \A d \in Devices : known[d].gen \in 0 .. draws + n
    BY <1>1, <2>1 DEF Apart
  <2>9. \A i \in DOMAIN left : left[i] # Error => left[i].genActive \in 1 .. draws + n
    <3>1. \A i \in DOMAIN left : left[i] # Error =>
            entries[i] # Error /\ left[i].genActive = entries[i].genActive
      BY <1>e
    <3>2. QED
      BY <1>1, <1>e, <2>1, <3>1 DEF Apart
  <2>10. ASSUME NEW i \in DOMAIN left, left[i] # Error, ~left[i].again
         PROVE  /\ \A id \in DOMAIN all : ~all[id].again => left[i].genActive \notin Gens(all[id])
                /\ \A j \in DOMAIN left :
                     left[j] # Error /\ ~left[j].again /\ left[j].genActive = left[i].genActive => i = j
    <3>1. i \notin 1 .. n /\ left[i] = entries[i] /\ i \in DOMAIN entries
      BY <1>e, <2>10
    <3>2. \A id \in DOMAIN maps : ~all[id].again => left[i].genActive \notin Gens(all[id])
      BY <1>1, <1>4, <2>10, <3>1 DEF Apart
    <3>3. ASSUME NEW k \in 1 .. n, ~all[draws + k].again
          PROVE  left[i].genActive \notin Gens(all[draws + k])
      <4>1. /\ entries[i] # Error /\ ~entries[i].again /\ i \in DOMAIN entries
            /\ entries[k] # Error /\ ~entries[k].again /\ k \in DOMAIN entries
            /\ i # k
        <5>1. all[draws + k].again = entries[k].again
          BY <1>5
        <5>2. QED
          BY <1>2, <2>10, <3>1, <3>3, <5>1
      <4>2. entries[i].genActive # entries[k].genActive
        BY <1>1, <4>1 DEF Apart
      <4>3. entries[i].genActive \in 1 .. draws
        BY <1>1, <4>1 DEF Apart
      <4>4. draws + k > draws
        BY <1>5
      <4>5. Gens(all[draws + k]) = {entries[k].genActive, draws + k}
        BY <2>3
      <4>6. QED
        BY <1>1, <3>1, <4>2, <4>3, <4>4, <4>5
    <3>4. \A j \in DOMAIN left :
            left[j] # Error /\ ~left[j].again /\ left[j].genActive = left[i].genActive => i = j
      BY <1>1, <1>e, <2>10, <3>1 DEF Apart
    <3>5. QED
      BY <1>4, <3>2, <3>3, <3>4 DEF new
  <2>11. QED
    BY <2>4, <2>7, <2>8, <2>9, <2>10 DEF Apart
<1>11. InOrder(all, left)
  <2>1. \A id \in DOMAIN maps : \A d \in Devices : Older(all[id], d)
    BY <1>1, <1>4 DEF InOrder
  <2>2. \A id \in new : \A d \in Devices : Older(all[id], d)
    BY <1>6 DEF new
  <2>3. \A id \in DOMAIN maps : all[id].numActive # 1 => all[id].numPrevious < all[id].numActive
    BY <1>1, <1>4 DEF InOrder
  <2>4. \A i \in 1 .. n : all[draws + i].numPrevious < all[draws + i].numActive
    BY <1>5, PersistentAssumption
  <2>5. \A id \in new : all[id].numPrevious < all[id].numActive
    BY <2>4 DEF new
  <2>6. ASSUME NEW i \in DOMAIN left, NEW d \in Devices, left[i] # Error, Clean(left[i], d),
               left[i].numActive = 1
        PROVE  left[i].genActive # known[d].gen
    <3>1. left[i] = entries[i] /\ i \in DOMAIN entries
      BY <1>e, <2>6 DEF Clean
    <3>2. QED
      BY <1>1, <2>6, <3>1 DEF InOrder
  <2>7. QED
    BY <1>4, <2>1, <2>2, <2>3, <2>5, <2>6 DEF InOrder
<1>12. Reporting(regs, tracker, all)
  <2>1. \A d \in Devices : tracker[d] # None => tracker[d] \in DOMAIN maps
    BY <1>1 DEF Holders
  <2>2. \A d \in Devices : tracker[d] # None /\ d \in changed => Reports(all[tracker[d]], d)
    BY <1>1, <1>4, <2>1 DEF Reporting
  <2>3. ASSUME NEW i \in DOMAIN regs, Untouched(regs[i].crc, regs[i].dev), tracker[regs[i].dev] # regs[i].map,
               regs[i].dev \in changed \/ image[regs[i].dev] = "changed"
        PROVE  Reports(all[regs[i].map], regs[i].dev)
    <3>1. regs[i].dev \in Devices
      BY <1>3, RegisterTypes
    <3>2. CASE i \in 1 .. n
      <4>1. PICK k \in 1 .. n : regs[i].map = draws + k
        BY <1>7, <3>2
      <4>2. Reports(all[draws + k], regs[i].dev)
        BY <1>6, <3>1
      <4>3. QED
        BY <4>1, <4>2
    <3>3. CASE i \notin 1 .. n
      <4>1. i - n \in DOMAIN registers /\ regs[i] = registers[i - n] /\ regs[i].map \in DOMAIN maps
        BY <1>7, <3>3
      <4>2. PICK j \in DOMAIN registers : regs[i] = registers[j]
        BY <4>1
      <4>3. all[regs[i].map] = maps[registers[j].map]
        BY <1>4, <4>1, <4>2
      <4>4. Reports(maps[registers[j].map], registers[j].dev)
        BY <1>1, <2>3, <4>2 DEF Reporting
      <4>5. QED
        BY <4>2, <4>3, <4>4
    <3>4. QED
      BY <3>2, <3>3
  <2>4. QED
    BY <2>2, <2>3 DEF Reporting
<1>13. Images(tracker, all)
  <2>1. \A d \in Devices : tracker[d] # None => all[tracker[d]] = maps[tracker[d]]
    BY <1>1, <1>4 DEF Holders
  <2>2. QED
    BY <1>1, <2>1 DEF Images
<1>14. Good(regs, tracker, all, left, draws + n)
  BY <1>e, <1>8, <1>9, <1>10, <1>11, <1>12, <1>13 DEF Good
<1>15. \A i \in DOMAIN regs : i \in 1 .. n => Reports(all[regs[i].map], regs[i].dev)
  <2>1. \A i \in DOMAIN regs : regs[i].dev \in Devices
    BY <1>3, RegisterTypes
  <2>2. QED
    BY <1>6, <1>7, <2>1
<1>16. QED
  BY <1>14, <1>15 DEF regs, all, n, left

LEMMA LoadKeepsInv ==
  ASSUME TypeOK, IInv, NEW devs, NEW checked \in BOOLEAN, Load(devs, checked), checked \/ registers = <<>>,
         UNCHANGED <<worldVars, serviceVars>>, inKernel' = TRUE, configured' \in BOOLEAN, notified' \subseteq Devices
  PROVE  TypeOK' /\ IInv'
<1> DEFINE n == Len(Loadable)
           trk == Started(LoadedRegisters, devs, checked)
<1>1. Good(registers, tracker, maps, storage.entries, draws)
  BY DEF IInv
<1>2. /\ draws + n <= MaxDraws /\ draws' = draws + n
      /\ Hold(LoadedRegisters, trk, LoadedMaps)
      /\ isLoad' = storage.full /\ storage' = Emptied
  BY DEF Load
<1>3. /\ Good(LoadedRegisters, tracker, LoadedMaps, Emptied.entries, draws + n)
      /\ \A i \in DOMAIN LoadedRegisters : i \in 1 .. n =>
           Reports(LoadedMaps[LoadedRegisters[i].map], LoadedRegisters[i].dev)
  BY <1>1, <1>2, LoadKeepsGood
<1>4. registers = <<>> => DOMAIN LoadedRegisters \subseteq 1 .. n
  <2>1. /\ storage.entries \in Seq(EntrySet \cup {Error}) /\ registers \in Seq(RegisterSet)
        /\ draws \in Nat /\ MaxDraws \in Nat
    BY <1>1, PersistentAssumption DEF Good, Holders, Generations
  <2>2. DOMAIN LoadedRegisters = 1 .. n + Len(registers) /\ n \in Nat
    BY <1>2, <2>1, LoadedRegs, LoadableEntries
  <2>3. registers = <<>> => n + Len(registers) = n
    BY <2>2
  <2>4. QED
    BY <2>2, <2>3
<1> HIDE DEF n, trk
<1>5. Good(LoadedRegisters, trk, LoadedMaps, Emptied.entries, draws + n)
  BY <1>3, <1>4, StartKeepsGood DEF trk
<1>6. storage'.full \in BOOLEAN /\ isLoad' \in BOOLEAN
  BY <1>2 DEF Emptied, TypeOK
<1>7. Good(LoadedRegisters, trk, LoadedMaps, storage'.entries, draws + n)
  BY <1>2, <1>5
<1>8. QED
  BY <1>2, <1>6, <1>7, HoldKeepsInv

LEMMA InitKeepsInv ==
  ASSUME TypeOK, IInv, NEW params \in BOOLEAN, NEW there, InitModule(params, there)
  PROVE  TypeOK' /\ IInv'
<1>1. /\ ~inKernel /\ inKernel' = TRUE /\ configured' \in BOOLEAN /\ notified' \subseteq Devices
      /\ UNCHANGED <<worldVars, serviceVars>>
  BY DEF InitModule, TypeOK
<1>2. CASE Load(there, FALSE)
  <2>1. registers = <<>>
    BY <1>1 DEF IInv, Sessions
  <2>2. QED
    BY <1>1, <1>2, <2>1, LoadKeepsInv
<1>3. CASE UNCHANGED <<isLoad, registerVars, storage>>
  <2>1. isLoad' \in BOOLEAN
    BY <1>3 DEF TypeOK
  <2>2. QED
    BY <1>1, <1>3, <2>1, QuietKeepsInv
<1>4. QED
  BY <1>2, <1>3 DEF InitModule

LEMMA StorageAttachKeepsInv ==
  ASSUME TypeOK, IInv, StorageAttach
  PROVE  TypeOK' /\ IInv'
<1>1. /\ Load(notified, TRUE) /\ inKernel' = TRUE /\ UNCHANGED <<worldVars, serviceVars>>
      /\ configured' \in BOOLEAN /\ notified' \subseteq Devices
  BY DEF StorageAttach, TypeOK
<1>2. QED
  BY <1>1, LoadKeepsInv

LEMMA DeviceAttachKeepsInv ==
  ASSUME TypeOK, IInv, NEW d \in Devices, DeviceAttach(d)
  PROVE  TypeOK' /\ IInv'
<1>1. /\ inKernel' = TRUE /\ UNCHANGED <<draws, storage>> /\ UNCHANGED <<worldVars, serviceVars>>
      /\ configured' \in BOOLEAN /\ isLoad' \in BOOLEAN /\ notified' \subseteq Devices /\ storage'.full \in BOOLEAN
  BY DEF DeviceAttach, Notify, TypeOK
<1>2. CASE Hold(registers, Started(registers, {d}, TRUE), maps)
  <2>1. Good(registers, Started(registers, {d}, TRUE), maps, storage.entries, draws)
    BY StartKeepsGood DEF IInv
  <2>2. Good(registers, Started(registers, {d}, TRUE), maps, storage'.entries, draws)
    BY <1>1, <2>1
  <2>3. QED
    BY <1>1, <1>2, <2>2, HoldKeepsInv
<1>3. CASE UNCHANGED <<registers, tracker, maps>>
  <2>1. UNCHANGED <<registerVars, storage, worldVars, serviceVars>>
    BY <1>1, <1>3 DEF registerVars
  <2>2. QED
    BY <1>1, <2>1, QuietKeepsInv
<1>4. QED
  BY <1>2, <1>3 DEF DeviceAttach

-----------------------------------------------------------------------------
(* Devices are tracked, and tracked no more.                               *)

LEMMA RegisterEffect ==
  ASSUME registers \in Seq(RegisterSet), NEW d \in Devices, NEW id \in 1 .. MaxDraws
  PROVE  \/ Register(d, id) = registers
         \/ /\ Register(d, id) \in Seq(RegisterSet)
            /\ 1 \in DOMAIN Register(d, id)
            /\ Register(d, id)[1] = [dev |-> d, crc |-> NoCrc, map |-> id]
            /\ \A i \in DOMAIN Register(d, id) : i # 1 =>
                 i \in Int /\ i - 1 \in DOMAIN registers /\ Register(d, id)[i] = registers[i - 1]
<1> DEFINE reg == [dev |-> d, crc |-> NoCrc, map |-> id]
<1>1. CASE \E old \in Range(registers) : old.dev = d
  BY <1>1 DEF Register
<1>2. CASE ~(\E old \in Range(registers) : old.dev = d)
  <2>1. Register(d, id) = <<reg>> \o registers
    BY <1>2 DEF Register
  <2>2. reg \in RegisterSet
    BY DEF RegisterSet, NoCrc
  <2> HIDE DEF reg
  <2>3. <<reg>> \in Seq(RegisterSet) /\ Len(<<reg>>) = 1 /\ <<reg>>[1] = reg
    BY <2>2
  <2>4. /\ Register(d, id) \in Seq(RegisterSet) /\ Len(Register(d, id)) = 1 + Len(registers)
        /\ Len(registers) \in Nat /\ DOMAIN registers = 1 .. Len(registers)
        /\ \A i \in 1 .. 1 + Len(registers) : Register(d, id)[i] = IF i <= 1 THEN <<reg>>[i] ELSE registers[i - 1]
    BY <2>1, <2>3, ConcatProperties, LenProperties
  <2>5. DOMAIN Register(d, id) = 1 .. 1 + Len(registers)
    BY <2>4, LenProperties
  <2>6. Register(d, id)[1] = reg
    BY <2>3, <2>4
  <2>7. \A i \in DOMAIN Register(d, id) : i # 1 =>
          i \in Int /\ i - 1 \in DOMAIN registers /\ Register(d, id)[i] = registers[i - 1]
    BY <2>4, <2>5
  <2>8. QED
    BY <2>4, <2>5, <2>6, <2>7 DEF reg
<1>3. QED
  BY <1>1, <1>2

(* A new map reports a generation of its own.                              *)
LEMMA TrackingAddKeepsInv ==
  ASSUME TypeOK, IInv, NEW d \in Devices, TrackingAdd(d)
  PROVE  TypeOK' /\ IInv'
<1> DEFINE id == draws + 1
           regs == Register(d, id)
           trk == [tracker EXCEPT ![d] = id]
           all == [m \in DOMAIN maps \cup {id} |-> IF m = id THEN NewMap(id) ELSE maps[m]]
           entries == storage.entries
<1>1. /\ inKernel /\ image[d] = "none" /\ ~Marking(d) /\ draws < MaxDraws /\ draws' = id
      /\ Hold(regs, trk, all) /\ UNCHANGED <<moduleVars, storage, worldVars, serviceVars>>
  BY DEF TrackingAdd
<1>2. /\ Holders(registers, tracker, maps, draws) /\ entries \in Seq(EntrySet \cup {Error})
      /\ Checksums(registers, entries) /\ Apart(maps, entries, draws) /\ InOrder(maps, entries)
      /\ Reporting(registers, tracker, maps) /\ Images(tracker, maps)
      /\ registers \in Seq(RegisterSet) /\ draws \in Nat /\ MaxDraws \in Nat /\ MaxNumber \in Nat \ {0}
  BY PersistentAssumption DEF IInv, Good, Holders, Generations
<1>3. /\ id \in 1 .. MaxDraws /\ id \in Generations /\ id \in 1 .. id /\ id \notin 1 .. draws /\ id \notin DOMAIN maps
      /\ 1 .. draws \subseteq 1 .. id /\ 0 .. draws \subseteq 0 .. id /\ id # None /\ id \notin 0 .. draws
  BY <1>1, <1>2 DEF Generations, Holders, None
<1>4. /\ \A e \in Devices : trk[e] = IF e = d THEN id ELSE tracker[e]
      /\ tracker \in [Devices -> DOMAIN maps \cup {None}]
  BY <1>2 DEF Holders
<1>5. /\ DOMAIN all = DOMAIN maps \cup {id} /\ all[id] = NewMap(id)
      /\ \A m \in DOMAIN maps : all[m] = maps[m]
  BY <1>3
<1>6. /\ NewMap(id) \in Map /\ NewMap(id).genActive = id /\ NewMap(id).genPrevious = id
      /\ NewMap(id).numActive = 1
  BY <1>2, <1>3 DEF NewMap, Map, Numbers
<1>7. \/ regs = registers
      \/ /\ regs \in Seq(RegisterSet) /\ 1 \in DOMAIN regs /\ regs[1] = [dev |-> d, crc |-> NoCrc, map |-> id]
         /\ \A i \in DOMAIN regs : i # 1 => i \in Int /\ i - 1 \in DOMAIN registers /\ regs[i] = registers[i - 1]
  BY <1>2, <1>3, RegisterEffect
<1> HIDE DEF id, regs, trk, all, entries
<1>8. \A i \in DOMAIN regs :
        \/ regs[i] = [dev |-> d, crc |-> NoCrc, map |-> id]
        \/ regs[i].map # id /\ \E j \in DOMAIN registers : regs[i] = registers[j]
  BY <1>2, <1>3, <1>7 DEF Holders
<1>9. Holders(regs, trk, all, id)
  <2>1. DOMAIN all \subseteq 1 .. id /\ \A m \in DOMAIN all : all[m] \in Map
    BY <1>2, <1>3, <1>5, <1>6 DEF Holders
  <2>2. trk \in [Devices -> DOMAIN all \cup {None}]
    <3>1. DOMAIN maps \cup {None} \subseteq DOMAIN all \cup {None} /\ id \in DOMAIN all
      BY <1>5
    <3>2. QED
      BY <1>4, <3>1 DEF trk
  <2>3. \A i \in DOMAIN regs : regs[i].map \in DOMAIN all
    BY <1>2, <1>5, <1>8 DEF Holders
  <2>4. ASSUME NEW i \in DOMAIN regs, NEW j \in DOMAIN regs, regs[i].map = regs[j].map PROVE i = j
    <3>1. CASE regs = registers
      BY <1>2, <2>4, <3>1 DEF Holders
    <3>2. CASE /\ regs[1].map = id
               /\ \A k \in DOMAIN regs : k # 1 => k \in Int /\ k - 1 \in DOMAIN registers /\ regs[k] = registers[k - 1]
      <4>1. \A k \in DOMAIN regs : k # 1 => regs[k].map # id
        BY <1>2, <1>3, <3>2 DEF Holders
      <4>2. CASE i # 1 /\ j # 1
        <5>1. i - 1 = j - 1 /\ i \in Int /\ j \in Int
          BY <1>2, <2>4, <3>2, <4>2 DEF Holders
        <5>2. QED
          BY <5>1
      <4>3. QED
        BY <2>4, <3>2, <4>1, <4>2
    <3>3. QED
      BY <1>7, <3>1, <3>2
  <2>5. ASSUME NEW i \in DOMAIN regs, NEW e \in Devices, trk[e] = regs[i].map PROVE regs[i].dev = e
    <3>1. \A f \in Devices : tracker[f] # id
      BY <1>3, <1>4
    <3>2. QED
      BY <1>2, <1>4, <1>8, <2>5, <3>1 DEF Holders
  <2>6. \A e, f \in Devices : trk[e] = trk[f] /\ trk[e] # None => e = f
    <3>1. \A f \in Devices : tracker[f] # id
      BY <1>3, <1>4
    <3>2. QED
      BY <1>2, <1>4, <3>1 DEF Holders
  <2>7. regs \in Seq(RegisterSet)
    BY <1>2, <1>7
  <2>8. QED
    BY <1>3, <2>1, <2>2, <2>3, <2>4, <2>5, <2>6, <2>7 DEF Holders
<1>10. Checksums(regs, entries)
  <2>1. Sealed(NoCrc, d)
    BY DEF Sealed, Untouched, NoCrc, TypeOK, Crc
  <2>2. \A i \in DOMAIN regs : Sealed(regs[i].crc, regs[i].dev)
    BY <1>2, <1>8, <2>1 DEF Checksums
  <2>3. QED
    BY <1>2, <2>2 DEF Checksums
<1>11. Apart(all, entries, id)
  <2>1. Gens(all[id]) = {id} /\ \A m \in DOMAIN maps : Gens(all[m]) \subseteq 1 .. draws
    BY <1>2, <1>5, <1>6 DEF Gens, Apart
  <2>2. \A m, o \in DOMAIN maps :
          ~all[m].again /\ ~all[o].again /\ Gens(all[m]) \cap Gens(all[o]) # {} => m = o
    BY <1>2, <1>5 DEF Apart
  <2>3. \A m \in DOMAIN all : Gens(all[m]) \subseteq 1 .. id
    BY <1>3, <1>5, <2>1
  <2>4. \A m, o \in DOMAIN all :
          ~all[m].again /\ ~all[o].again /\ Gens(all[m]) \cap Gens(all[o]) # {} => m = o
    BY <1>3, <1>5, <2>1, <2>2
  <2>5. ASSUME NEW i \in DOMAIN entries, entries[i] # Error
        PROVE  /\ entries[i].genActive \in 1 .. id
               /\ ~entries[i].again =>
                    /\ \A m \in DOMAIN all : ~all[m].again => entries[i].genActive \notin Gens(all[m])
                    /\ \A j \in DOMAIN entries :
                         entries[j] # Error /\ ~entries[j].again /\ entries[j].genActive = entries[i].genActive
                           => i = j
    <3>1. entries[i].genActive \in 1 .. draws
      BY <1>2, <2>5 DEF Apart
    <3>2. ~entries[i].again =>
            \A m \in DOMAIN maps : ~all[m].again => entries[i].genActive \notin Gens(all[m])
      BY <1>2, <1>5, <2>5 DEF Apart
    <3>3. QED
      BY <1>2, <1>3, <1>5, <2>1, <2>5, <3>1, <3>2 DEF Apart
  <2>6. \A e \in Devices : known[e].gen \in 0 .. id
    BY <1>2, <1>3 DEF Apart
  <2>7. QED
    BY <2>3, <2>4, <2>5, <2>6 DEF Apart
<1>12. \A e \in Devices : id # known[e].gen /\ Older(all[id], e) /\ Reports(all[id], e)
  <2>1. \A e \in Devices : id # known[e].gen
    BY <1>2, <1>3 DEF Apart
  <2>2. QED
    BY <1>5, <1>6, <2>1 DEF Older, Reports, NextGen, Clean
<1>13. InOrder(all, entries)
  <2>1. \A m \in DOMAIN maps : \A e \in Devices : Older(all[m], e)
    BY <1>2, <1>5 DEF InOrder
  <2>2. \A m \in DOMAIN all : all[m].numActive # 1 => all[m].numPrevious < all[m].numActive
    BY <1>2, <1>5, <1>6 DEF InOrder
  <2>3. QED
    BY <1>2, <1>5, <1>12, <2>1, <2>2 DEF InOrder
<1>14. Reporting(regs, trk, all)
  <2>1. \A e \in Devices : trk[e] # None /\ e \in changed => Reports(all[trk[e]], e)
    BY <1>2, <1>4, <1>5, <1>12 DEF Reporting
  <2>2. ASSUME NEW i \in DOMAIN regs, Untouched(regs[i].crc, regs[i].dev), trk[regs[i].dev] # regs[i].map,
               regs[i].dev \in changed \/ image[regs[i].dev] = "changed"
        PROVE  Reports(all[regs[i].map], regs[i].dev)
    <3>1. PICK j \in DOMAIN registers : regs[i] = registers[j]
      BY <1>4, <1>8, <2>2
    <3>2. regs[i].dev \in Devices /\ regs[i].map \in DOMAIN maps
      BY <1>2, <3>1, RegisterTypes DEF Holders
    <3>3. CASE tracker[regs[i].dev] # regs[i].map
      BY <1>2, <1>5, <2>2, <3>1, <3>2, <3>3 DEF Reporting
    <3>4. CASE tracker[regs[i].dev] = regs[i].map
      <4>1. regs[i].dev = d
        BY <1>4, <2>2, <3>2, <3>4
      <4>2. tracker[d] # None
        BY <1>2, <3>2, <3>4, <4>1 DEF Holders, None
      <4>3. ~maps[regs[i].map].active
        BY <1>1, <3>4, <4>1, <4>2 DEF Marking
      <4>4. QED
        BY <1>5, <3>2, <4>3 DEF Reports, Clean
    <3>5. QED
      BY <3>3, <3>4
  <2>3. QED
    BY <2>1, <2>2 DEF Reporting
<1>15. Images(trk, all)
  BY <1>1, <1>2, <1>4, <1>5 DEF Images
<1>16. Good(regs, trk, all, entries, id)
  BY <1>2, <1>9, <1>10, <1>11, <1>13, <1>14, <1>15 DEF Good
<1>17. QED
  <2>1. /\ inKernel' = TRUE /\ configured' \in BOOLEAN /\ isLoad' \in BOOLEAN /\ notified' \subseteq Devices
        /\ storage'.full \in BOOLEAN /\ storage'.entries = entries
        /\ UNCHANGED <<worldVars, serviceVars>>
    BY <1>1 DEF moduleVars, TypeOK, entries
  <2>2. QED
    BY <1>1, <1>16, <2>1, HoldKeepsInv

LEMMA RemoveEffect ==
  ASSUME registers \in Seq(RegisterSet), NEW k \in DOMAIN registers
  PROVE  /\ RemoveAt(registers, k) \in Seq(RegisterSet)
         /\ \A i \in DOMAIN RemoveAt(registers, k) : i \in Int /\ k \in Int /\
              \/ i < k /\ i \in DOMAIN registers /\ RemoveAt(registers, k)[i] = registers[i]
              \/ i >= k /\ i + 1 \in DOMAIN registers /\ RemoveAt(registers, k)[i] = registers[i + 1]
<1> DEFINE s == registers
           m == Len(s)
           front == SubSeq(s, 1, k - 1)
           back == SubSeq(s, k + 1, m)
<1>1. s \in Seq(RegisterSet) /\ m \in Nat /\ DOMAIN s = 1 .. m /\ k \in 1 .. m
  BY LenProperties
<1>2. \A i \in 1 .. m : s[i] \in RegisterSet
  BY <1>1, ElementOfSeq
<1> HIDE DEF s, m
<1>3. /\ front \in Seq(RegisterSet) /\ Len(front) = k - 1
      /\ \A i \in 1 .. k - 1 : front[i] = s[i]
  <2>1. 1 \in Int /\ k - 1 \in Int /\ \A i \in 1 .. k - 1 : s[i] \in RegisterSet
    BY <1>1, <1>2
  <2>2. /\ front \in Seq(RegisterSet)
        /\ Len(front) = IF 1 <= k - 1 THEN (k - 1) - 1 + 1 ELSE 0
        /\ \A i \in 1 .. (k - 1) - 1 + 1 : front[i] = s[1 + i - 1]
    BY <2>1, SubSeqProperties
  <2>3. QED
    BY <1>1, <2>2
<1>4. /\ back \in Seq(RegisterSet) /\ Len(back) = m - k
      /\ \A i \in 1 .. m - k : back[i] = s[k + i]
  <2>1. k + 1 \in Int /\ m \in Int /\ \A i \in k + 1 .. m : s[i] \in RegisterSet
    BY <1>1, <1>2
  <2>2. /\ back \in Seq(RegisterSet)
        /\ Len(back) = IF k + 1 <= m THEN m - (k + 1) + 1 ELSE 0
        /\ \A i \in 1 .. m - (k + 1) + 1 : back[i] = s[k + 1 + i - 1]
    BY <2>1, SubSeqProperties
  <2>3. Len(back) = m - k
    BY <1>1, <2>2
  <2>4. ASSUME NEW i \in 1 .. m - k
        PROVE  back[i] = s[k + i]
    <3>1. i \in 1 .. m - (k + 1) + 1 /\ k + 1 + i - 1 = k + i
      BY <1>1
    <3>2. back[i] = s[k + 1 + i - 1]
      BY <2>2, <3>1
    <3>3. QED
      BY <3>1, <3>2
  <2>5. QED
    BY <2>2, <2>3, <2>4
<1>5. RemoveAt(s, k) = front \o back
  BY DEF RemoveAt, m
<1> HIDE DEF front, back
<1>6. /\ RemoveAt(s, k) \in Seq(RegisterSet) /\ Len(RemoveAt(s, k)) = (k - 1) + (m - k)
      /\ \A i \in 1 .. (k - 1) + (m - k) : RemoveAt(s, k)[i] = IF i <= k - 1 THEN front[i] ELSE back[i - (k - 1)]
  <2>1. /\ front \o back \in Seq(RegisterSet) /\ Len(front \o back) = Len(front) + Len(back)
        /\ \A i \in 1 .. Len(front) + Len(back) :
             (front \o back)[i] = IF i <= Len(front) THEN front[i] ELSE back[i - Len(front)]
    BY <1>3, <1>4, ConcatProperties
  <2>2. QED
    BY <1>3, <1>4, <1>5, <2>1
<1>7. DOMAIN RemoveAt(s, k) = 1 .. (k - 1) + (m - k)
  BY <1>6, LenProperties
<1>8. ASSUME NEW i \in DOMAIN RemoveAt(s, k)
      PROVE  i \in Int /\ k \in Int /\
              \/ i < k /\ i \in 1 .. m /\ RemoveAt(s, k)[i] = s[i]
              \/ i >= k /\ i + 1 \in 1 .. m /\ RemoveAt(s, k)[i] = s[i + 1]
  <2>1. i \in Int /\ k \in Int /\ i \in 1 .. (k - 1) + (m - k) /\ m \in Int
    BY <1>1, <1>7
  <2>2. CASE i < k
    <3>1. i \in 1 .. k - 1 /\ i <= k - 1 /\ i \in 1 .. m
      BY <1>1, <2>1, <2>2
    <3>2. QED
      BY <1>3, <1>6, <2>1, <2>2, <3>1
  <2>3. CASE i >= k
    <3>1. ~(i <= k - 1) /\ i - (k - 1) \in 1 .. m - k /\ k + (i - (k - 1)) = i + 1 /\ i + 1 \in 1 .. m
      BY <1>1, <2>1, <2>3
    <3>2. QED
      BY <1>4, <1>6, <2>1, <2>3, <3>1
  <2>4. QED
    BY <2>1, <2>2, <2>3
<1>9. QED
  BY <1>1, <1>6, <1>8 DEF s

(* A tracker that goes leaves its map to the register, if it has one.      *)
LEMMA TrackingRemoveKeepsInv ==
  ASSUME TypeOK, IInv, NEW d \in Devices, TrackingRemove(d)
  PROVE  TypeOK' /\ IInv'
<1> DEFINE trk == [tracker EXCEPT ![d] = None]
           entries == storage.entries
<1>1. /\ Holders(registers, tracker, maps, draws) /\ entries \in Seq(EntrySet \cup {Error})
      /\ Checksums(registers, entries) /\ Apart(maps, entries, draws) /\ InOrder(maps, entries)
      /\ Reporting(registers, tracker, maps) /\ Images(tracker, maps) /\ registers \in Seq(RegisterSet)
  BY DEF IInv, Good, Holders
<1>2. PICK regs : /\ regs = registers \/ \E k \in DOMAIN registers : regs = RemoveAt(registers, k)
                  /\ Hold(regs, trk, maps)
  <2> DEFINE I == {i \in 1 .. Len(registers) : registers[i].dev = d}
             first == IF I # {} THEN Min(I) ELSE 0
  <2>1. first = SelectInSeq(registers, LAMBDA reg : reg.dev = d)
    BY DEF SelectInSeq
  <2>2. Hold(IF first = 0 THEN registers ELSE RemoveAt(registers, first), trk, maps)
    BY <2>1 DEF TrackingRemove
  <2>3. first # 0 => first \in DOMAIN registers
    BY <1>1, FirstIn, LenProperties
  <2> HIDE DEF first
  <2>4. QED
    BY <2>2, <2>3
<1>3. /\ regs \in Seq(RegisterSet)
      /\ \A i \in DOMAIN regs : \E j \in DOMAIN registers : regs[i] = registers[j]
      /\ \A i, j \in DOMAIN regs : regs[i].map = regs[j].map => i = j
  <2>1. CASE regs = registers
    BY <1>1, <2>1 DEF Holders
  <2>2. CASE \E k \in DOMAIN registers : regs = RemoveAt(registers, k)
    <3>1. PICK k \in DOMAIN registers : regs = RemoveAt(registers, k)
      BY <2>2
    <3>2. /\ regs \in Seq(RegisterSet)
          /\ \A i \in DOMAIN regs : i \in Int /\ k \in Int /\
               \/ i < k /\ i \in DOMAIN registers /\ regs[i] = registers[i]
               \/ i >= k /\ i + 1 \in DOMAIN registers /\ regs[i] = registers[i + 1]
      BY <1>1, <3>1, RemoveEffect
    <3>3. ASSUME NEW i \in DOMAIN regs, NEW j \in DOMAIN regs, regs[i].map = regs[j].map PROVE i = j
      <4>1. \A a, b \in DOMAIN registers : registers[a].map = registers[b].map => a = b
        BY <1>1 DEF Holders
      <4>2. i \in Int /\ j \in Int /\ k \in Int
        BY <3>2
      <4>3. CASE i < k /\ j < k
        BY <3>2, <3>3, <4>1, <4>2, <4>3
      <4>4. CASE i >= k /\ j >= k
        <5>1. i + 1 = j + 1
          BY <3>2, <3>3, <4>1, <4>2, <4>4
        <5>2. QED
          BY <4>2, <5>1
      <4>5. CASE i < k /\ j >= k
        <5>1. i \in DOMAIN registers /\ j + 1 \in DOMAIN registers /\ registers[i].map = registers[j + 1].map
          BY <3>2, <3>3, <4>2, <4>5
        <5>2. i = j + 1
          BY <4>1, <5>1
        <5>3. QED
          BY <4>2, <4>5, <5>2
      <4>6. CASE i >= k /\ j < k
        <5>1. i + 1 \in DOMAIN registers /\ j \in DOMAIN registers /\ registers[i + 1].map = registers[j].map
          BY <3>2, <3>3, <4>2, <4>6
        <5>2. i + 1 = j
          BY <4>1, <5>1
        <5>3. QED
          BY <4>2, <4>6, <5>2
      <4>7. QED
        BY <4>2, <4>3, <4>4, <4>5, <4>6
    <3>4. QED
      BY <3>2, <3>3
  <2>3. QED
    BY <1>2, <2>1, <2>2
<1>4. /\ \A e \in Devices : trk[e] = IF e = d THEN None ELSE tracker[e]
      /\ trk \in [Devices -> DOMAIN maps \cup {None}] /\ image[d] = "none"
      /\ \A i \in DOMAIN registers : registers[i].map # None
  BY <1>1 DEF Holders, TrackingRemove, None
<1> HIDE DEF trk, entries
<1>5. Holders(regs, trk, maps, draws)
  <2>1. \A i \in DOMAIN regs : regs[i].map \in DOMAIN maps /\ regs[i].map # None
    BY <1>1, <1>3, <1>4 DEF Holders
  <2>2. \A i \in DOMAIN regs : \A e \in Devices : trk[e] = regs[i].map => regs[i].dev = e
    BY <1>1, <1>3, <1>4, <2>1 DEF Holders
  <2>3. \A e, f \in Devices : trk[e] = trk[f] /\ trk[e] # None => e = f
    BY <1>1, <1>4 DEF Holders
  <2>4. QED
    BY <1>1, <1>3, <1>4, <2>1, <2>2, <2>3 DEF Holders
<1>6. Checksums(regs, entries)
  BY <1>1, <1>3 DEF Checksums
<1>7. Reporting(regs, trk, maps)
  <2>1. \A e \in Devices : trk[e] # None /\ e \in changed => Reports(maps[trk[e]], e)
    BY <1>1, <1>4 DEF Reporting
  <2>2. ASSUME NEW i \in DOMAIN regs, Untouched(regs[i].crc, regs[i].dev), trk[regs[i].dev] # regs[i].map,
               regs[i].dev \in changed \/ image[regs[i].dev] = "changed"
        PROVE  Reports(maps[regs[i].map], regs[i].dev)
    <3>1. PICK j \in DOMAIN registers : regs[i] = registers[j]
      BY <1>3
    <3>2. CASE tracker[regs[i].dev] # regs[i].map
      BY <1>1, <2>2, <3>1, <3>2 DEF Reporting
    <3>3. CASE tracker[regs[i].dev] = regs[i].map
      <4>1. regs[i].dev \in Devices /\ tracker[regs[i].dev] # None
        BY <1>3, <1>4, <3>1, <3>3, RegisterTypes
      <4>2. regs[i].dev = d
        BY <1>4, <2>2, <3>3, <4>1
      <4>3. d \in changed
        BY <1>4, <2>2, <4>2
      <4>4. QED
        BY <1>1, <3>3, <4>1, <4>2, <4>3 DEF Reporting
    <3>4. QED
      BY <3>2, <3>3
  <2>3. QED
    BY <2>1, <2>2 DEF Reporting
<1>8. Images(trk, maps)
  BY <1>1, <1>4 DEF Images
<1>9. Good(regs, trk, maps, entries, draws)
  BY <1>1, <1>5, <1>6, <1>7, <1>8 DEF Good
<1>10. QED
  <2>1. /\ inKernel' = TRUE /\ configured' \in BOOLEAN /\ isLoad' \in BOOLEAN /\ notified' \subseteq Devices
        /\ storage'.full \in BOOLEAN /\ storage'.entries = entries /\ draws' = draws
        /\ UNCHANGED <<worldVars, serviceVars>>
    BY DEF TrackingRemove, moduleVars, TypeOK, entries
  <2>2. QED
    BY <1>2, <1>9, <2>1, HoldKeepsInv


-----------------------------------------------------------------------------
(* Steps in which the map of a tracker changes, or the world.              *)

LEMMA GoodKeepsInv ==
  ASSUME Good(registers, tracker, maps, storage.entries, draws)', Sessions',
         inKernel' \in BOOLEAN, configured' \in BOOLEAN, isLoad' \in BOOLEAN, notified' \subseteq Devices,
         storage'.full \in BOOLEAN, mounted' \subseteq Devices, superblock' \in [Devices -> Crc],
         changed' \subseteq Devices, image' \in [Devices -> {"none", "clean", "changed"}],
         known' \in [Devices -> [gen : Generations, number : Numbers, again : BOOLEAN]]
  PROVE  TypeOK' /\ IInv'
<1>1. Holders(registers', tracker', maps', draws') /\ storage'.entries \in Seq(EntrySet \cup {Error})
  BY DEF Good, Holders
<1>2. TypeOK'
  BY <1>1, GoodTypes DEF TypeOK
<1>3. QED
  BY <1>2 DEF IInv

(* The map of a tracker may only get generations that are new.             *)
LEMMA SwitchKeepsOrder ==
  ASSUME TypeOK, IInv, NEW d \in Devices, tracker[d] # None, NEW new \in Map,
         maps' = [maps EXCEPT ![tracker[d]] = new],
         UNCHANGED <<registers, tracker, storage, worldVars, known>>,
         draws' \in draws .. MaxDraws,
         Gens(new) \subseteq Gens(maps[tracker[d]]) \cup draws + 1 .. draws',
         new.again = maps[tracker[d]].again,
         \A e \in Devices : Older(new, e),
         new.numActive # 1 => new.numPrevious < new.numActive
  PROVE  /\ Holders(registers, tracker, maps, draws)' /\ Checksums(registers, storage.entries)'
         /\ Apart(maps, storage.entries, draws)' /\ InOrder(maps, storage.entries)'
         /\ storage'.entries \in Seq(EntrySet \cup {Error})
         /\ maps'[tracker[d]] = new
         /\ \A id \in DOMAIN maps : id # tracker[d] => maps'[id] = maps[id]
<1>1. UNCHANGED <<registers, tracker, storage, mounted, superblock, known>>
  BY DEF worldVars
<1>2. /\ Holders(registers, tracker, maps, draws) /\ storage.entries \in Seq(EntrySet \cup {Error})
      /\ Checksums(registers, storage.entries) /\ Apart(maps, storage.entries, draws)
      /\ InOrder(maps, storage.entries)
  BY DEF IInv, Good
<1>3. /\ tracker[d] \in DOMAIN maps /\ DOMAIN maps' = DOMAIN maps /\ maps'[tracker[d]] = new
      /\ \A id \in DOMAIN maps : id # tracker[d] => maps'[id] = maps[id]
  BY <1>2 DEF Holders
<1>4. draws \in Int /\ draws' \in Int /\ draws >= 0 /\ draws <= draws' /\ draws' \in Generations
  BY PersistentAssumption DEF TypeOK, Generations
<1>5. Holders(registers, tracker, maps, draws)'
  <2>1. DOMAIN maps \subseteq 1 .. draws'
    BY <1>2, <1>4 DEF Holders
  <2>2. \A id \in DOMAIN maps : maps'[id] \in Map
    BY <1>2, <1>3 DEF Holders
  <2>3. QED
    BY <1>1, <1>2, <1>3, <1>4, <2>1, <2>2 DEF Holders
<1>6. Checksums(registers, storage.entries)'
  BY <1>1, <1>2 DEF Checksums, Sealed, Untouched
<1>7. Apart(maps, storage.entries, draws)'
  <2>1. \A id \in DOMAIN maps : Gens(maps'[id]) \subseteq Gens(maps[id]) \cup draws + 1 .. draws'
    BY <1>3
  <2>2. \A id \in DOMAIN maps : Gens(maps[id]) \subseteq 1 .. draws
    BY <1>2 DEF Apart
  <2>3. \A id \in DOMAIN maps : id # tracker[d] => Gens(maps'[id]) \subseteq 1 .. draws
    BY <1>3, <2>2
  <2>4. \A g \in 1 .. draws : g \notin draws + 1 .. draws'
    BY <1>4
  <2>a. \A id \in DOMAIN maps : maps'[id].again = maps[id].again
    BY <1>3
  <2>5. \A id, other \in DOMAIN maps :
          ~maps'[id].again /\ ~maps'[other].again /\ Gens(maps'[id]) \cap Gens(maps'[other]) # {}
            => id = other
    <3>1. SUFFICES ASSUME NEW id \in DOMAIN maps, NEW other \in DOMAIN maps, id # other,
                          ~maps'[id].again, ~maps'[other].again,
                          NEW g \in Gens(maps'[id]), g \in Gens(maps'[other])
                   PROVE  FALSE
      OBVIOUS
    <3>2. g \in 1 .. draws
      BY <1>3, <2>3, <3>1
    <3>3. g \in Gens(maps[id]) /\ g \in Gens(maps[other])
      BY <2>1, <2>4, <3>1, <3>2
    <3>4. QED
      BY <1>2, <2>a, <3>1, <3>3 DEF Apart
  <2>6. \A id \in DOMAIN maps : Gens(maps'[id]) \subseteq 1 .. draws'
    BY <1>4, <2>1, <2>2
  <2>7. \A i \in DOMAIN storage.entries : storage.entries[i] # Error =>
          /\ storage.entries[i].genActive \in 1 .. draws'
          /\ ~storage.entries[i].again =>
               \A id \in DOMAIN maps : ~maps'[id].again => storage.entries[i].genActive \notin Gens(maps'[id])
    <3>1. SUFFICES ASSUME NEW i \in DOMAIN storage.entries, storage.entries[i] # Error
                   PROVE  /\ storage.entries[i].genActive \in 1 .. draws'
                          /\ ~storage.entries[i].again =>
                               \A id \in DOMAIN maps :
                                 ~maps'[id].again => storage.entries[i].genActive \notin Gens(maps'[id])
      OBVIOUS
    <3>2. /\ storage.entries[i].genActive \in 1 .. draws
          /\ ~storage.entries[i].again =>
               \A id \in DOMAIN maps : ~maps[id].again => storage.entries[i].genActive \notin Gens(maps[id])
      BY <1>2, <3>1 DEF Apart
    <3>3. QED
      BY <1>4, <2>a, <2>1, <2>4, <3>2
  <2>8. \A e \in Devices : known[e].gen \in 0 .. draws'
    BY <1>2, <1>4 DEF Apart
  <2>9. \A i, j \in DOMAIN storage.entries :
          /\ storage.entries[i] # Error /\ storage.entries[j] # Error
          /\ ~storage.entries[i].again /\ ~storage.entries[j].again
          /\ storage.entries[j].genActive = storage.entries[i].genActive
          => i = j
    BY <1>2 DEF Apart
  <2>10. QED
    BY <1>1, <1>3, <2>5, <2>6, <2>7, <2>8, <2>9 DEF Apart, Gens
<1>8. InOrder(maps, storage.entries)'
  <2>1. \A id \in DOMAIN maps : /\ \A e \in Devices : Older(maps'[id], e)
                                /\ maps'[id].numActive # 1 => maps'[id].numPrevious < maps'[id].numActive
    BY <1>2, <1>3 DEF InOrder
  <2>2. QED
    BY <1>1, <1>2, <1>3, <2>1 DEF InOrder, Older, NextGen, Clean
<1>9. QED
  BY <1>1, <1>2, <1>3, <1>5, <1>6, <1>7, <1>8

(* What a switch does to a map: the numbers go on, or they start anew in a *)
(* generation of their own.                                                *)
LEMMA SwitchEffect ==
  ASSUME NEW map \in Map, NEW n \in Generations, draws = n, Gens(map) \subseteq 1 .. n,
         IF map.numActive = MaxNumber THEN draws' = n + 1 ELSE draws' = n, draws' <= MaxDraws,
         \A e \in Devices : known[e].gen \in 0 .. n /\ known[e].number \in Numbers,
         \A e \in Devices : Older(map, e)
  PROVE  LET new == Switched(map) IN
         /\ new \in Map /\ draws' \in n .. MaxDraws
         /\ new.active = map.active /\ new.again = map.again
         /\ new.genPrevious = NextGen(map) /\ new.read = map.write
         /\ Gens(new) \subseteq Gens(map) \cup n + 1 .. draws'
         /\ \A e \in Devices : Older(new, e)
         /\ new.numActive # 1 => new.numPrevious < new.numActive /\ new.read <= new.write
         /\ new.numActive = 1 => new.genPrevious # new.genActive
<1> DEFINE new == Switched(map)
<1>1. /\ map.genActive \in 1 .. n /\ map.genPrevious \in 1 .. n /\ map.numActive \in 1 .. MaxNumber
      /\ map.numPrevious \in Numbers /\ map.write \in Numbers /\ map.read \in Numbers /\ map.active \in BOOLEAN
      /\ map.again \in BOOLEAN
  BY DEF Gens, Map
<1>2. MaxNumber \in Int /\ MaxNumber >= 1 /\ MaxDraws \in Int /\ n \in Int /\ n >= 0
  BY PersistentAssumption DEF Generations
<1>3. CASE map.numActive = MaxNumber
  <2>1. new = [genActive |-> n + 1, genPrevious |-> NextGen(map), numActive |-> 1,
               numPrevious |-> MaxNumber, write |-> 0, read |-> map.write, active |-> map.active,
               again |-> map.again]
    BY <1>3 DEF Switched, NextGen, Map
  <2> HIDE DEF new
  <2>2. draws' = n + 1 /\ NextGen(map) \in 1 .. n
    BY <1>1, <1>3 DEF NextGen
  <2>3. n + 1 \in Generations /\ MaxNumber \in Numbers /\ 0 \in Numbers /\ 1 \in 1 .. MaxNumber
    BY <1>2, <2>2 DEF Generations, Numbers
  <2>4. NextGen(map) \in Generations
    BY <1>2, <2>2 DEF Generations
  <2>5. new \in Map
    BY <1>1, <2>1, <2>3, <2>4 DEF Map
  <2>6. Gens(new) \subseteq Gens(map) \cup n + 1 .. draws'
    BY <1>2, <2>1, <2>2 DEF Gens, NextGen
  <2>7. NextGen(map) # n + 1 /\ \A e \in Devices : known[e].gen # n + 1
    BY <1>2, <2>2
  <2>8. \A e \in Devices : Older(new, e)
    BY <2>1, <2>7 DEF Older, NextGen, Clean
  <2>9. /\ draws' \in n .. MaxDraws /\ new.active = map.active /\ new.again = map.again
        /\ new.genPrevious = NextGen(map)
        /\ new.read = map.write /\ new.numActive = 1 /\ new.genPrevious # new.genActive
    BY <1>2, <2>1, <2>2, <2>7
  <2>10. QED
    BY <2>5, <2>6, <2>8, <2>9 DEF new
<1>4. CASE map.numActive # MaxNumber
  <2>1. new = [genActive |-> map.genActive, genPrevious |-> NextGen(map), numActive |-> map.numActive + 1,
               numPrevious |-> map.numActive, write |-> map.write, read |-> map.write, active |-> map.active,
               again |-> map.again]
    BY <1>4 DEF Switched, NextGen, Map
  <2> HIDE DEF new
  <2>2. draws' = n /\ NextGen(map) \in Gens(map) /\ NextGen(map) \in 1 .. n
    BY <1>1, <1>4 DEF NextGen, Gens
  <2>3. map.numActive + 1 \in 1 .. MaxNumber /\ map.numActive \in Numbers /\ map.numActive + 1 # 1
    BY <1>1, <1>2, <1>4 DEF Numbers
  <2>4. NextGen(map) \in Generations /\ map.genActive \in Generations
    BY <1>1, <1>2, <2>2 DEF Generations
  <2>5. new \in Map
    BY <1>1, <2>1, <2>3, <2>4 DEF Map
  <2>6. Gens(new) \subseteq Gens(map) \cup n + 1 .. draws'
    BY <2>1, <2>2 DEF Gens
  <2>7. NextGen(new) = NextGen(map)
    BY <2>1, <2>3 DEF NextGen
  <2>8. ASSUME NEW e \in Devices, Clean(new, e) PROVE Older(new, e)
    <3>1. NextGen(new) = known[e].gen => known[e].number < map.numActive
      BY <2>1, <2>7, <2>8 DEF Older, Clean
    <3>2. known[e].number \in Int /\ map.numActive \in Int
      BY <1>1 DEF Numbers
    <3>3. NextGen(new) = known[e].gen => known[e].number < map.numActive + 1
      BY <3>1, <3>2
    <3>4. QED
      BY <2>1, <2>3, <3>3 DEF Older, Clean
  <2>9. map.write <= map.write /\ map.numActive < map.numActive + 1
    BY <1>1 DEF Numbers
  <2>10. /\ draws' \in n .. MaxDraws /\ new.active = map.active /\ new.again = map.again
         /\ new.genPrevious = NextGen(map)
         /\ new.read = map.write /\ new.numActive # 1 /\ new.numPrevious < new.numActive
         /\ new.read <= new.write
    BY <1>2, <2>1, <2>2, <2>3, <2>9
  <2>11. QED
    BY <2>5, <2>6, <2>8, <2>10 DEF new, Older
<1>5. QED
  BY <1>3, <1>4

LEMMA TakeSnapshotKeepsInv ==
  ASSUME TypeOK, IInv, NEW d \in Devices, TakeSnapshot(d)
  PROVE  TypeOK' /\ IInv'
<1> DEFINE old == maps[tracker[d]]
           new == Switched(old)
<1>1. /\ tracker[d] # None /\ old.active /\ image[d] = "none"
      /\ IF old.numActive = MaxNumber THEN draws' = draws + 1 ELSE draws' = draws
      /\ draws' <= MaxDraws /\ maps' = [maps EXCEPT ![tracker[d]] = new]
      /\ image' = [image EXCEPT ![d] = IF d \in changed THEN "changed" ELSE "clean"]
      /\ changed' = changed \ {d}
      /\ UNCHANGED <<inKernel, configured, isLoad, notified, registers, tracker, storage, mounted, superblock, known>>
  BY DEF TakeSnapshot, Marking, moduleVars, worldVars
<1>2. /\ Holders(registers, tracker, maps, draws) /\ Apart(maps, storage.entries, draws)
      /\ InOrder(maps, storage.entries) /\ Reporting(registers, tracker, maps) /\ Images(tracker, maps)
      /\ registers \in Seq(RegisterSet)
  BY DEF IInv, Good, Holders
<1>3. tracker[d] \in DOMAIN maps /\ old \in Map /\ Gens(old) \subseteq 1 .. draws /\ draws \in Generations
  BY <1>1, <1>2 DEF Holders, Apart
<1>4. /\ \A e \in Devices : known[e].gen \in 0 .. draws /\ known[e].number \in Numbers
      /\ \A e \in Devices : Older(old, e)
  BY <1>2, <1>3 DEF Apart, InOrder, TypeOK
<1>5. /\ new \in Map /\ draws' \in draws .. MaxDraws
      /\ new.active = old.active /\ new.again = old.again
      /\ new.genPrevious = NextGen(old) /\ new.read = old.write
      /\ Gens(new) \subseteq Gens(old) \cup draws + 1 .. draws'
      /\ \A e \in Devices : Older(new, e)
      /\ new.numActive # 1 => new.numPrevious < new.numActive /\ new.read <= new.write
      /\ new.numActive = 1 => new.genPrevious # new.genActive
  BY <1>1, <1>3, <1>4, SwitchEffect
<1> HIDE DEF new
<1>6. /\ Holders(registers, tracker, maps, draws)' /\ Checksums(registers, storage.entries)'
      /\ Apart(maps, storage.entries, draws)' /\ InOrder(maps, storage.entries)'
      /\ storage'.entries \in Seq(EntrySet \cup {Error})
      /\ maps'[tracker[d]] = new
      /\ \A id \in DOMAIN maps : id # tracker[d] => maps'[id] = maps[id]
  BY <1>1, <1>5, SwitchKeepsOrder DEF worldVars
<1>7. /\ \A e \in Devices : e # d /\ tracker[e] # None =>
           tracker[e] \in DOMAIN maps /\ tracker[e] # tracker[d] /\ maps'[tracker[e]] = maps[tracker[e]]
      /\ \A e \in Devices : e # d => image'[e] = image[e] /\ (e \in changed' <=> e \in changed)
      /\ d \notin changed' /\ image'[d] # "none" /\ (image'[d] = "changed" => d \in changed)
  BY <1>1, <1>2, <1>6 DEF Holders, TypeOK
<1>8. Reporting(registers, tracker, maps)'
  <2>1. ASSUME NEW e \in Devices, tracker[e] # None, e \in changed'
        PROVE  Reports(maps[tracker[e]], e)'
    <3>1. e # d /\ Reports(maps[tracker[e]], e)
      BY <1>2, <1>7, <2>1 DEF Reporting
    <3>2. QED
      BY <1>1, <1>7, <2>1, <3>1 DEF Reports, NextGen, Clean
  <2>2. ASSUME NEW i \in DOMAIN registers, Untouched(registers[i].crc, registers[i].dev),
               tracker[registers[i].dev] # registers[i].map,
               registers[i].dev \in changed' \/ image'[registers[i].dev] = "changed"
        PROVE  Reports(maps[registers[i].map], registers[i].dev)'
    <3>1. registers[i].dev \in Devices /\ registers[i].map \in DOMAIN maps
      BY <1>2, RegisterTypes DEF Holders
    <3>2. registers[i].map # tracker[d]
      BY <1>1, <1>2, <2>2 DEF Holders
    <3>3. maps'[registers[i].map] = maps[registers[i].map]
      BY <1>6, <3>1, <3>2
    <3>4. registers[i].dev \in changed \/ image[registers[i].dev] = "changed"
      BY <1>7, <2>2, <3>1
    <3>5. Reports(maps[registers[i].map], registers[i].dev)
      BY <1>2, <2>2, <3>4 DEF Reporting
    <3>6. QED
      BY <1>1, <3>3, <3>5 DEF Reports, NextGen, Clean
  <2>3. QED
    BY <1>1, <2>1, <2>2 DEF Reporting, Untouched
<1>9. Images(tracker, maps)'
  <2>1. SUFFICES ASSUME NEW e \in Devices, image'[e] # "none"
                 PROVE  tracker[e] # None /\ ImageReports(maps[tracker[e]], e)'
    BY <1>1 DEF Images
  <2>2. CASE e # d
    <3>1. tracker[e] # None /\ ImageReports(maps[tracker[e]], e)
      BY <1>2, <1>7, <2>1, <2>2 DEF Images
    <3>2. QED
      BY <1>1, <1>7, <2>2, <3>1 DEF ImageReports, NextGen, Clean
  <2>3. CASE e = d
    <3>1. image'[d] = "changed" => Reports(old, d)
      BY <1>1, <1>2, <1>7 DEF Reporting
    <3>2. image'[d] = "changed" /\ Clean(new, d) /\ new.genPrevious = known[d].gen =>
            new.read > known[d].number
      BY <1>1, <1>5, <3>1 DEF Reports, Clean
    <3>3. new.numActive # 1 => new.read <= new.write
      BY <1>5
    <3>4. QED
      BY <1>1, <1>5, <1>6, <1>7, <2>3, <3>2, <3>3 DEF ImageReports, Clean
  <2>4. QED
    BY <2>2, <2>3
<1>10. Good(registers, tracker, maps, storage.entries, draws)'
  BY <1>6, <1>8, <1>9 DEF Good
<1>11. inKernel
  BY <1>1 DEF IInv, Sessions, Untracked
<1>12. QED
  <2>1. /\ changed' \subseteq Devices /\ image' \in [Devices -> {"none", "clean", "changed"}] /\ Sessions'
        /\ inKernel' \in BOOLEAN /\ configured' \in BOOLEAN /\ isLoad' \in BOOLEAN /\ notified' \subseteq Devices
        /\ storage'.full \in BOOLEAN /\ mounted' \subseteq Devices /\ superblock' \in [Devices -> Crc]
        /\ known' \in [Devices -> [gen : Generations, number : Numbers, again : BOOLEAN]]
    BY <1>1, <1>11 DEF TypeOK, Sessions
  <2>2. QED
    BY <1>10, <2>1, GoodKeepsInv

(* A write marks the map, or puts it out of action.                        *)
LEMMA WriteEffect ==
  ASSUME NEW map \in Map, NEW resized \in BOOLEAN
  PROVE  LET new == IF resized THEN [map EXCEPT !.active = FALSE] ELSE Marked(map) IN
         /\ new \in Map /\ Gens(new) = Gens(map) /\ new.numActive = map.numActive
         /\ new.genActive = map.genActive /\ new.genPrevious = map.genPrevious
         /\ new.numPrevious = map.numPrevious /\ new.read = map.read /\ new.again = map.again
         /\ map.write <= new.write /\ (new.active => map.numActive <= new.write)
<1> DEFINE new == IF resized THEN [map EXCEPT !.active = FALSE] ELSE Marked(map)
<1>1. map.numActive \in 1 .. MaxNumber /\ map.numActive \in Numbers /\ map.write \in Numbers
  BY DEF Map, Numbers
<1>2. map.numActive \in Int /\ map.write \in Int
  BY <1>1 DEF Numbers
<1>3. CASE resized
  <2>1. new = [map EXCEPT !.active = FALSE]
    BY <1>3
  <2> HIDE DEF new
  <2>2. /\ new \in Map /\ new.numActive = map.numActive /\ ~new.active
        /\ new.genActive = map.genActive /\ new.genPrevious = map.genPrevious
        /\ new.numPrevious = map.numPrevious /\ new.read = map.read /\ new.write = map.write
        /\ new.again = map.again
    BY <2>1 DEF Map
  <2>3. Gens(new) = Gens(map) /\ map.write <= new.write
    BY <1>2, <2>2 DEF Gens
  <2>4. QED
    BY <2>2, <2>3 DEF new
<1>4. CASE ~resized
  <2>1. PICK w \in {map.write, map.numActive} : map.write <= w /\ map.numActive <= w /\ new = [map EXCEPT !.write = w]
    BY <1>2, <1>4 DEF Marked
  <2>2. w \in Numbers
    BY <1>1, <2>1
  <2> HIDE DEF new
  <2>3. /\ new \in Map /\ Gens(new) = Gens(map) /\ new.numActive = map.numActive
        /\ new.genActive = map.genActive /\ new.genPrevious = map.genPrevious
        /\ new.numPrevious = map.numPrevious /\ new.read = map.read /\ new.write = w
        /\ new.again = map.again
    BY <2>1, <2>2 DEF Map, Gens
  <2>4. QED
    BY <2>1, <2>3 DEF new
<1>5. QED
  BY <1>3, <1>4

LEMMA WriteKeepsOrder ==
  ASSUME TypeOK, IInv, NEW d \in Devices, NEW resized \in BOOLEAN, Write(d, resized)
  PROVE  /\ Holders(registers, tracker, maps, draws)' /\ Checksums(registers, storage.entries)'
         /\ Apart(maps, storage.entries, draws)' /\ InOrder(maps, storage.entries)'
         /\ storage'.entries \in Seq(EntrySet \cup {Error})
         /\ \A id \in DOMAIN maps : id # tracker[d] => maps'[id] = maps[id]
         /\ tracker[d] # None =>
              LET old == maps[tracker[d]]
                  new == maps'[tracker[d]]
              IN /\ Older(old, d) /\ old \in Map /\ new \in Map
                 /\ new.genActive = old.genActive /\ new.genPrevious = old.genPrevious
                 /\ new.numActive = old.numActive /\ new.numPrevious = old.numPrevious
                 /\ new.read = old.read /\ new.again = old.again /\ old.write <= new.write
                 /\ new.active => old.numActive <= new.write
                 /\ old.numActive # 1 => old.numPrevious < old.numActive
<1> DEFINE old == maps[tracker[d]]
           new == IF resized THEN [old EXCEPT !.active = FALSE] ELSE Marked(old)
<1>1. /\ UNCHANGED <<registers, tracker, draws, storage, mounted, superblock, image, known>>
      /\ IF Marking(d) THEN maps' = [maps EXCEPT ![tracker[d]] = new] ELSE maps' = maps
  BY DEF Write, worldVars
<1>2. /\ Holders(registers, tracker, maps, draws) /\ storage.entries \in Seq(EntrySet \cup {Error})
      /\ Checksums(registers, storage.entries) /\ Apart(maps, storage.entries, draws)
      /\ InOrder(maps, storage.entries)
  BY DEF IInv, Good
<1>3. ASSUME tracker[d] # None
      PROVE  /\ tracker[d] \in DOMAIN maps /\ old \in Map /\ Older(old, d)
             /\ old.numActive # 1 => old.numPrevious < old.numActive
  BY <1>2, <1>3 DEF Holders, InOrder
<1>4. CASE Marking(d)
  <2>1. tracker[d] # None /\ maps' = [maps EXCEPT ![tracker[d]] = new]
    BY <1>1, <1>4 DEF Marking
  <2>2. /\ new \in Map /\ Gens(new) = Gens(old) /\ new.numActive = old.numActive
        /\ new.genActive = old.genActive /\ new.genPrevious = old.genPrevious
        /\ new.numPrevious = old.numPrevious /\ new.read = old.read /\ new.again = old.again
        /\ old.write <= new.write /\ (new.active => old.numActive <= new.write)
    BY <1>3, <2>1, WriteEffect
  <2> HIDE DEF new, old
  <2>3. \A e \in Devices : Older(new, e)
    <3>1. \A e \in Devices : Older(old, e)
      BY <1>2, <1>3, <2>1 DEF InOrder, old
    <3>2. QED
      BY <2>2, <3>1 DEF Older, NextGen, Clean
  <2>4. new.numActive # 1 => new.numPrevious < new.numActive
    BY <1>3, <2>1, <2>2
  <2>5. draws' = draws /\ draws \in draws .. MaxDraws
    BY <1>1, PersistentAssumption DEF TypeOK, Generations
  <2>6. /\ Holders(registers, tracker, maps, draws)' /\ Checksums(registers, storage.entries)'
        /\ Apart(maps, storage.entries, draws)' /\ InOrder(maps, storage.entries)'
        /\ storage'.entries \in Seq(EntrySet \cup {Error}) /\ maps'[tracker[d]] = new
        /\ \A id \in DOMAIN maps : id # tracker[d] => maps'[id] = maps[id]
    BY <1>1, <2>1, <2>2, <2>3, <2>4, <2>5, SwitchKeepsOrder DEF worldVars, old
  <2>7. QED
    BY <1>3, <2>2, <2>6 DEF old
<1>5. CASE ~Marking(d)
  <2>1. maps' = maps
    BY <1>1, <1>5
  <2>2. Holders(registers, tracker, maps, draws)' /\ Checksums(registers, storage.entries)'
    BY <1>1, <1>2, <2>1 DEF Holders, Checksums, Sealed, Untouched
  <2>3. Apart(maps, storage.entries, draws)' /\ InOrder(maps, storage.entries)'
    BY <1>1, <1>2, <2>1 DEF Apart, Gens, InOrder, Older, NextGen, Clean
  <2>4. tracker[d] # None => old.write <= old.write /\ ~old.active
    BY <1>3, <1>5 DEF Marking, Map, Numbers
  <2>5. QED
    BY <1>1, <1>2, <1>3, <2>1, <2>2, <2>3, <2>4
<1>6. QED
  BY <1>4, <1>5

LEMMA WriteKeepsInv ==
  ASSUME TypeOK, IInv, NEW d \in Devices, NEW resized \in BOOLEAN, Write(d, resized)
  PROVE  TypeOK' /\ IInv'
<1> DEFINE old == maps[tracker[d]]
           new == maps'[tracker[d]]
<1>1. /\ d \in mounted /\ changed' = changed \cup {d}
      /\ UNCHANGED <<inKernel, configured, isLoad, notified, registers, tracker, draws, storage, mounted,
                     superblock, image, known>>
  BY DEF Write, worldVars, moduleVars
<1>2. /\ Holders(registers, tracker, maps, draws) /\ Reporting(registers, tracker, maps) /\ Images(tracker, maps)
      /\ registers \in Seq(RegisterSet) /\ Checksums(registers, storage.entries)
  BY DEF IInv, Good, Holders
<1>3. /\ Holders(registers, tracker, maps, draws)' /\ Checksums(registers, storage.entries)'
      /\ Apart(maps, storage.entries, draws)' /\ InOrder(maps, storage.entries)'
      /\ storage'.entries \in Seq(EntrySet \cup {Error})
      /\ \A id \in DOMAIN maps : id # tracker[d] => maps'[id] = maps[id]
  BY WriteKeepsOrder
<1>4. tracker[d] # None =>
        /\ Older(old, d) /\ old \in Map /\ new \in Map
        /\ new.genActive = old.genActive /\ new.genPrevious = old.genPrevious
        /\ new.numActive = old.numActive /\ new.numPrevious = old.numPrevious
        /\ new.read = old.read /\ new.again = old.again /\ old.write <= new.write
        /\ new.active => old.numActive <= new.write
        /\ old.numActive # 1 => old.numPrevious < old.numActive
  BY WriteKeepsOrder
<1>5. \A e \in Devices : e # d /\ tracker[e] # None =>
        /\ tracker[e] \in DOMAIN maps /\ tracker[e] # tracker[d] /\ maps'[tracker[e]] = maps[tracker[e]]
        /\ e \in changed' <=> e \in changed
  BY <1>1, <1>2, <1>3 DEF Holders
<1>6. tracker[d] # None =>
        /\ new.numActive \in Int /\ new.numPrevious \in Int /\ new.write \in Int /\ old.write \in Int
        /\ new.read \in Int /\ known[d].number \in Int
  BY <1>4 DEF Map, Numbers, TypeOK
<1> HIDE DEF old, new
<1>7. Reporting(registers, tracker, maps)'
  <2>1. ASSUME NEW e \in Devices, tracker[e] # None, e \in changed'
        PROVE  Reports(maps[tracker[e]], e)'
    <3>1. CASE e # d
      <4>1. Reports(maps[tracker[e]], e)
        BY <1>2, <1>5, <2>1, <3>1 DEF Reporting
      <4>2. QED
        BY <1>1, <1>5, <2>1, <3>1, <4>1 DEF Reports, NextGen, Clean
    <3>2. CASE e = d
      <4>1. Clean(new, d) /\ new.active /\ NextGen(new) = known[d].gen =>
              known[d].number < new.numActive /\ new.numActive <= new.write
        BY <1>4, <2>1, <3>2 DEF Older, NextGen, Clean
      <4>2. Clean(new, d) /\ new.active /\ NextGen(new) = known[d].gen => new.write > known[d].number
        BY <1>6, <2>1, <3>2, <4>1
      <4>3. QED
        BY <1>1, <3>2, <4>2 DEF Reports, NextGen, new, Clean
    <3>3. QED
      BY <3>1, <3>2
  <2>2. ASSUME NEW i \in DOMAIN registers, Untouched(registers[i].crc, registers[i].dev),
               tracker[registers[i].dev] # registers[i].map,
               registers[i].dev \in changed' \/ image[registers[i].dev] = "changed"
        PROVE  Reports(maps[registers[i].map], registers[i].dev)'
    <3>1. registers[i].dev \in Devices /\ registers[i].map \in DOMAIN maps /\ registers[i].dev # d
      BY <1>1, <1>2, <2>2, RegisterTypes DEF Holders, Checksums, Sealed
    <3>2. registers[i].map # tracker[d]
      BY <1>1, <1>2, <3>1 DEF Holders
    <3>3. maps'[registers[i].map] = maps[registers[i].map]
      BY <1>3, <3>1, <3>2
    <3>4. Reports(maps[registers[i].map], registers[i].dev)
      BY <1>1, <1>2, <2>2, <3>1 DEF Reporting
    <3>5. QED
      BY <1>1, <3>3, <3>4 DEF Reports, NextGen, Clean
  <2>3. QED
    BY <1>1, <2>1, <2>2 DEF Reporting, Untouched
<1>8. Images(tracker, maps)'
  <2>1. SUFFICES ASSUME NEW e \in Devices, image[e] # "none"
                 PROVE  tracker[e] # None /\ ImageReports(maps[tracker[e]], e)'
    BY <1>1 DEF Images
  <2>2. tracker[e] # None /\ ImageReports(maps[tracker[e]], e)
    BY <1>2, <2>1 DEF Images
  <2>3. CASE e # d
    BY <1>1, <1>5, <2>2, <2>3 DEF ImageReports, NextGen, Clean
  <2>4. CASE e = d
    <3>1. ImageReports(old, d) /\ tracker[d] # None
      BY <2>2, <2>4 DEF old
    <3>2. new.numActive = 1 => new.genPrevious # new.genActive
      BY <1>4, <3>1 DEF ImageReports, Clean
    <3>3. new.numActive # 1 => new.read <= old.write /\ old.write <= new.write
      BY <1>4, <3>1 DEF ImageReports, Clean
    <3>4. new.numActive # 1 => new.read <= new.write
      BY <1>6, <3>1, <3>3
    <3>5. new.active /\ NextGen(new) = new.genPrevious => new.numPrevious < new.numActive /\ new.numActive <= new.write
      BY <1>4, <3>1, <3>2 DEF NextGen
    <3>6. new.active /\ NextGen(new) = new.genPrevious => new.write > new.numPrevious
      BY <1>6, <3>1, <3>5
    <3>7. image[d] = "changed" /\ Clean(new, d) /\ new.genPrevious = known[d].gen =>
            new.read > known[d].number
      BY <1>4, <3>1 DEF ImageReports, Clean
    <3>8. QED
      BY <1>1, <2>4, <3>1, <3>2, <3>4, <3>6, <3>7 DEF ImageReports, NextGen, new, Clean
  <2>5. QED
    BY <2>3, <2>4
<1>9. Good(registers, tracker, maps, storage.entries, draws)'
  BY <1>3, <1>7, <1>8 DEF Good
<1>10. QED
  <2>1. /\ changed' \subseteq Devices /\ image' \in [Devices -> {"none", "clean", "changed"}] /\ Sessions'
        /\ inKernel' \in BOOLEAN /\ configured' \in BOOLEAN /\ isLoad' \in BOOLEAN /\ notified' \subseteq Devices
        /\ storage'.full \in BOOLEAN /\ mounted' \subseteq Devices /\ superblock' \in [Devices -> Crc]
        /\ known' \in [Devices -> [gen : Generations, number : Numbers, again : BOOLEAN]]
    BY <1>1 DEF TypeOK, IInv, Sessions, Untracked
  <2>2. QED
    BY <1>9, <2>1, GoodKeepsInv

(* A file system is mounted, and its checksum is another, or unmounted.    *)
LEMMA WorldKeepsInv ==
  ASSUME TypeOK, IInv, UNCHANGED <<moduleVars, registerVars, storage, serviceVars>>,
         mounted' \subseteq Devices, superblock' \in [Devices -> Crc],
         \A e \in Devices : /\ superblock[e] <= superblock'[e]
                            /\ superblock'[e] = superblock[e] /\ e \in mounted' => e \in mounted
  PROVE  TypeOK' /\ IInv'
<1> DEFINE entries == storage.entries
<1>1. UNCHANGED <<inKernel, configured, isLoad, notified, registers, maps, tracker, draws, storage, changed,
                  image, known>>
  BY DEF moduleVars, registerVars, serviceVars
<1>2. /\ Holders(registers, tracker, maps, draws) /\ entries \in Seq(EntrySet \cup {Error})
      /\ Checksums(registers, entries) /\ Apart(maps, entries, draws) /\ InOrder(maps, entries)
      /\ Reporting(registers, tracker, maps) /\ Images(tracker, maps) /\ registers \in Seq(RegisterSet)
  BY DEF IInv, Good, Holders
<1>3. ASSUME NEW e \in Devices, NEW crc \in Crc \cup {NoCrc}, Sealed(crc, e)
      PROVE  Sealed(crc, e)' /\ (Untouched(crc, e)' => Untouched(crc, e))
  <2>1. crc \in Int /\ superblock[e] \in Int /\ superblock'[e] \in Int
    BY PersistentAssumption DEF Crc, NoCrc, TypeOK
  <2>2. crc <= superblock[e] /\ superblock[e] <= superblock'[e] /\ (crc = superblock[e] => e \notin mounted)
    BY <1>3 DEF Sealed, Untouched
  <2>3. crc <= superblock'[e] /\ (crc = superblock'[e] => superblock'[e] = superblock[e] /\ crc = superblock[e])
    BY <2>1, <2>2
  <2>4. crc = superblock'[e] => e \notin mounted'
    BY <2>2, <2>3
  <2>5. QED
    BY <2>3, <2>4 DEF Sealed, Untouched
<1>4. \A i \in DOMAIN registers :
        /\ Sealed(registers[i].crc, registers[i].dev)'
        /\ Untouched(registers[i].crc, registers[i].dev)' => Untouched(registers[i].crc, registers[i].dev)
  <2>1. ASSUME NEW i \in DOMAIN registers
        PROVE  /\ Sealed(registers[i].crc, registers[i].dev)'
               /\ Untouched(registers[i].crc, registers[i].dev)' => Untouched(registers[i].crc, registers[i].dev)
    <3>1. /\ registers[i].dev \in Devices /\ registers[i].crc \in Crc \cup {NoCrc}
          /\ Sealed(registers[i].crc, registers[i].dev)
      BY <1>2, RegisterTypes DEF Checksums
    <3>2. QED
      BY <1>1, <1>3, <3>1 DEF Sealed, Untouched
  <2>2. QED
    BY <2>1
<1>5. \A i \in DOMAIN entries : entries[i] # Error => Sealed(entries[i].crc, entries[i].dev)'
  <2>1. ASSUME NEW i \in DOMAIN entries, entries[i] # Error PROVE Sealed(entries[i].crc, entries[i].dev)'
    <3>1. entries[i] \in EntrySet
      BY <1>2, <2>1, ElementOfSeq, LenProperties
    <3>2. entries[i].dev \in Devices /\ entries[i].crc \in Crc \cup {NoCrc} /\ Sealed(entries[i].crc, entries[i].dev)
      BY <1>2, <2>1, <3>1 DEF Checksums, EntrySet
    <3>3. QED
      BY <1>1, <1>3, <3>2 DEF Sealed, Untouched
  <2>2. QED
    BY <2>1
<1>6. Checksums(registers, storage.entries)'
  <2>1. \A i \in DOMAIN registers : Sealed(registers[i].crc, registers[i].dev)'
    BY <1>4
  <2>2. QED
    BY <1>1, <1>5, <2>1 DEF Checksums, entries
<1>7. Reporting(registers, tracker, maps)'
  BY <1>1, <1>2, <1>4 DEF Reporting, Reports, NextGen, Clean
<1>8. Holders(registers, tracker, maps, draws)' /\ Apart(maps, storage.entries, draws)'
  BY <1>1, <1>2 DEF Holders, Apart, Gens
<1>9. InOrder(maps, storage.entries)' /\ Images(tracker, maps)'
  BY <1>1, <1>2 DEF InOrder, Older, NextGen, Images, ImageReports, Clean
<1>10. Good(registers, tracker, maps, storage.entries, draws)'
  BY <1>1, <1>2, <1>6, <1>7, <1>8, <1>9 DEF Good
<1>11. Sessions'
  BY <1>1 DEF IInv, Sessions, Untracked
<1>12. QED
  BY <1>1, <1>10, <1>11, GoodKeepsInv DEF TypeOK

LEMMA MountKeepsInv ==
  ASSUME TypeOK, IInv, NEW d \in Devices, Mount(d) \/ Unmount(d)
  PROVE  TypeOK' /\ IInv'
<1>1. \A e \in Devices : superblock[e] \in Crc /\ superblock[e] \in Int
  BY DEF TypeOK, Crc
<1>2. CASE Mount(d)
  <2>1. /\ superblock' \in [Devices -> Crc] /\ mounted' \subseteq Devices
        /\ \A e \in Devices : superblock'[e] = IF e = d THEN superblock[e] + 1 ELSE superblock[e]
    <3>1. superblock[d] + 1 \in Crc
      BY <1>1, <1>2, PersistentAssumption DEF Mount, Crc
    <3>2. QED
      BY <1>2, <3>1 DEF Mount, TypeOK
  <2>2. \A e \in Devices : /\ superblock[e] <= superblock'[e]
                           /\ superblock'[e] = superblock[e] /\ e \in mounted' => e \in mounted
    BY <1>1, <1>2, <2>1 DEF Mount
  <2>3. QED
    BY <1>2, <2>1, <2>2, WorldKeepsInv DEF Mount
<1>3. CASE Unmount(d)
  <2>1. superblock' \in [Devices -> Crc] /\ mounted' \subseteq Devices
    BY <1>3 DEF Unmount, TypeOK
  <2>2. \A e \in Devices : /\ superblock[e] <= superblock'[e]
                           /\ superblock'[e] = superblock[e] /\ e \in mounted' => e \in mounted
    BY <1>1, <1>3 DEF Unmount
  <2>3. QED
    BY <1>3, <2>1, <2>2, WorldKeepsInv DEF Unmount
<1>4. QED
  BY <1>2, <1>3

(* What the service knows after a backup is the generation of one map, and *)
(* what was written since is marked in it.                                 *)
LEMMA BackupKeepsInv ==
  ASSUME TypeOK, IInv, NEW d \in Devices, Backup(d)
  PROVE  TypeOK' /\ IInv'
<1> DEFINE map == maps[tracker[d]]
           entries == storage.entries
<1>1. /\ image[d] # "none" /\ image' = [image EXCEPT ![d] = "none"]
      /\ known' = [known EXCEPT ![d] = [gen |-> map.genPrevious, number |-> map.numPrevious,
                                         again |-> map.again]]
      /\ UNCHANGED <<inKernel, configured, isLoad, notified, registers, maps, tracker, draws, storage, mounted,
                     superblock, changed>>
  BY DEF Backup, moduleVars, registerVars, worldVars
<1>2. /\ Holders(registers, tracker, maps, draws) /\ entries \in Seq(EntrySet \cup {Error})
      /\ Checksums(registers, entries) /\ Apart(maps, entries, draws) /\ InOrder(maps, entries)
      /\ Reporting(registers, tracker, maps) /\ Images(tracker, maps) /\ registers \in Seq(RegisterSet)
  BY DEF IInv, Good, Holders
<1>3. /\ tracker[d] # None /\ tracker[d] \in DOMAIN maps /\ map \in Map /\ ImageReports(map, d)
      /\ map.genPrevious \in Gens(map) /\ map.genPrevious \in 1 .. draws
      /\ map.numActive # 1 => map.numPrevious < map.numActive
  BY <1>1, <1>2 DEF Holders, Images, Apart, Gens, InOrder
<1> HIDE DEF map
<1>4. /\ \A e \in Devices : e # d => known'[e] = known[e] /\ image'[e] = image[e]
      /\ known'[d].gen = map.genPrevious /\ known'[d].number = map.numPrevious
      /\ known'[d].again = map.again /\ image'[d] = "none"
  BY <1>1 DEF TypeOK
<1>5. \A id \in DOMAIN maps : id # tracker[d] /\ ~maps[id].again /\ ~map.again =>
        map.genPrevious # maps[id].genActive /\ map.genPrevious # NextGen(maps[id])
  <2>1. \A id \in DOMAIN maps : id # tracker[d] /\ ~maps[id].again /\ ~map.again =>
          map.genPrevious \notin Gens(maps[id])
    BY <1>2, <1>3 DEF Apart, map
  <2>2. QED
    BY <2>1 DEF Gens, NextGen
<1>6. NextGen(map) = map.genPrevious => map.numActive # 1 /\ map.numPrevious < map.numActive
  BY <1>3 DEF ImageReports, NextGen, Clean
<1>7. Holders(registers, tracker, maps, draws)' /\ Checksums(registers, storage.entries)'
  BY <1>1, <1>2 DEF Holders, Checksums, Sealed, Untouched
<1>8. Apart(maps, storage.entries, draws)'
  <2>1. \A e \in Devices : known'[e].gen \in 0 .. draws
    BY <1>2, <1>3, <1>4 DEF Apart
  <2>2. QED
    BY <1>1, <1>2, <2>1 DEF Apart, Gens
<1>9. InOrder(maps, storage.entries)'
  <2>1. ASSUME NEW id \in DOMAIN maps, NEW e \in Devices PROVE Older(maps[id], e)'
    <3>1. CASE e # d
      <4>1. Older(maps[id], e)
        BY <1>2 DEF InOrder
      <4>2. QED
        BY <1>1, <1>4, <3>1, <4>1 DEF Older, NextGen, Clean
    <3>2. CASE e = d /\ id # tracker[d]
      <4>1. ~maps[id].again /\ ~known'[d].again =>
              maps[id].genActive # known'[d].gen /\ NextGen(maps[id]) # known'[d].gen
        BY <1>4, <1>5, <3>2
      <4>2. QED
        BY <1>1, <3>2, <4>1 DEF Older, NextGen, Clean
    <3>3. CASE e = d /\ id = tracker[d]
      <4>1. map.numActive = 1 => map.genActive # known'[d].gen
        BY <1>3, <1>4 DEF ImageReports, Clean
      <4>2. NextGen(map) = known'[d].gen => known'[d].number < map.numActive
        BY <1>4, <1>6
      <4>3. QED
        BY <1>1, <3>3, <4>1, <4>2 DEF Older, NextGen, map, Clean
    <3>4. QED
      BY <3>1, <3>2, <3>3
  <2>2. ASSUME NEW i \in DOMAIN entries, NEW e \in Devices, entries[i] # Error, Clean(entries[i], e)',
               entries[i].numActive = 1
        PROVE  entries[i].genActive # known'[e].gen
    <3>a. ~entries[i].again /\ ~known'[e].again
      BY <1>1, <2>2 DEF Clean
    <3>1. CASE e # d
      BY <1>2, <1>4, <2>2, <3>a, <3>1 DEF InOrder, Clean
    <3>2. CASE e = d
      <4>1. entries[i].genActive \notin Gens(map)
        BY <1>2, <1>3, <1>4, <2>2, <3>a, <3>2 DEF Apart, map
      <4>2. QED
        BY <1>3, <1>4, <3>2, <4>1
    <3>3. QED
      BY <3>1, <3>2
  <2>3. \A id \in DOMAIN maps : maps[id].numActive # 1 => maps[id].numPrevious < maps[id].numActive
    BY <1>2 DEF InOrder
  <2>4. QED
    BY <1>1, <2>1, <2>2, <2>3 DEF InOrder
<1>10. Reporting(registers, tracker, maps)'
  <2>1. ASSUME NEW e \in Devices, tracker[e] # None, e \in changed PROVE Reports(maps[tracker[e]], e)'
    <3>1. CASE e # d
      <4>1. Reports(maps[tracker[e]], e)
        BY <1>2, <2>1 DEF Reporting
      <4>2. QED
        BY <1>1, <1>4, <3>1, <4>1 DEF Reports, NextGen, Clean
    <3>2. CASE e = d
      <4>1. map.active /\ NextGen(map) = known'[d].gen => map.write > known'[d].number
        BY <1>3, <1>4, <2>1, <3>2 DEF ImageReports, Clean
      <4>2. QED
        BY <1>1, <3>2, <4>1 DEF Reports, NextGen, map, Clean
    <3>3. QED
      BY <3>1, <3>2
  <2>2. ASSUME NEW i \in DOMAIN registers, Untouched(registers[i].crc, registers[i].dev),
               tracker[registers[i].dev] # registers[i].map,
               registers[i].dev \in changed \/ image'[registers[i].dev] = "changed"
        PROVE  Reports(maps[registers[i].map], registers[i].dev)'
    <3>1. registers[i].dev \in Devices /\ registers[i].map \in DOMAIN maps
      BY <1>2, RegisterTypes DEF Holders
    <3>2. CASE registers[i].dev # d
      <4>1. Reports(maps[registers[i].map], registers[i].dev)
        BY <1>2, <1>4, <2>2, <3>1, <3>2 DEF Reporting
      <4>2. QED
        BY <1>1, <1>4, <3>1, <3>2, <4>1 DEF Reports, NextGen, Clean
    <3>3. CASE registers[i].dev = d
      <4>1. ~maps[registers[i].map].again /\ ~known'[d].again => NextGen(maps[registers[i].map]) # known'[d].gen
        BY <1>4, <1>5, <2>2, <3>1, <3>3
      <4>2. QED
        BY <1>1, <3>3, <4>1 DEF Reports, NextGen, Clean
    <3>4. QED
      BY <3>2, <3>3
  <2>3. QED
    BY <1>1, <2>1, <2>2 DEF Reporting, Untouched
<1>11. Images(tracker, maps)'
  <2>1. SUFFICES ASSUME NEW e \in Devices, image'[e] # "none"
                 PROVE  tracker[e] # None /\ ImageReports(maps[tracker[e]], e)'
    BY <1>1 DEF Images
  <2>2. e # d
    BY <1>4, <2>1
  <2>3. tracker[e] # None /\ ImageReports(maps[tracker[e]], e)
    BY <1>2, <1>4, <2>1, <2>2 DEF Images
  <2>4. QED
    BY <1>1, <1>4, <2>2, <2>3 DEF ImageReports, NextGen, Clean
<1>12. Good(registers, tracker, maps, storage.entries, draws)'
  BY <1>1, <1>2, <1>7, <1>8, <1>9, <1>10, <1>11 DEF Good
<1>13. Sessions'
  BY <1>1, <1>3 DEF IInv, Sessions, Untracked
<1>14. known' \in [Devices -> [gen : Generations, number : Numbers, again : BOOLEAN]]
  <2>1. map.genPrevious \in Generations /\ map.numPrevious \in Numbers /\ map.again \in BOOLEAN
    BY <1>3 DEF Map
  <2>2. QED
    BY <1>1, <2>1 DEF TypeOK
<1>15. QED
  <2>1. image' \in [Devices -> {"none", "clean", "changed"}]
    BY <1>1 DEF TypeOK
  <2>2. QED
    BY <1>1, <1>12, <1>13, <1>14, <2>1, GoodKeepsInv DEF TypeOK

(* What was in the image counts as written again.                          *)
LEMMA ReleaseSnapshotKeepsInv ==
  ASSUME TypeOK, IInv, NEW d \in Devices, ReleaseSnapshot(d)
  PROVE  TypeOK' /\ IInv'
<1> DEFINE entries == storage.entries
<1>1. /\ image[d] # "none" /\ image' = [image EXCEPT ![d] = "none"]
      /\ changed' = changed \cup {e \in {d} : image[e] = "changed"}
      /\ UNCHANGED <<inKernel, configured, isLoad, notified, registers, maps, tracker, draws, storage, mounted,
                     superblock, known>>
  BY DEF ReleaseSnapshot, NotBackedUp, moduleVars, registerVars, worldVars
<1>2. /\ Holders(registers, tracker, maps, draws) /\ entries \in Seq(EntrySet \cup {Error})
      /\ Checksums(registers, entries) /\ Apart(maps, entries, draws) /\ InOrder(maps, entries)
      /\ Reporting(registers, tracker, maps) /\ Images(tracker, maps) /\ registers \in Seq(RegisterSet)
  BY DEF IInv, Good, Holders
<1>3. /\ \A e \in Devices : e # d => image'[e] = image[e] /\ (e \in changed' <=> e \in changed)
      /\ d \in changed' <=> (d \in changed \/ image[d] = "changed")
      /\ image'[d] = "none"
  BY <1>1 DEF TypeOK
<1>4. Holders(registers, tracker, maps, draws)' /\ Checksums(registers, storage.entries)'
  BY <1>1, <1>2 DEF Holders, Checksums, Sealed, Untouched
<1>5. Apart(maps, storage.entries, draws)' /\ InOrder(maps, storage.entries)'
  BY <1>1, <1>2 DEF Apart, Gens, InOrder, Older, NextGen, Clean
<1>6. image[d] = "changed" => Reports(maps[tracker[d]], d)
  <2>1. SUFFICES ASSUME image[d] = "changed", Clean(maps[tracker[d]], d),
                        NextGen(maps[tracker[d]]) = known[d].gen
                 PROVE  maps[tracker[d]].write > known[d].number
    BY DEF Reports, Clean
  <2>2. /\ tracker[d] \in DOMAIN maps /\ maps[tracker[d]] \in Map
        /\ ImageReports(maps[tracker[d]], d) /\ Older(maps[tracker[d]], d)
    BY <1>1, <1>2 DEF Holders, Images, InOrder
  <2>3. maps[tracker[d]].numActive # 1 /\ maps[tracker[d]].genPrevious = known[d].gen
    BY <2>1, <2>2 DEF Older, NextGen, Clean
  <2>4. maps[tracker[d]].read <= maps[tracker[d]].write /\ maps[tracker[d]].read > known[d].number
    BY <2>1, <2>2, <2>3 DEF ImageReports, Clean
  <2>5. maps[tracker[d]].read \in Int /\ maps[tracker[d]].write \in Int /\ known[d].number \in Int
    BY <2>2 DEF Map, Numbers, TypeOK
  <2>6. QED
    BY <2>4, <2>5
<1>7. Reporting(registers, tracker, maps)'
  <2>1. ASSUME NEW e \in Devices, tracker[e] # None, e \in changed' PROVE Reports(maps[tracker[e]], e)'
    <3>1. Reports(maps[tracker[e]], e)
      BY <1>2, <1>3, <1>6, <2>1 DEF Reporting
    <3>2. QED
      BY <1>1, <3>1 DEF Reports, NextGen, Clean
  <2>2. ASSUME NEW i \in DOMAIN registers, Untouched(registers[i].crc, registers[i].dev),
               tracker[registers[i].dev] # registers[i].map,
               registers[i].dev \in changed' \/ image'[registers[i].dev] = "changed"
        PROVE  Reports(maps[registers[i].map], registers[i].dev)'
    <3>1. registers[i].dev \in Devices
      BY <1>2, RegisterTypes
    <3>2. registers[i].dev \in changed \/ image[registers[i].dev] = "changed"
      BY <1>3, <2>2, <3>1
    <3>3. Reports(maps[registers[i].map], registers[i].dev)
      BY <1>2, <2>2, <3>2 DEF Reporting
    <3>4. QED
      BY <1>1, <3>3 DEF Reports, NextGen, Clean
  <2>3. QED
    BY <1>1, <2>1, <2>2 DEF Reporting, Untouched
<1>8. Images(tracker, maps)'
  <2>1. SUFFICES ASSUME NEW e \in Devices, image'[e] # "none"
                 PROVE  tracker[e] # None /\ ImageReports(maps[tracker[e]], e)'
    BY <1>1 DEF Images
  <2>2. e # d
    BY <1>3, <2>1
  <2>3. tracker[e] # None /\ ImageReports(maps[tracker[e]], e)
    BY <1>2, <1>3, <2>1, <2>2 DEF Images
  <2>4. QED
    BY <1>1, <1>3, <2>2, <2>3 DEF ImageReports, NextGen, Clean
<1>9. Good(registers, tracker, maps, storage.entries, draws)'
  BY <1>1, <1>2, <1>4, <1>5, <1>7, <1>8 DEF Good
<1>10. Sessions' /\ changed' \subseteq Devices /\ image' \in [Devices -> {"none", "clean", "changed"}]
  BY <1>1, <1>3 DEF IInv, Sessions, Untracked, TypeOK
<1>11. QED
  BY <1>1, <1>9, <1>10, GoodKeepsInv DEF TypeOK

-----------------------------------------------------------------------------
(* The end of a session.                                                   *)

(* The registers that are stored are numbered in their order.              *)
LEMMA NthEffect ==
  ASSUME NEW m \in Nat, NEW kept \in SUBSET (1 .. m)
  PROVE  /\ Cardinality(kept) \in Nat
         /\ \A n \in 1 .. Cardinality(kept) :
              Nth(kept, n) \in kept /\ Cardinality({k \in kept : k <= Nth(kept, n)}) = n
<1> DEFINE UpTo(i) == {k \in kept : k <= i}
           rank == [i \in kept |-> Cardinality(UpTo(i))]
           count == Cardinality(kept)
<1>1. IsFiniteSet(1 .. m)
  BY FS_Interval
<1>2. IsFiniteSet(kept) /\ count \in Nat
  BY <1>1, FS_Subset, FS_CardinalityType
<1>3. ASSUME NEW i \in kept
      PROVE  IsFiniteSet(UpTo(i)) /\ Cardinality(UpTo(i)) \in 1 .. count
  <2>1. UpTo(i) \in SUBSET kept /\ i \in UpTo(i)
    OBVIOUS
  <2> HIDE DEF UpTo
  <2>2. IsFiniteSet(UpTo(i)) /\ Cardinality(UpTo(i)) <= count
    BY <1>2, <2>1, FS_Subset
  <2>3. Cardinality(UpTo(i)) \in Nat /\ Cardinality(UpTo(i)) # 0
    BY <2>1, <2>2, FS_CardinalityType, FS_EmptySet
  <2>4. QED
    BY <1>2, <2>2, <2>3
<1>4. ASSUME NEW i \in kept, NEW j \in kept, i < j PROVE Cardinality(UpTo(i)) # Cardinality(UpTo(j))
  <2>1. UpTo(i) \in SUBSET UpTo(j) /\ j \in UpTo(j) /\ j \notin UpTo(i)
    <3>1. i \in Int /\ j \in Int /\ j <= j /\ ~(j <= i)
      BY <1>4
    <3>2. ASSUME NEW k \in kept, k <= i PROVE k <= j
      <4>1. k \in Int
        OBVIOUS
      <4>2. QED
        BY <1>4, <3>1, <3>2, <4>1
    <3>3. QED
      BY <3>1, <3>2
  <2> HIDE DEF UpTo
  <2>2. IsFiniteSet(UpTo(j))
    BY <1>3
  <2>3. Cardinality(UpTo(j)) = Cardinality(UpTo(i)) => UpTo(j) = UpTo(i)
    BY <2>1, <2>2, FS_Subset
  <2>4. QED
    BY <2>1, <2>3
<1> HIDE DEF UpTo, count
<1>5. rank \in [kept -> 1 .. count]
  BY <1>3
<1>6. \A i, j \in kept : rank[i] = rank[j] => i = j
  <2>1. ASSUME NEW i \in kept, NEW j \in kept, rank[i] = rank[j] PROVE i = j
    <3>1. i \in Int /\ j \in Int /\ Cardinality(UpTo(i)) = Cardinality(UpTo(j))
      BY <2>1
    <3>2. ~(i < j) /\ ~(j < i)
      BY <1>4, <3>1
    <3>3. QED
      BY <3>1, <3>2
  <2>2. QED
    BY <2>1
<1>7. rank \in Injection(kept, 1 .. count)
  BY <1>5, <1>6 DEF Injection, IsInjective
<1>8. IsFiniteSet(1 .. count) /\ Cardinality(1 .. count) = count
  BY <1>2, FS_Interval
<1>9. rank \in Surjection(kept, 1 .. count)
  <2> HIDE DEF rank
  <2>1. Cardinality(kept) = Cardinality(1 .. count)
    BY <1>8 DEF count
  <2>2. QED
    BY <1>7, <1>8, <2>1, FS_Injection
<1>10. \A n \in 1 .. count : \E i \in kept : Cardinality(UpTo(i)) = n
  BY <1>9 DEF Surjection
<1>11. \A n \in 1 .. count : Nth(kept, n) \in kept /\ Cardinality(UpTo(Nth(kept, n))) = n
  BY <1>10 DEF Nth, UpTo
<1>12. QED
  BY <1>2, <1>11 DEF UpTo, count

(* What is in the storage is sealed, and each generation is in it once,    *)
(* but for the registers that were loaded before.                          *)
Stored(entries) ==
  /\ entries \in Seq(EntrySet \cup {Error})
  /\ \A i \in DOMAIN entries : entries[i] # Error =>
       /\ Sealed(entries[i].crc, entries[i].dev)
       /\ entries[i].genActive \in 1 .. draws
       /\ \A d \in Devices : Clean(entries[i], d) /\ entries[i].numActive = 1 =>
            entries[i].genActive # known[d].gen
       /\ \A j \in DOMAIN entries :
            /\ entries[j] # Error
            /\ ~entries[i].again /\ ~entries[j].again
            /\ entries[j].genActive = entries[i].genActive
            => i = j

(* The generation of the entry is that of a map that is there.             *)
OfMap(entry) ==
  \E id \in DOMAIN maps : ~maps[id].again /\ entry.genActive \in Gens(maps[id])

LEMMA EntriesAreStored ==
  ASSUME TypeOK, IInv
  PROVE  /\ Stored(Entries)
         /\ \A i \in DOMAIN Entries : Entries[i] # Error /\ ~Entries[i].again => OfMap(Entries[i])
<1> DEFINE count == Cardinality(Kept)
           at(n) == Nth(Kept, n)
           reg(n) == registers[at(n)]
<1>1. /\ Holders(registers, tracker, maps, draws) /\ Apart(maps, storage.entries, draws)
      /\ InOrder(maps, storage.entries) /\ registers \in Seq(RegisterSet)
  BY DEF IInv, Good, Holders
<1>2. Len(registers) \in Nat /\ DOMAIN registers = 1 .. Len(registers)
  BY <1>1, LenProperties
<1>3. Kept \in SUBSET (1 .. Len(registers))
  BY <1>2 DEF Kept
<1>4. /\ count \in Nat
      /\ \A n \in 1 .. count : at(n) \in Kept /\ Cardinality({k \in Kept : k <= at(n)}) = n
  BY <1>2, <1>3, NthEffect
<1>5. Entries = [n \in 1 .. count |-> Entry(reg(n))]
  BY DEF Entries
<1>6. \A n \in 1 .. count : at(n) \in DOMAIN registers
  BY <1>2, <1>3, <1>4
<1>7. \A n, k \in 1 .. count : at(n) = at(k) => n = k
  BY <1>4
<1> HIDE DEF count, at
<1>8. ASSUME NEW n \in 1 .. count
      PROVE  /\ reg(n).dev \in Devices /\ reg(n).map \in DOMAIN maps /\ maps[reg(n).map] \in Map
             /\ superblock[reg(n).dev] \in Crc
  <2>1. reg(n).dev \in Devices /\ reg(n).map \in DOMAIN maps
    BY <1>1, <1>6, RegisterTypes DEF Holders
  <2>2. QED
    BY <1>1, <2>1 DEF Holders, TypeOK
<1>9. ASSUME NEW n \in 1 .. count, Entry(reg(n)) # Error
      PROVE  /\ reg(n).dev \notin mounted
             /\ Entry(reg(n)) = [dev |-> reg(n).dev, crc |-> superblock[reg(n).dev],
                                 write |-> maps[reg(n).map].write, genActive |-> maps[reg(n).map].genActive,
                                 numActive |-> maps[reg(n).map].numActive,
                                 again |-> maps[reg(n).map].again]
  <2> HIDE DEF reg
  <2>1. StoreAvailable(reg(n).dev)
    BY <1>9 DEF Entry
  <2>2. QED
    BY <2>1 DEF Entry, StoreAvailable, IsMounted, Checksum
<1>10. \A n, k \in 1 .. count : reg(n).map = reg(k).map => n = k
  BY <1>1, <1>6, <1>7 DEF Holders
<1> HIDE DEF reg
<1>11. \A n \in 1 .. count : Entry(reg(n)) \in EntrySet \cup {Error}
  <2>1. SUFFICES ASSUME NEW n \in 1 .. count, Entry(reg(n)) # Error PROVE Entry(reg(n)) \in EntrySet
    OBVIOUS
  <2>2. /\ maps[reg(n).map].write \in Numbers /\ maps[reg(n).map].genActive \in Generations
        /\ maps[reg(n).map].numActive \in 1 .. MaxNumber /\ maps[reg(n).map].again \in BOOLEAN
    BY <1>8 DEF Map
  <2>3. QED
    BY <1>8, <1>9, <2>1, <2>2 DEF EntrySet
<1>12. Entries \in Seq(EntrySet \cup {Error}) /\ DOMAIN Entries = 1 .. count
  <2>1. Entries \in [1 .. count -> EntrySet \cup {Error}]
    BY <1>5, <1>11
  <2>2. QED
    BY <1>4, <2>1
<1>13. ASSUME NEW n \in 1 .. count, Entries[n] # Error
       PROVE  /\ Sealed(Entries[n].crc, Entries[n].dev)
              /\ Entries[n].genActive = maps[reg(n).map].genActive
              /\ Entries[n].genActive \in Gens(maps[reg(n).map])
              /\ Entries[n].genActive \in 1 .. draws
              /\ Entries[n].again = maps[reg(n).map].again
              /\ \A d \in Devices : Clean(Entries[n], d) /\ Entries[n].numActive = 1 =>
                   Entries[n].genActive # known[d].gen
  <2>1. /\ Entries[n].dev = reg(n).dev /\ Entries[n].crc = superblock[reg(n).dev]
        /\ Entries[n].genActive = maps[reg(n).map].genActive
        /\ Entries[n].numActive = maps[reg(n).map].numActive
        /\ Entries[n].again = maps[reg(n).map].again
        /\ reg(n).dev \notin mounted
    BY <1>5, <1>9, <1>13
  <2>2. Sealed(Entries[n].crc, Entries[n].dev)
    <3>1. superblock[reg(n).dev] <= superblock[reg(n).dev]
      BY <1>8 DEF Crc
    <3>2. QED
      BY <2>1, <3>1 DEF Sealed, Untouched
  <2>3. Entries[n].genActive \in Gens(maps[reg(n).map]) /\ Entries[n].genActive \in 1 .. draws
    BY <1>1, <1>8, <2>1 DEF Apart, Gens
  <2>4. \A d \in Devices : Clean(Entries[n], d) /\ Entries[n].numActive = 1 =>
          Entries[n].genActive # known[d].gen
    BY <1>1, <1>8, <2>1 DEF InOrder, Older, Clean
  <2>5. QED
    BY <2>1, <2>2, <2>3, <2>4
<1>14. ASSUME NEW n \in 1 .. count, NEW k \in 1 .. count, Entries[n] # Error, Entries[k] # Error,
              ~Entries[n].again, ~Entries[k].again, Entries[k].genActive = Entries[n].genActive
       PROVE  n = k
  <2>1. /\ Gens(maps[reg(n).map]) \cap Gens(maps[reg(k).map]) # {}
        /\ ~maps[reg(n).map].again /\ ~maps[reg(k).map].again
    <3>1. /\ Entries[n].genActive \in Gens(maps[reg(n).map])
          /\ Entries[n].again = maps[reg(n).map].again
      BY <1>13, <1>14
    <3>2. /\ Entries[k].genActive \in Gens(maps[reg(k).map])
          /\ Entries[k].again = maps[reg(k).map].again
      BY <1>13, <1>14
    <3>3. QED
      BY <1>14, <3>1, <3>2
  <2>2. reg(n).map = reg(k).map
    BY <1>1, <1>8, <2>1 DEF Apart
  <2>3. QED
    BY <1>10, <2>2
<1>15. Stored(Entries)
  BY <1>12, <1>13, <1>14 DEF Stored
<1>16. \A n \in 1 .. count : Entries[n] # Error /\ ~Entries[n].again => OfMap(Entries[n])
  BY <1>8, <1>13 DEF OfMap
<1>17. QED
  BY <1>12, <1>15, <1>16

(* Old registers behind a store that was cut off: those that had never     *)
(* been loaded have no generation in common with the maps that are there.  *)
LEMMA CutOffIsStored ==
  ASSUME TypeOK, IInv, NEW n \in DOMAIN Entries, NEW m \in 1 .. Len(storage.entries) + 1,
         NEW write \in Numbers
  PROVE  Stored(Torn(Entries, n, write) \o SubSeq(storage.entries, m, Len(storage.entries)))
<1> DEFINE new == Entries
           torn == Torn(new, n, write)
           all == storage.entries
           old == SubSeq(all, m, Len(all))
           joined == torn \o old
<1>1. /\ all \in Seq(EntrySet \cup {Error}) /\ Len(all) \in Nat /\ DOMAIN all = 1 .. Len(all)
      /\ Checksums(registers, all) /\ Apart(maps, all, draws) /\ InOrder(maps, all)
  BY LenProperties DEF IInv, Good
<1>2. /\ Stored(new) /\ \A i \in DOMAIN new : new[i] # Error /\ ~new[i].again => OfMap(new[i])
      /\ new \in Seq(EntrySet \cup {Error}) /\ Len(new) \in Nat /\ DOMAIN new = 1 .. Len(new)
  <2>1. /\ Stored(new) /\ new \in Seq(EntrySet \cup {Error})
        /\ \A i \in DOMAIN new : new[i] # Error /\ ~new[i].again => OfMap(new[i])
    BY EntriesAreStored DEF Stored
  <2> HIDE DEF new
  <2>2. QED
    BY <2>1, LenProperties
<1> HIDE DEF new
<1>3. n \in 1 .. Len(new) /\ n \in Nat
  <2>1. n \in DOMAIN new
    BY DEF new
  <2>2. QED
    BY <1>2, <2>1
<1>4. /\ torn \in [1 .. n -> EntrySet \cup {Error}]
      /\ \A i \in 1 .. n : i \in DOMAIN new /\ (torn[i] # Error => new[i] # Error)
      /\ \A i \in 1 .. n : torn[i] # Error =>
           /\ torn[i].dev = new[i].dev /\ torn[i].crc = new[i].crc
           /\ torn[i].genActive = new[i].genActive /\ torn[i].numActive = new[i].numActive
           /\ torn[i].again = new[i].again
  <2>1. ASSUME NEW i \in 1 .. n
        PROVE  /\ i \in DOMAIN new /\ new[i] \in EntrySet \cup {Error}
               /\ torn[i] = IF i = n /\ new[i] # Error THEN [new[i] EXCEPT !.write = write] ELSE new[i]
    BY <1>2, <1>3, ElementOfSeq DEF Torn
  <2>2. ASSUME NEW i \in 1 .. n
        PROVE  /\ torn[i] \in EntrySet \cup {Error} /\ (torn[i] # Error => new[i] # Error)
               /\ torn[i] # Error =>
                    /\ torn[i].dev = new[i].dev /\ torn[i].crc = new[i].crc
                    /\ torn[i].genActive = new[i].genActive /\ torn[i].numActive = new[i].numActive
                    /\ torn[i].again = new[i].again
    <3>1. CASE i = n /\ new[i] # Error
      <4>1. new[i] \in EntrySet /\ torn[i] = [new[i] EXCEPT !.write = write]
        BY <2>1, <3>1
      <4> HIDE DEF torn
      <4>2. QED
        BY <3>1, <4>1 DEF EntrySet
    <3>2. CASE ~(i = n /\ new[i] # Error)
      <4>1. torn[i] = new[i]
        BY <2>1, <3>2
      <4>2. QED
        BY <2>1, <4>1
    <3>3. QED
      BY <3>1, <3>2
  <2>3. DOMAIN torn = 1 .. n /\ torn = [i \in 1 .. n |-> torn[i]]
    BY DEF Torn
  <2> HIDE DEF torn
  <2>4. QED
    BY <2>1, <2>2, <2>3
<1>5. torn \in Seq(EntrySet \cup {Error}) /\ Len(torn) = n
  <2> HIDE DEF torn
  <2>1. torn \in Seq(EntrySet \cup {Error}) /\ DOMAIN torn = 1 .. n
    BY <1>3, <1>4
  <2>2. QED
    BY <1>3, <2>1, LenProperties
<1>6. /\ old \in Seq(EntrySet \cup {Error})
      /\ Len(old) = IF m <= Len(all) THEN Len(all) - m + 1 ELSE 0
      /\ \A i \in 1 .. Len(all) - m + 1 : old[i] = all[m + i - 1]
  <2> HIDE DEF all
  <2>1. m \in Int /\ \A i \in m .. Len(all) : all[i] \in EntrySet \cup {Error}
    BY <1>1, ElementOfSeq
  <2>2. QED
    BY <1>1, <2>1, SubSeqProperties
<1> HIDE DEF torn, old, all
<1>7. /\ joined \in Seq(EntrySet \cup {Error}) /\ DOMAIN joined = 1 .. Len(torn) + Len(old)
      /\ \A i \in 1 .. Len(torn) + Len(old) :
           joined[i] = IF i <= Len(torn) THEN torn[i] ELSE old[i - Len(torn)]
  <2>1. /\ joined \in Seq(EntrySet \cup {Error}) /\ Len(joined) = Len(torn) + Len(old)
        /\ \A i \in 1 .. Len(torn) + Len(old) :
             joined[i] = IF i <= Len(torn) THEN torn[i] ELSE old[i - Len(torn)]
    BY <1>5, <1>6, ConcatProperties
  <2> HIDE DEF joined
  <2>2. DOMAIN joined = 1 .. Len(joined)
    BY <2>1, LenProperties
  <2>3. QED
    BY <2>1, <2>2
<1> HIDE DEF joined
<1> DEFINE was(i) == m + (i - n) - 1
<1>8. ASSUME NEW i \in DOMAIN joined
      PROVE  \/ i \in 1 .. n /\ joined[i] = torn[i]
             \/ i \in Nat /\ i > n /\ was(i) \in DOMAIN all /\ joined[i] = all[was(i)]
  <2>0. Len(old) \in Nat /\ i \in 1 .. n + Len(old) /\ i \in Nat /\ n \in Nat
    <3>1. Len(old) \in Nat
      BY <1>1, <1>6
    <3>2. QED
      BY <1>3, <1>5, <1>7, <3>1
  <2>1. CASE i <= n
    BY <1>5, <1>7, <2>0, <2>1
  <2>2. CASE i > n
    <3>0. Len(old) \in Nat /\ i \in 1 .. n + Len(old)
      BY <2>0
    <3>1. i \in Nat /\ i - n \in 1 .. Len(old) /\ joined[i] = old[i - n]
      BY <1>3, <1>5, <1>7, <2>2, <3>0
    <3>2. i - n \in 1 .. Len(all) - m + 1 /\ Len(old) = Len(all) - m + 1
      BY <1>1, <1>6, <3>1
    <3>3. joined[i] = all[was(i)] /\ was(i) \in DOMAIN all
      <4>1. joined[i] = all[m + (i - n) - 1]
        BY <1>6, <3>1, <3>2
      <4>2. m \in Int /\ 1 <= m /\ i - n \in Int /\ 1 <= i - n /\ i - n <= Len(all) - m + 1
        BY <1>1, <1>3, <3>1, <3>2
      <4>3. m + (i - n) - 1 \in 1 .. Len(all)
        BY <1>1, <4>2
      <4>4. QED
        BY <1>1, <4>1, <4>3
    <3>4. QED
      BY <2>2, <3>1, <3>3
  <2>3. QED
    BY <2>0, <2>1, <2>2
<1>9. ASSUME NEW i \in DOMAIN joined, joined[i] # Error
      PROVE  /\ Sealed(joined[i].crc, joined[i].dev)
             /\ joined[i].genActive \in 1 .. draws
             /\ \A d \in Devices : Clean(joined[i], d) /\ joined[i].numActive = 1 =>
                  joined[i].genActive # known[d].gen
  <2>1. CASE i \in 1 .. n /\ joined[i] = torn[i]
    BY <1>2, <1>4, <1>9, <2>1 DEF Stored, Clean
  <2>2. CASE was(i) \in DOMAIN all /\ joined[i] = all[was(i)]
    <3> HIDE DEF was
    <3>1. QED
      BY <1>1, <1>9, <2>2 DEF Checksums, Apart, InOrder
  <2>3. QED
    BY <1>8, <2>1, <2>2
<1>10. ASSUME NEW i \in DOMAIN new, NEW k \in DOMAIN all, new[i] # Error, ~new[i].again,
              all[k] # Error, ~all[k].again
       PROVE  new[i].genActive # all[k].genActive
  BY <1>1, <1>2, <1>10 DEF Apart, OfMap
<1>11. ASSUME NEW i \in DOMAIN joined, NEW j \in DOMAIN joined, joined[i] # Error, joined[j] # Error,
              ~joined[i].again, ~joined[j].again, joined[j].genActive = joined[i].genActive
       PROVE  i = j
  <2>1. CASE i \in 1 .. n /\ joined[i] = torn[i] /\ j \in 1 .. n /\ joined[j] = torn[j]
    BY <1>2, <1>4, <1>11, <2>1 DEF Stored
  <2>2. CASE i \in 1 .. n /\ joined[i] = torn[i] /\ was(j) \in DOMAIN all /\ joined[j] = all[was(j)]
    <3> HIDE DEF was
    <3>1. QED
      BY <1>4, <1>10, <1>11, <2>2
  <2>3. CASE j \in 1 .. n /\ joined[j] = torn[j] /\ was(i) \in DOMAIN all /\ joined[i] = all[was(i)]
    <3> HIDE DEF was
    <3>1. QED
      BY <1>4, <1>10, <1>11, <2>3
  <2>4. CASE /\ i \in Nat /\ was(i) \in DOMAIN all /\ joined[i] = all[was(i)]
             /\ j \in Nat /\ was(j) \in DOMAIN all /\ joined[j] = all[was(j)]
    <3>1. was(i) = was(j) => i = j
      BY <1>3, <2>4
    <3> HIDE DEF was
    <3>2. was(i) = was(j)
      BY <1>1, <1>11, <2>4 DEF Apart
    <3>3. QED
      BY <3>1, <3>2
  <2>5. QED
    BY <1>8, <2>1, <2>2, <2>3, <2>4
<1>12. Stored(joined)
  BY <1>7, <1>9, <1>11 DEF Stored
<1>13. QED
  BY <1>12 DEF joined, torn, old, all, new

LEMMA GoneKeepsInv ==
  ASSUME TypeOK, IInv, Gone, Store, mounted' \subseteq mounted
  PROVE  TypeOK' /\ IInv'
<1>1. /\ registers' = <<>> /\ tracker' = Untracked /\ maps' = Restrict(maps, Held(<<>>, Untracked))
      /\ UNCHANGED <<draws, superblock, known>> /\ image' = [d \in Devices |-> "none"]
      /\ inKernel' = FALSE /\ configured' = FALSE /\ isLoad' = FALSE /\ notified' = {}
      /\ changed' \subseteq changed \cup Devices
  BY DEF Gone, Hold, Held, NotBackedUp
<1>2. DOMAIN maps' = {} /\ DOMAIN registers' = {} /\ registers' \in Seq(RegisterSet)
  <2>1. Held(<<>>, Untracked) = {}
    BY DEF Held, Range, Untracked
  <2>2. QED
    BY <1>1, <2>1 DEF Restrict
<1>3. /\ Holders(registers, tracker, maps, draws) /\ storage.entries \in Seq(EntrySet \cup {Error})
      /\ Checksums(registers, storage.entries) /\ Apart(maps, storage.entries, draws)
      /\ InOrder(maps, storage.entries)
  BY DEF IInv, Good
<1>4. Stored(storage'.entries) /\ storage'.full \in BOOLEAN
  <2>1. CASE storage' = [full |-> TRUE, entries |-> Entries]
    BY <2>1, EntriesAreStored
  <2>2. CASE storage' = EmptyStorage
    <3>1. storage'.entries = <<>> /\ storage'.full = FALSE
      BY <2>2 DEF EmptyStorage
    <3>2. Stored(<<>>)
      BY DEF Stored
    <3>3. QED
      BY <3>1, <3>2
  <2>3. CASE storage' = storage
    BY <1>3, <2>3 DEF Stored, Checksums, Apart, InOrder, TypeOK
  <2>4. CASE StoreCutOff
    <3>1. PICK n \in DOMAIN Entries, m \in 1 .. Len(storage.entries) + 1, write \in Numbers :
            storage' = [full |-> TRUE,
                        entries |-> Torn(Entries, n, write)
                                      \o SubSeq(storage.entries, m, Len(storage.entries))]
      BY <2>4 DEF StoreCutOff
    <3>2. storage'.full = TRUE /\ Stored(storage'.entries)
      BY <3>1, CutOffIsStored
    <3>3. QED
      BY <3>2
  <2>5. QED
    BY <2>1, <2>2, <2>3, <2>4 DEF Store, StoreBreaks
<1>5. PICK entries : storage'.entries = entries /\ Stored(entries)
  BY <1>4
<1>6. Holders(registers, tracker, maps, draws)'
  BY <1>1, <1>2, <1>3 DEF Holders, Untracked
<1>7. Checksums(registers, storage.entries)'
  <2>1. \A i \in DOMAIN entries : entries[i] # Error => Sealed(entries[i].crc, entries[i].dev)'
    BY <1>1, <1>5 DEF Stored, Sealed, Untouched
  <2>2. QED
    BY <1>2, <1>5, <2>1 DEF Checksums
<1>8. Apart(maps, storage.entries, draws)' /\ InOrder(maps, storage.entries)'
  BY <1>1, <1>2, <1>3, <1>5 DEF Apart, InOrder, Stored, Clean
<1>9. Reporting(registers, tracker, maps)' /\ Images(tracker, maps)'
  BY <1>1, <1>2 DEF Reporting, Images, Untracked
<1>10. Good(registers, tracker, maps, storage.entries, draws)'
  BY <1>5, <1>6, <1>7, <1>8, <1>9 DEF Good, Stored
<1>11. Sessions'
  BY <1>1 DEF Sessions, Untracked
<1>12. QED
  <2>1. /\ mounted' \subseteq Devices /\ superblock' \in [Devices -> Crc]
        /\ changed' \subseteq Devices /\ image' \in [Devices -> {"none", "clean", "changed"}]
        /\ known' \in [Devices -> [gen : Generations, number : Numbers, again : BOOLEAN]]
    BY <1>1 DEF TypeOK
  <2>2. QED
    BY <1>1, <1>4, <1>10, <1>11, <2>1, GoodKeepsInv

-----------------------------------------------------------------------------
(* The invariant holds of every step, and the properties follow.           *)

LEMMA IStep == TypeOK /\ IInv /\ [Next]_vars => TypeOK' /\ IInv'
<1> SUFFICES ASSUME TypeOK, IInv, [Next]_vars PROVE TypeOK' /\ IInv'
  OBVIOUS
<1>1. ASSUME NEW params \in BOOLEAN, NEW there \in SUBSET (Devices \cup {Storage}), InitModule(params, there)
      PROVE  TypeOK' /\ IInv'
  BY <1>1, InitKeepsInv
<1>2. CASE StorageAttach
  BY <1>2, StorageAttachKeepsInv
<1>3. CASE SetParameters
  BY <1>3, QuietKeepsInv DEF SetParameters, TypeOK
<1>4. ASSUME NEW d \in Devices, DeviceNext(d) PROVE TypeOK' /\ IInv'
  <2>1. CASE DeviceAttach(d)
    BY <2>1, DeviceAttachKeepsInv
  <2>2. CASE TrackingAdd(d)
    BY <2>2, TrackingAddKeepsInv
  <2>3. CASE TrackingRemove(d)
    BY <2>3, TrackingRemoveKeepsInv
  <2>4. CASE TakeSnapshot(d)
    BY <2>4, TakeSnapshotKeepsInv
  <2>5. CASE Backup(d)
    BY <2>5, BackupKeepsInv
  <2>6. CASE ReleaseSnapshot(d)
    BY <2>6, ReleaseSnapshotKeepsInv
  <2>7. CASE Mount(d) \/ Unmount(d)
    BY <2>7, MountKeepsInv
  <2>8. CASE \E resized \in BOOLEAN : Write(d, resized)
    BY <2>8, WriteKeepsInv
  <2>9. QED
    BY <1>4, <2>1, <2>2, <2>3, <2>4, <2>5, <2>6, <2>7, <2>8 DEF DeviceNext
<1>5. CASE Shutdown \/ ExitModule \/ Crash
  <2>1. mounted' \subseteq mounted
    BY <1>5 DEF Shutdown, ExitModule, Crash
  <2>2. Gone /\ Store
    BY <1>5 DEF Shutdown, ExitModule, Crash, Store
  <2>3. QED
    BY <2>1, <2>2, GoneKeepsInv
<1>6. CASE UNCHANGED vars
  BY <1>6, QuietKeepsInv DEF vars, moduleVars, TypeOK
<1>7. QED
  BY <1>1, <1>2, <1>3, <1>4, <1>5, <1>6 DEF Next

LEMMA Invariance == Spec => [](TypeOK /\ IInv)
<1>1. QED
  BY IInit, IStep, PTL DEF Spec

(* Every variable keeps its type: a register and a tracker hold a map that *)
(* exists, and the number of a snapshot and the marks of the blocks fit    *)
(* into a byte, because cbt_map_switch starts a new generation at 255.     *)
THEOREM TypeCorrect == Spec => []TypeOK
<1>1. QED
  BY Invariance, PTL

(* An incremental backup misses nothing: when tracking_collect reports the *)
(* generation of the last backup for the map of an image, a device that    *)
(* was changed since is reported as changed, through any number of loads,  *)
(* stores, crashes, stores cut off at any register, offline changes,       *)
(* duplicate registers (_cbt_prst_load) and trackers that start without a  *)
(* check (cbt_persistent_load).  Nothing is said of a map that comes from  *)
(* a register that had been loaded before, behind a store that was cut     *)
(* off, or of the last backup if it was made with such a map.              *)
THEOREM IncrementalSound == Spec => []IncrementalIsSound
<1>1. IInv => IncrementalIsSound
  BY DEF IInv, Good, Images, ImageReports, Clean, IncrementalIsSound
<1>2. QED
  BY <1>1, Invariance, PTL

-----------------------------------------------------------------------------
(* The file (CbtStorage): for any devices, sizes of pages, maps and file,  *)
(* and any number of stores.                                               *)

(* The order of the numbers is well-founded.                               *)
Less == {p \in Nat \X Nat : p[1] < p[2]}

LEMMA LessIsWellFounded == IsWellFoundedOn(Less, Nat)
  BY NatLessThanWellFounded, Zenon DEF OpToRel, Less

(* A set of numbers has a least one: what stands here for induction.       *)
LEMMA LeastOne ==
  ASSUME NEW T \in SUBSET Nat, T # {}
  PROVE  \E n \in T : \A m \in T : n <= m
<1>1. PICK n \in T : \A m \in T : ~ (<<m, n>> \in Less)
  BY LessIsWellFounded, WFMin
<1>2. ASSUME NEW m \in T, ~ (n <= m)  PROVE FALSE
  <2>1. m \in Nat /\ n \in Nat /\ m < n  BY <1>2
  <2>2. <<m, n>> \in Nat \X Nat  BY <2>1
  <2>3. <<m, n>> \in Less  BY <2>1, <2>2 DEF Less
  <2> QED  BY <2>3, <1>1
<1> QED  BY <1>2

(* What FlattenSeq makes of a sequence of sequences, step by step.         *)
Flattens(f, seqs, n) ==
  f[0] = <<>> /\ \A i \in 1 .. n : f[i] = f[i - 1] \o seqs[i]

(* There are such steps: the least length without them would have a        *)
(* predecessor with them.                                                  *)
LEMMA FlattenStepsExist ==
  ASSUME NEW S, NEW seqs \in Seq(Seq(S)), NEW n \in 0 .. Len(seqs)
  PROVE  \E f \in [0 .. n -> Seq(S)] : Flattens(f, seqs, n)
<1> DEFINE T == {k \in 0 .. Len(seqs) : ~ \E f \in [0 .. k -> Seq(S)] : Flattens(f, seqs, k)}
<1> SUFFICES ASSUME T # {} PROVE FALSE  OBVIOUS
<1>1. PICK k \in T : \A m \in T : k <= m
  <2>1. T \in SUBSET Nat  OBVIOUS
  <2> HIDE DEF T
  <2> QED  BY <2>1, LeastOne
<1>2. k # 0
  <2>1. [i \in 0 .. 0 |-> <<>>] \in [0 .. 0 -> Seq(S)]  OBVIOUS
  <2>2. Flattens([i \in 0 .. 0 |-> <<>>], seqs, 0)  BY DEF Flattens
  <2> QED  BY <2>1, <2>2
<1>3. k \in Nat /\ k - 1 \in 0 .. Len(seqs) /\ k - 1 \notin T
  <2>1. k \in 0 .. Len(seqs)  BY <1>1
  <2>2. k - 1 \in 0 .. Len(seqs) /\ ~ (k <= k - 1)  BY <2>1, <1>2
  <2> HIDE DEF T
  <2> QED  BY <2>1, <2>2, <1>1
<1>4. PICK f \in [0 .. k - 1 -> Seq(S)] : Flattens(f, seqs, k - 1)  BY <1>3
<1> DEFINE g == [i \in 0 .. k |-> IF i = k THEN f[k - 1] \o seqs[k] ELSE f[i]]
<1>5. g \in [0 .. k -> Seq(S)]
  <2>1. seqs[k] \in Seq(S) /\ f[k - 1] \in Seq(S)  BY <1>1, <1>2, <1>3
  <2>2. f[k - 1] \o seqs[k] \in Seq(S)  BY <2>1
  <2>3. \A i \in 0 .. k : i # k => f[i] \in Seq(S)  BY <1>3
  <2> QED  BY <2>2, <2>3
<1>6. Flattens(g, seqs, k)
  <2>1. g[0] = <<>>  BY <1>2, <1>3, <1>4 DEF Flattens
  <2>2. ASSUME NEW i \in 1 .. k  PROVE g[i] = g[i - 1] \o seqs[i]
    <3>1. i - 1 \in 0 .. k /\ i - 1 # k /\ i \in 0 .. k  BY <1>3
    <3>2. g[i - 1] = f[i - 1]  BY <3>1
    <3>3. CASE i = k  BY <3>1, <3>2, <3>3
    <3>4. CASE i # k
      <4>1. i \in 1 .. k - 1  BY <3>4, <1>3
      <4>2. g[i] = f[i]  BY <3>4, <3>1
      <4>3. f[i] = f[i - 1] \o seqs[i]  BY <4>1, <1>4 DEF Flattens
      <4> QED  BY <4>2, <4>3, <3>2
    <3> QED  BY <3>3, <3>4
  <2> QED  BY <2>1, <2>2 DEF Flattens
<1> QED  BY <1>1, <1>5, <1>6

(* FlattenSeq is the last of these steps.                                  *)
LEMMA FlattenSteps ==
  ASSUME NEW S, NEW seqs \in Seq(Seq(S))
  PROVE  \E f \in [0 .. Len(seqs) -> Seq(S)] :
           Flattens(f, seqs, Len(seqs)) /\ FlattenSeq(seqs) = f[Len(seqs)]
<1> DEFINE n == Len(seqs)
<1>1. n \in Nat  OBVIOUS
<1>2. PICK f \in [0 .. n -> Seq(S)] : Flattens(f, seqs, n)
  BY <1>1, FlattenStepsExist
<1>3. CASE n = 0
  <2>1. FlattenSeq(seqs) = seqs  BY <1>3 DEF FlattenSeq
  <2>2. seqs = <<>>  BY <1>3
  <2> QED  BY <2>1, <2>2, <1>2, <1>3 DEF Flattens
<1>4. CASE n # 0
  <2> DEFINE flatten[i \in 1 .. Len(seqs)] ==
               IF i = 1 THEN seqs[i] ELSE flatten[i - 1] \o seqs[i]
             h == [i \in 1 .. Len(seqs) |-> f[i]]
  <2>1. FlattenSeq(seqs) = flatten[Len(seqs)]  BY <1>4 DEF FlattenSeq
  <2>2. h = [i \in 1 .. Len(seqs) |-> IF i = 1 THEN seqs[i] ELSE h[i - 1] \o seqs[i]]
    <3>1. ASSUME NEW i \in 1 .. Len(seqs)
          PROVE  f[i] = IF i = 1 THEN seqs[i] ELSE h[i - 1] \o seqs[i]
      <4>1. f[i] = f[i - 1] \o seqs[i]  BY <1>2 DEF Flattens
      <4>2. seqs[i] \in Seq(S)  OBVIOUS
      <4>3. CASE i = 1
        <5>1. i - 1 = 0 /\ f[0] = <<>>  BY <4>3, <1>2 DEF Flattens
        <5>2. f[i] = <<>> \o seqs[i]  BY <4>1, <5>1
        <5> QED  BY <5>2, <4>2, <4>3
      <4>4. CASE i # 1
        <5>1. i - 1 \in 1 .. Len(seqs)  BY <4>4
        <5> QED  BY <5>1, <4>1, <4>4
      <4> QED  BY <4>3, <4>4
    <3> QED  BY <3>1
  <2> HIDE DEF h
  <2>3. flatten = [i \in 1 .. Len(seqs) |->
                     IF i = 1 THEN seqs[i] ELSE flatten[i - 1] \o seqs[i]]
    BY <2>2
  <2> HIDE DEF flatten
  <2> DEFINE T == {i \in 1 .. Len(seqs) : flatten[i] # f[i]}
  <2>4. T = {}
    <3> SUFFICES ASSUME T # {} PROVE FALSE  OBVIOUS
    <3>1. PICK i \in T : \A m \in T : i <= m
      <4>1. T \in SUBSET Nat  OBVIOUS
      <4> HIDE DEF T
      <4> QED  BY <4>1, LeastOne
    <3>2. i \in 1 .. Len(seqs) /\ flatten[i] # f[i]  BY <3>1
    <3>3. f[i] = f[i - 1] \o seqs[i]  BY <3>2, <1>2 DEF Flattens
    <3>4. CASE i = 1
      <4>1. flatten[i] = seqs[i]  BY <2>3, <3>2, <3>4
      <4>2. i - 1 = 0 /\ f[0] = <<>>  BY <3>4, <1>2 DEF Flattens
      <4>3. f[i] = <<>> \o seqs[i]  BY <3>3, <4>2
      <4>4. seqs[i] \in Seq(S)  BY <3>2
      <4> QED  BY <4>1, <4>3, <4>4, <3>2
    <3>5. CASE i # 1
      <4>1. flatten[i] = flatten[i - 1] \o seqs[i]  BY <2>3, <3>2, <3>5
      <4>2. i - 1 \in 1 .. Len(seqs) /\ ~ (i <= i - 1)  BY <3>2, <3>5
      <4>3. flatten[i - 1] = f[i - 1]  BY <4>2, <3>1
      <4> QED  BY <4>1, <4>3, <3>3, <3>2
    <3> QED  BY <3>4, <3>5
  <2>5. Len(seqs) \in 1 .. Len(seqs)  BY <1>1, <1>4
  <2>6. flatten[Len(seqs)] = f[Len(seqs)]  BY <2>4, <2>5
  <2> QED  BY <2>1, <2>6, <1>2
<1> QED  BY <1>3, <1>4

(* Where blocks of r cells end.                                            *)
LEMMA Blocks0 ==
  ASSUME NEW r \in Nat, NEW a \in Nat, NEW b \in Nat, a < b
  PROVE  r * a + r <= r * b /\ r * (a + 1) = r * a + r /\ r * a \in Nat /\ r * b \in Nat
<1> DEFINE c == b - a - 1
<1>1. c \in Nat /\ b = a + 1 + c  OBVIOUS
<1>2. r * c \in Nat /\ r * a \in Nat /\ r * b \in Nat  BY <1>1
<1>3. r * b = r * a + r + r * c  BY <1>1
<1>4. r * (a + 1) = r * a + r  OBVIOUS
<1> HIDE DEF c
<1> QED  BY <1>2, <1>3, <1>4

(* The cells of two sequences, one after the other.                        *)
LEMMA Joined ==
  ASSUME NEW S, NEW s \in Seq(S), NEW t \in Seq(S)
  PROVE  /\ s \o t \in Seq(S)
         /\ Len(s \o t) = Len(s) + Len(t)
         /\ \A i \in 1 .. Len(s) : (s \o t)[i] = s[i]
         /\ \A k \in 1 .. Len(t) : (s \o t)[Len(s) + k] = t[k]
  OBVIOUS

(* The cells of one entry.                                                 *)
LEMMA CellsOfEntry ==
  ASSUME NEW e \in StoredEntrySet, NEW n \in 0 .. MaxStores
  PROVE  /\ EntryCells(e, n) \in Seq(CellSet)
         /\ e.is = "stored" =>
              /\ Len(EntryCells(e, n)) = RegisterSize
              /\ EntryCells(e, n)[1].kind = "magic"
              /\ EntryCells(e, n)[2].dev = e.dev
              /\ \A k \in 1 .. MapCells : EntryCells(e, n)[2 + k] \in Range(MapOf(e.dev, n))
         /\ e.is = "error" =>
              /\ Len(EntryCells(e, n)) = 2
              /\ EntryCells(e, n)[1].kind = "error"
         /\ e.is = "inactive" => EntryCells(e, n) = <<>>
<1>1. e.dev \in DeviceIds \cup {NoDevice} /\ e.is \in {"stored", "error", "inactive"}
  BY DEF StoredEntrySet
<1>2. MapCells \in Nat  BY StorageAssumption
<1>3. \A kind \in {"magic", "dev", "error", "text", "map"}, i \in 0 .. MapCells :
        Cell(kind, e.dev, n, i) \in CellSet
  BY <1>1 DEF Cell, CellSet
<1>4. CASE e.is = "stored"
  <2>a. PICK two : two = <<Cell("magic", e.dev, n, 0), Cell("dev", e.dev, n, 0)>>  OBVIOUS
  <2>b. PICK body : body = MapOf(e.dev, n)  OBVIOUS
  <2>1. EntryCells(e, n) = two \o body  BY <1>4, <2>a, <2>b DEF EntryCells
  <2>2. two \in Seq(CellSet) /\ Len(two) = 2
    <3>1. Cell("magic", e.dev, n, 0) \in CellSet /\ Cell("dev", e.dev, n, 0) \in CellSet
      BY <1>3, <1>2
    <3> QED  BY <3>1, <2>a
  <2>c. body \in [1 .. MapCells -> CellSet]  BY <1>3, <1>2, <2>b DEF MapOf
  <2>3. body \in Seq(CellSet) /\ Len(body) = MapCells  BY <2>c, <1>2
  <2>4. two[1].kind = "magic" /\ two[2].dev = e.dev  BY <2>a DEF Cell
  <2>5. /\ two \o body \in Seq(CellSet)
        /\ Len(two \o body) = 2 + MapCells
        /\ (two \o body)[1] = two[1] /\ (two \o body)[2] = two[2]
        /\ \A k \in 1 .. MapCells : (two \o body)[2 + k] = body[k]
    <3>1. /\ two \o body \in Seq(CellSet)
          /\ Len(two \o body) = Len(two) + Len(body)
          /\ \A i \in 1 .. Len(two) : (two \o body)[i] = two[i]
          /\ \A k \in 1 .. Len(body) : (two \o body)[Len(two) + k] = body[k]
      <4>1. two \in Seq(CellSet) /\ body \in Seq(CellSet)  BY <2>2, <2>3
      <4> QED  BY <4>1, Joined
    <3>2. 1 \in 1 .. 2 /\ 2 \in 1 .. 2  OBVIOUS
    <3> QED  BY <3>1, <3>2, <2>2, <2>3, <1>2
  <2>6. \A k \in 1 .. MapCells : body[k] \in Range(body)  BY <2>c DEF Range
  <2> QED  BY <1>4, <2>b, <2>1, <2>4, <2>5, <2>6 DEF RegisterSize
<1>5. CASE e.is = "error"
  <2>1. EntryCells(e, n) = <<Cell("error", e.dev, n, 0), Cell("text", e.dev, n, 0)>>
    BY <1>5 DEF EntryCells
  <2>2. Cell("error", e.dev, n, 0).kind = "error"  BY DEF Cell
  <2> QED  BY <1>5, <2>1, <2>2, <1>3, <1>2
<1>6. CASE e.is = "inactive"
  BY <1>6 DEF EntryCells
<1> QED  BY <1>1, <1>4, <1>5, <1>6

(* The m-th register in a stream.                                          *)
RegisterAt(s, m, d, n) ==
  LET b == RegisterSize * (m - 1)
  IN /\ s[b + 1].kind = "magic"
     /\ s[b + 2].dev = d
     /\ \A k \in 1 .. MapCells : s[b + 2 + k] \in Range(MapOf(d, n))

(* A stream s begins with the registers of the devices ds.                 *)
BeginsWith(s, ds, n) ==
  /\ RegisterSize * Len(ds) <= Len(s)
  /\ \A m \in 1 .. Len(ds) : RegisterAt(s, m, ds[m], n)

(* More cells behind it leave the beginning of a stream.                   *)
LEMMA BeginningStays ==
  ASSUME NEW C, NEW D, NEW s \in Seq(C), NEW t \in Seq(C), NEW ds \in Seq(D), NEW n, BeginsWith(s, ds, n)
  PROVE  /\ BeginsWith(s \o t, ds, n)
         /\ Len(s \o t) = Len(s) + Len(t)
         /\ \A i \in 1 .. Len(s) : (s \o t)[i] = s[i]
<1>1. /\ Len(s \o t) = Len(s) + Len(t)
      /\ \A i \in 1 .. Len(s) : (s \o t)[i] = s[i]
  OBVIOUS
<1>2. RegisterSize \in Nat /\ RegisterSize = 2 + MapCells /\ MapCells \in Nat
  BY StorageAssumption DEF RegisterSize
<1>3. ASSUME NEW m \in 1 .. Len(ds)  PROVE RegisterAt(s \o t, m, ds[m], n)
  <2>1. RegisterAt(s, m, ds[m], n)  BY <1>3 DEF BeginsWith
  <2> DEFINE b == RegisterSize * (m - 1)
  <2>2. b \in Nat /\ b + RegisterSize <= Len(s)
    <3>1. m - 1 \in Nat /\ Len(ds) \in Nat /\ m - 1 < Len(ds)  OBVIOUS
    <3>2. b + RegisterSize <= RegisterSize * Len(ds) /\ b \in Nat
      BY <3>1, <1>2, Blocks0
    <3>3. RegisterSize * Len(ds) <= Len(s) /\ RegisterSize * Len(ds) \in Nat
      BY <1>2, <3>1 DEF BeginsWith
    <3> HIDE DEF b
    <3> QED  BY <3>2, <3>3, <1>2
  <2> HIDE DEF b
  <2>3. /\ b + 1 \in 1 .. Len(s) /\ b + 2 \in 1 .. Len(s)
        /\ \A k \in 1 .. MapCells : b + 2 + k \in 1 .. Len(s)
    BY <2>2, <1>2
  <2> QED  BY <2>1, <2>3, <1>1 DEF RegisterAt, b
<1>4. RegisterSize * Len(ds) <= Len(s \o t)
  <2>1. RegisterSize * Len(ds) \in Nat  BY <1>2
  <2> QED  BY <2>1, <1>1, <1>2 DEF BeginsWith
<1> QED  BY <1>1, <1>3, <1>4 DEF BeginsWith

(* The registers and the devices of the first i entries: f and g are what  *)
(* Stream and Deliverable have flattened so far.                           *)
SoundUpTo(entries, i) == \A j \in 1 .. i : entries[j].is # "error"

Told(entries, i) ==
  IF entries[i].is = "stored" /\ SoundUpTo(entries, i) THEN <<entries[i].dev>> ELSE <<>>

InStep(entries, n, i, s, ds) ==
  /\ BeginsWith(s, ds, n)
  /\ SoundUpTo(entries, i) => Len(s) = RegisterSize * Len(ds)
  /\ ~ SoundUpTo(entries, i) =>
       /\ RegisterSize * Len(ds) < Len(s)
       /\ s[RegisterSize * Len(ds) + 1].kind = "error"

(* One more entry: its register is added to a stream in which all were     *)
(* stored; behind an error nothing counts any more.                        *)
LEMMA OneMoreEntry ==
  ASSUME NEW entries \in Seq(StoredEntrySet), NEW n \in 0 .. MaxStores, NEW i \in 1 .. Len(entries),
         NEW s \in Seq(CellSet), NEW ds \in Seq(DeviceIds \cup {NoDevice}),
         InStep(entries, n, i - 1, s, ds)
  PROVE  InStep(entries, n, i, s \o EntryCells(entries[i], n), ds \o Told(entries, i))
<1>1. PICK e : e = entries[i]  OBVIOUS
<1>2. PICK c : c = EntryCells(e, n)  OBVIOUS
<1>3. e \in StoredEntrySet /\ e.is \in {"stored", "error", "inactive"} /\ e.dev \in DeviceIds \cup {NoDevice}
  <2>1. entries[i] \in StoredEntrySet  OBVIOUS
  <2> QED  BY <1>1, <2>1 DEF StoredEntrySet
<1>4. c \in Seq(CellSet)  BY <1>2, <1>3, CellsOfEntry
<1>5. RegisterSize \in Nat /\ RegisterSize = 2 + MapCells /\ MapCells \in Nat
  BY StorageAssumption DEF RegisterSize
<1>6. Len(ds) \in Nat /\ Len(s) \in Nat /\ RegisterSize * Len(ds) \in Nat  BY <1>5
<1>7. /\ BeginsWith(s \o c, ds, n)
      /\ Len(s \o c) = Len(s) + Len(c)
      /\ \A k \in 1 .. Len(s) : (s \o c)[k] = s[k]
  <2>1. BeginsWith(s, ds, n)  BY DEF InStep
  <2> QED  BY <1>4, <2>1, BeginningStays
<1>8. \A k \in 1 .. Len(c) : (s \o c)[Len(s) + k] = c[k]
  BY <1>4, Joined, SMTT(15)
<1>9. SoundUpTo(entries, i) <=> SoundUpTo(entries, i - 1) /\ e.is # "error"
  <2>1. i \in Nat /\ i - 1 \in Nat /\ \A j \in 1 .. i : j = i \/ j \in 1 .. i - 1  OBVIOUS
  <2>2. \A j \in 1 .. i - 1 : j \in 1 .. i  OBVIOUS
  <2>3. i \in 1 .. i  OBVIOUS
  <2> QED  BY <2>1, <2>2, <2>3, <1>1 DEF SoundUpTo
<1>10. CASE Told(entries, i) = <<>>
  <2>1. ds \o Told(entries, i) = ds  BY <1>10
  <2>2. CASE ~ SoundUpTo(entries, i - 1)
    <3>1. ~ SoundUpTo(entries, i)  BY <2>2, <1>9
    <3>2. RegisterSize * Len(ds) < Len(s) /\ s[RegisterSize * Len(ds) + 1].kind = "error"
      BY <2>2 DEF InStep
    <3>3. RegisterSize * Len(ds) + 1 \in 1 .. Len(s)  BY <3>2, <1>6
    <3>4. RegisterSize * Len(ds) < Len(s \o c)
      <4>1. Len(c) \in Nat  BY <1>4
      <4> QED  BY <4>1, <3>2, <1>6, <1>7
    <3> QED  BY <3>1, <3>2, <3>3, <3>4, <1>7, <2>1, <1>1, <1>2 DEF InStep
  <2>3. CASE SoundUpTo(entries, i - 1) /\ e.is = "error"
    <3>1. ~ SoundUpTo(entries, i)  BY <2>3, <1>9
    <3>2. Len(s) = RegisterSize * Len(ds)  BY <2>3 DEF InStep
    <3>3. Len(c) = 2 /\ c[1].kind = "error"  BY <2>3, <1>2, <1>3, CellsOfEntry
    <3>4. RegisterSize * Len(ds) < Len(s \o c)  BY <3>2, <3>3, <1>6, <1>7
    <3>5. (s \o c)[RegisterSize * Len(ds) + 1].kind = "error"
      <4>1. 1 \in 1 .. Len(c)  BY <3>3
      <4> QED  BY <4>1, <1>8, <3>2, <3>3
    <3> QED  BY <3>1, <3>4, <3>5, <1>7, <2>1, <1>1, <1>2 DEF InStep
  <2>4. CASE SoundUpTo(entries, i - 1) /\ e.is # "error"
    <3>1. SoundUpTo(entries, i)  BY <2>4, <1>9
    <3>2. e.is = "inactive"
      BY <3>1, <2>4, <1>3, <1>10, <1>1 DEF Told
    <3>3. c = <<>>  BY <3>2, <1>2, <1>3, CellsOfEntry
    <3>4. Len(s) = RegisterSize * Len(ds)  BY <2>4 DEF InStep
    <3>5. Len(s \o c) = Len(s)  BY <3>3
    <3> QED  BY <3>1, <3>4, <3>5, <1>7, <2>1, <1>1, <1>2 DEF InStep
  <2> QED  BY <2>2, <2>3, <2>4
<1>11. CASE Told(entries, i) # <<>>
  <2>1. e.is = "stored" /\ SoundUpTo(entries, i) /\ Told(entries, i) = <<e.dev>>
    BY <1>11, <1>1 DEF Told
  <2>2. Len(s) = RegisterSize * Len(ds)  BY <2>1, <1>9 DEF InStep
  <2>3. /\ Len(c) = RegisterSize /\ c[1].kind = "magic" /\ c[2].dev = e.dev
        /\ \A k \in 1 .. MapCells : c[2 + k] \in Range(MapOf(e.dev, n))
    BY <2>1, <1>2, <1>3, CellsOfEntry
  <2>4. PICK es : es = ds \o <<e.dev>>  OBVIOUS
  <2>5. /\ es \in Seq(DeviceIds \cup {NoDevice}) /\ Len(es) = Len(ds) + 1
        /\ es[Len(ds) + 1] = e.dev /\ \A m \in 1 .. Len(ds) : es[m] = ds[m]
    BY <2>4, <1>3
  <2>6. Len(s \o c) = RegisterSize * Len(es)
    <3>1. RegisterSize * (Len(ds) + 1) = RegisterSize * Len(ds) + RegisterSize
      BY <1>5, <1>6
    <3> QED  BY <3>1, <2>2, <2>3, <2>5, <1>7
  <2>7. ASSUME NEW m \in 1 .. Len(es)  PROVE RegisterAt(s \o c, m, es[m], n)
    <3>1. CASE m \in 1 .. Len(ds)
      BY <3>1, <2>5, <1>7 DEF BeginsWith
    <3>2. CASE m \notin 1 .. Len(ds)
      <4>1. m = Len(ds) + 1 /\ m - 1 = Len(ds)  BY <3>2, <2>5, <1>6
      <4>2. RegisterSize * (m - 1) = Len(s)  BY <4>1, <2>2
      <4>3. 1 \in 1 .. Len(c) /\ 2 \in 1 .. Len(c) /\ \A k \in 1 .. MapCells : 2 + k \in 1 .. Len(c)
        BY <2>3, <1>5
      <4>4. (s \o c)[Len(s) + 1] = c[1] /\ (s \o c)[Len(s) + 2] = c[2]
        BY <4>3, <1>8
      <4>5. ASSUME NEW k \in 1 .. MapCells  PROVE (s \o c)[Len(s) + 2 + k] = c[2 + k]
        <5>1. (s \o c)[Len(s) + (2 + k)] = c[2 + k]  BY <4>3, <1>8
        <5>2. Len(s) + (2 + k) = Len(s) + 2 + k  BY <1>6
        <5> QED  BY <5>1, <5>2
      <4>6. es[m] = e.dev  BY <4>1, <2>5
      <4> QED  BY <4>2, <4>4, <4>5, <4>6, <2>3 DEF RegisterAt
    <3> QED  BY <3>1, <3>2
  <2>8. BeginsWith(s \o c, es, n)
    <3>1. RegisterSize * Len(es) \in Nat
      <4>1. Len(es) \in Nat  BY <2>5
      <4> QED  BY <4>1, <1>5
    <3> QED  BY <3>1, <2>6, <2>7 DEF BeginsWith
  <2> QED  BY <2>1, <2>4, <2>6, <2>8, <1>1, <1>2 DEF InStep
<1> QED  BY <1>10, <1>11

(* A stream begins with the registers of the devices that are deliverable; *)
(* what comes behind them is not a register.                               *)
LEMMA StreamShape ==
  ASSUME NEW entries \in Seq(StoredEntrySet), NEW n \in 0 .. MaxStores
  PROVE  /\ Stream(entries, n) \in Seq(CellSet)
         /\ Deliverable(entries) \in Seq(DeviceIds \cup {NoDevice})
         /\ BeginsWith(Stream(entries, n), Deliverable(entries), n)
         /\ RegisterSize * Len(Deliverable(entries)) < Len(Stream(entries, n))
         /\ Stream(entries, n)[RegisterSize * Len(Deliverable(entries)) + 1].kind # "magic"
<1> DEFINE D == DeviceIds \cup {NoDevice}
           cells == [i \in DOMAIN entries |-> EntryCells(entries[i], n)]
           told == [i \in DOMAIN entries |-> Told(entries, i)]
<1>1. PICK k : k = Len(entries)  OBVIOUS
<1>2. k \in Nat /\ DOMAIN entries = 1 .. k /\ \A i \in 1 .. k : entries[i] \in StoredEntrySet
  BY <1>1
<1>3. cells \in Seq(Seq(CellSet)) /\ Len(cells) = k
  <2>1. cells \in [1 .. k -> Seq(CellSet)]  BY <1>2, CellsOfEntry
  <2> HIDE DEF cells
  <2> QED  BY <2>1, <1>2
<1>4. told \in Seq(Seq(D)) /\ Len(told) = k
  <2>1. \A i \in 1 .. k : entries[i].dev \in D  BY <1>2 DEF StoredEntrySet
  <2>2. ASSUME NEW i \in 1 .. k  PROVE Told(entries, i) \in Seq(D)
    <3>1. <<>> \in Seq(D)  OBVIOUS
    <3>2. entries[i].dev \in D  BY <2>1
    <3> HIDE DEF D
    <3>3. <<entries[i].dev>> \in Seq(D)  BY <3>2
    <3> QED  BY <3>1, <3>3 DEF Told
  <2>3. told \in [1 .. k -> Seq(D)]  BY <2>2, <1>2
  <2> HIDE DEF told, D
  <2> QED  BY <2>3, <1>2
<1>5. PICK f \in [0 .. k -> Seq(CellSet)] : Flattens(f, cells, k) /\ FlattenSeq(cells) = f[k]
  <2> HIDE DEF cells
  <2> QED  BY <1>3, FlattenSteps
<1>6. PICK g \in [0 .. k -> Seq(D)] : Flattens(g, told, k) /\ FlattenSeq(told) = g[k]
  <2> HIDE DEF told, D
  <2> QED  BY <1>4, FlattenSteps
<1>7. \A i \in 1 .. k : f[i] = f[i - 1] \o EntryCells(entries[i], n) /\ g[i] = g[i - 1] \o Told(entries, i)
  BY <1>2, <1>5, <1>6 DEF Flattens
<1>8. f[0] = <<>> /\ g[0] = <<>>  BY <1>5, <1>6 DEF Flattens
<1>9. RegisterSize \in Nat  BY StorageAssumption DEF RegisterSize
<1>10. InStep(entries, n, k, f[k], g[k])
  <2> DEFINE T == {i \in 0 .. k : ~ InStep(entries, n, i, f[i], g[i])}
  <2> SUFFICES ASSUME T # {} PROVE FALSE
    <3>1. k \in 0 .. k  BY <1>2
    <3> QED  BY <3>1
  <2>1. PICK i \in T : \A m \in T : i <= m
    <3>1. T \in SUBSET Nat  BY <1>2
    <3> HIDE DEF T
    <3> QED  BY <3>1, LeastOne
  <2>2. i \in 0 .. k /\ ~ InStep(entries, n, i, f[i], g[i])  BY <2>1
  <2>3. i # 0
    <3>1. SoundUpTo(entries, 0)  BY DEF SoundUpTo
    <3>2. Len(<<>>) = 0 /\ RegisterSize * 0 = 0  BY <1>9
    <3>3. InStep(entries, n, 0, <<>>, <<>>)  BY <3>1, <3>2 DEF InStep, BeginsWith
    <3> QED  BY <3>3, <1>8, <2>2
  <2>4. i \in 1 .. k /\ i - 1 \in 0 .. k /\ ~ (i <= i - 1)  BY <2>2, <2>3, <1>2
  <2>5. InStep(entries, n, i - 1, f[i - 1], g[i - 1])  BY <2>4, <2>1
  <2>6. f[i - 1] \in Seq(CellSet) /\ g[i - 1] \in Seq(D)  BY <2>4
  <2>7. InStep(entries, n, i, f[i - 1] \o EntryCells(entries[i], n), g[i - 1] \o Told(entries, i))
    BY <2>4, <2>5, <2>6, <1>1, OneMoreEntry
  <2> QED  BY <2>7, <1>7, <2>4, <2>2
<1>11. PICK s, ds : s = f[k] /\ ds = g[k]  OBVIOUS
<1>12. s \in Seq(CellSet) /\ ds \in Seq(D)  BY <1>11, <1>2
<1>13. PICK tail : tail = <<Cell("end", NoDevice, n, 0)>>  OBVIOUS
<1>14. tail \in Seq(CellSet) /\ Len(tail) = 1 /\ tail[1].kind = "end"
  <2>1. Cell("end", NoDevice, n, 0) \in CellSet
    BY StorageAssumption DEF Cell, CellSet
  <2>2. Cell("end", NoDevice, n, 0).kind = "end"  BY DEF Cell
  <2> QED  BY <2>1, <2>2, <1>13
<1>15. Stream(entries, n) = s \o tail  BY <1>5, <1>11, <1>13 DEF Stream
<1>16. Deliverable(entries) = ds
  <2>1. Deliverable(entries) = FlattenSeq(told)  BY DEF Deliverable, Told, SoundUpTo
  <2> QED  BY <2>1, <1>6, <1>11
<1>17. /\ BeginsWith(s, ds, n)
       /\ SoundUpTo(entries, k) => Len(s) = RegisterSize * Len(ds)
       /\ ~ SoundUpTo(entries, k) =>
            /\ RegisterSize * Len(ds) < Len(s)
            /\ s[RegisterSize * Len(ds) + 1].kind = "error"
  BY <1>10, <1>11 DEF InStep
<1>18. Len(ds) \in Nat /\ Len(s) \in Nat /\ RegisterSize * Len(ds) \in Nat  BY <1>12, <1>9
<1>19. /\ BeginsWith(s \o tail, ds, n)
       /\ Len(s \o tail) = Len(s) + 1
       /\ \A i \in 1 .. Len(s) : (s \o tail)[i] = s[i]
  <2>1. /\ s \in Seq(CellSet) /\ tail \in Seq(CellSet) /\ BeginsWith(s, ds, n)
        /\ ds \in Seq(DeviceIds \cup {NoDevice})
    BY <1>12, <1>14, <1>17
  <2> HIDE DEF D
  <2>2. /\ BeginsWith(s \o tail, ds, n)
        /\ Len(s \o tail) = Len(s) + Len(tail)
        /\ \A i \in 1 .. Len(s) : (s \o tail)[i] = s[i]
    BY <2>1, BeginningStays
  <2> QED  BY <2>2, <1>14
<1>20. (s \o tail)[Len(s) + 1].kind = "end"
  <2>1. 1 \in 1 .. Len(tail)  BY <1>14
  <2>3. s \in Seq(CellSet) /\ tail \in Seq(CellSet)  BY <1>12, <1>14
  <2>4. \A i \in 1 .. Len(tail) : (s \o tail)[Len(s) + i] = tail[i]  BY <2>3, Joined
  <2>2. (s \o tail)[Len(s) + 1] = tail[1]  BY <2>1, <2>4
  <2> QED  BY <2>2, <1>14
<1>21. RegisterSize * Len(ds) < Len(s \o tail) /\ (s \o tail)[RegisterSize * Len(ds) + 1].kind # "magic"
  <2>1. CASE SoundUpTo(entries, k)
    BY <2>1, <1>17, <1>18, <1>19, <1>20
  <2>2. CASE ~ SoundUpTo(entries, k)
    <3>1. RegisterSize * Len(ds) + 1 \in 1 .. Len(s)  BY <2>2, <1>17, <1>18
    <3> QED  BY <3>1, <2>2, <1>17, <1>18, <1>19
  <2> QED  BY <2>1, <2>2
<1>22. s \o tail \in Seq(CellSet)  BY <1>12, <1>14
<1> QED  BY <1>12, <1>15, <1>16, <1>19, <1>21, <1>22

(* The page and the place in it of a cell of the file.                     *)
LEMMA PlaceOf ==
  ASSUME NEW i \in 1 .. Total
  PROVE  /\ (i - 1) \div PageCells \in Pages
         /\ ((i - 1) % PageCells) + 1 \in 1 .. PageCells
         /\ i = ((i - 1) \div PageCells) * PageCells + ((i - 1) % PageCells) + 1
<1>1. PICK c : c = PageCells  OBVIOUS
<1>2. PICK l : l = LastPage  OBVIOUS
<1>3. c \in Nat /\ c > 0 /\ l \in Nat  BY <1>1, <1>2, StorageAssumption
<1>4. i \in 1 .. c * (l + 1)  BY <1>1, <1>2 DEF Total
<1>5. c * (l + 1) \in Nat  BY <1>3
<1>6. PICK q : q = (i - 1) \div c  OBVIOUS
<1>7. PICK r : r = (i - 1) % c  OBVIOUS
<1>8. i - 1 \in Nat /\ i - 1 < c * (l + 1)  BY <1>4, <1>5
<1>9. q \in Int /\ r \in 0 .. c - 1 /\ i - 1 = c * q + r
  BY <1>3, <1>6, <1>7, <1>8, SMTT(30)
<1>10. q >= 0
  <2> SUFFICES ASSUME q <= -1 PROVE FALSE  BY <1>9
  <2>1. c * q <= c * (-1)
    BY <1>3, <1>9
  <2> QED  BY <2>1, <1>3, <1>8, <1>9
<1>11. q <= l
  <2> SUFFICES ASSUME q >= l + 1 PROVE FALSE  BY <1>3, <1>9
  <2>1. c * (l + 1) <= c * q
    BY <1>3, <1>9
  <2> QED  BY <2>1, <1>3, <1>8, <1>9, <1>5
<1>12. c * q = q * c  BY <1>3, <1>9
<1>13. i = q * c + r + 1  BY <1>3, <1>4, <1>9, <1>12
<1> QED  BY <1>1, <1>2, <1>3, <1>6, <1>7, <1>9, <1>10, <1>11, <1>13 DEF Pages

(* What is known of the sizes.                                             *)
LEMMA StorageFacts ==
  /\ PageCells \in Nat /\ PageCells > 0 /\ LastPage \in Nat /\ MapCells \in Nat /\ MapCells > 0
  /\ MaxStores \in Nat /\ RegisterSize \in Nat /\ RegisterSize = 2 + MapCells
  /\ Total \in Nat /\ 0 \in Pages /\ Pages \in SUBSET Nat
<1>1. /\ PageCells \in Nat /\ PageCells > 0 /\ LastPage \in Nat /\ MapCells \in Nat /\ MapCells > 0
      /\ MaxStores \in Nat /\ RegisterSize \in Nat /\ RegisterSize = 2 + MapCells
  BY StorageAssumption DEF RegisterSize
<1>2. Total \in Nat
  <2>1. LastPage + 1 \in Nat  BY <1>1
  <2> QED  BY <1>1, <2>1 DEF Total
<1> QED  BY <1>1, <1>2 DEF Pages

(* What an empty page is made of.                                          *)
LEMMA BlankIsCell ==
  /\ Blank \in CellSet
  /\ Blanks(PageCells) \in [1 .. PageCells -> CellSet]
  /\ NoTime \in TimeSet
<1>1. Blank \in CellSet
  <2>1. 0 \in 0 .. MaxStores /\ 0 \in 0 .. MapCells  BY StorageFacts
  <2> QED  BY <2>1 DEF Blank, Cell, CellSet
<1>2. NoTime \in TimeSet
  <2>1. 0 \in 0 .. MaxStores  BY StorageFacts
  <2> QED  BY <2>1 DEF NoTime, TimeSet
<1> QED  BY <1>1, <1>2 DEF Blanks

(* Every cell of the file is one.                                          *)
LEMMA DiskCell ==
  ASSUME FileTypeOK, NEW i \in 1 .. Total
  PROVE  OnDisk(i) \in CellSet
<1>1. PICK q, r : q = (i - 1) \div PageCells /\ r = ((i - 1) % PageCells) + 1  OBVIOUS
<1>2. q \in Pages /\ r \in 1 .. PageCells  BY <1>1, PlaceOf
<1>3. disk[q] \in PageSet  BY <1>2 DEF FileTypeOK
<1>4. disk[q].data \in [1 .. PageCells -> CellSet]  BY <1>3 DEF PageSet
<1>5. disk[q].data[r] \in CellSet  BY <1>2, <1>4
<1> QED  BY <1>1, <1>5 DEF OnDisk

(* A cell of a field is read from the disk, at its place or behind it, or  *)
(* was not read at all.                                                    *)
LEMMA FieldCells ==
  ASSUME NEW from \in Nat, NEW size \in Nat, NEW k \in 1 .. size
  PROVE  \/ Field(from, size)[k] = Blank
         \/ \E j \in from + k .. from + size : Field(from, size)[k] = OnDisk(j)
<1>1. PICK over : over = {i \in Pieces(from, size) : k <= PieceLength(from, size, i)}
  OBVIOUS
<1>2. Field(from, size)[k] =
        IF over = {} THEN Blank
        ELSE OnDisk((CHOOSE i \in over : \A j \in over : j <= i) + k - 1)
  BY <1>1 DEF Field
<1>3. ASSUME NEW i \in over  PROVE i \in from + 1 .. from + size - k + 1
  <2>1. i \in from + 1 .. from + size  BY <1>1, <1>3 DEF Pieces
  <2>2. k <= PieceLength(from, size, i)  BY <1>1, <1>3
  <2>3. PageCells \in Nat /\ PageCells > 0  BY StorageFacts
  <2>4. PICK room : room = PageCells - ((i - 1) % PageCells)  OBVIOUS
  <2>5. room \in Int
    <3>1. (i - 1) % PageCells \in Int  BY <2>1, <2>3
    <3> QED  BY <3>1, <2>3, <2>4
  <2>6. PieceLength(from, size, i) = IF from + size - i + 1 < room THEN from + size - i + 1 ELSE room
    BY <2>4 DEF PieceLength
  <2>7. k <= from + size - i + 1  BY <2>1, <2>2, <2>5, <2>6
  <2> QED  BY <2>1, <2>7
<1>4. CASE over = {}  BY <1>2, <1>4
<1>5. CASE over # {}
  <2> DEFINE T == {m \in Nat : \A j \in over : j <= m}
  <2>1. T # {}
    <3>1. from + size \in T  BY <1>3
    <3> QED  BY <3>1
  <2>2. PICK m \in T : \A o \in T : m <= o
    <3>1. T \in SUBSET Nat  OBVIOUS
    <3> HIDE DEF T
    <3> QED  BY <2>1, <3>1, LeastOne
  <2>3. m \in Nat /\ \A j \in over : j <= m  BY <2>2
  <2>4. m \in over
    <3> SUFFICES ASSUME m \notin over PROVE FALSE  OBVIOUS
    <3>1. PICK j \in over : TRUE  BY <1>5
    <3>2. m >= 1  BY <3>1, <2>3, <1>3
    <3>3. \A i \in over : i <= m - 1
      <4>1. \A i \in over : i # m /\ i <= m /\ i \in Int  BY <1>3, <2>3
      <4> QED  BY <4>1, <2>3
    <3>4. m - 1 \in T  BY <3>2, <3>3, <2>3
    <3>5. ~ (m <= m - 1)  BY <2>3
    <3> HIDE DEF T
    <3> QED  BY <3>4, <3>5, <2>2
  <2>5. PICK c : c = CHOOSE i \in over : \A j \in over : j <= i  OBVIOUS
  <2>6. c \in over  BY <2>3, <2>4, <2>5
  <2>7. c + k - 1 \in from + k .. from + size  BY <2>6, <1>3
  <2>8. Field(from, size)[k] = OnDisk(c + k - 1)  BY <1>2, <1>5, <2>5
  <2> QED  BY <2>7, <2>8
<1> QED  BY <1>4, <1>5

(* A field of one cell is read from its place.                             *)
LEMMA FirstCell ==
  ASSUME NEW from \in Nat
  PROVE  Field(from, 1)[1] = OnDisk(from + 1)
<1>1. PICK over : over = {i \in Pieces(from, 1) : 1 <= PieceLength(from, 1, i)}
  OBVIOUS
<1>2. Field(from, 1)[1] =
        IF over = {} THEN Blank
        ELSE OnDisk((CHOOSE i \in over : \A j \in over : j <= i) + 1 - 1)
  <2>1. 1 \in 1 .. 1  OBVIOUS
  <2> QED  BY <1>1, <2>1 DEF Field
<1>3. over = {from + 1}
  <2>1. Pieces(from, 1) = {from + 1}
    <3>1. from + 1 .. from + 1 = {from + 1}  OBVIOUS
    <3> QED  BY <3>1 DEF Pieces
  <2>2. 1 <= PieceLength(from, 1, from + 1)
    <3>1. PageCells \in Nat /\ PageCells > 0  BY StorageFacts
    <3>2. PICK q : q = (from + 1 - 1) % PageCells  OBVIOUS
    <3>3. q \in 0 .. PageCells - 1
      <4>1. from + 1 - 1 = from  OBVIOUS
      <4> QED  BY <3>1, <3>2, <4>1
    <3>4. PieceLength(from, 1, from + 1) =
            IF from + 1 - (from + 1) + 1 < PageCells - q THEN from + 1 - (from + 1) + 1 ELSE PageCells - q
      BY <3>2 DEF PieceLength
    <3> QED  BY <3>1, <3>3, <3>4
  <2> QED  BY <1>1, <2>1, <2>2
<1>4. PICK c : c = CHOOSE i \in over : \A j \in over : j <= i  OBVIOUS
<1>5. c = from + 1  BY <1>3, <1>4
<1>6. over # {}  BY <1>3
<1>7. Field(from, 1)[1] = OnDisk(c + 1 - 1)  BY <1>2, <1>4, <1>6
<1>8. c + 1 - 1 = from + 1  BY <1>5
<1> QED  BY <1>7, <1>8

(* A field consists of cells.                                              *)
LEMMA FieldIsCells ==
  ASSUME FileTypeOK, NEW from \in Nat, NEW size \in Nat, from + size <= Total
  PROVE  Field(from, size) \in [1 .. size -> CellSet]
<1>1. ASSUME NEW k \in 1 .. size  PROVE Field(from, size)[k] \in CellSet
  <2>1. CASE Field(from, size)[k] = Blank  BY <2>1, BlankIsCell
  <2>2. CASE Field(from, size)[k] # Blank
    <3>1. PICK j \in from + k .. from + size : Field(from, size)[k] = OnDisk(j)
      BY <2>2, FieldCells
    <3>2. j \in 1 .. Total  BY StorageFacts
    <3> QED  BY <3>1, <3>2, DiskCell
  <2> QED  BY <2>1, <2>2
<1>2. \E f : Field(from, size) = [k \in 1 .. size |-> f[k]]
  <2> DEFINE over(k) == {i \in Pieces(from, size) : k <= PieceLength(from, size, i)}
             f == [k \in 1 .. size |-> 
                    IF over(k) = {} THEN Blank
                    ELSE OnDisk((CHOOSE i \in over(k) : \A j \in over(k) : j <= i) + k - 1)]
  <2>1. Field(from, size) = f  BY DEF Field
  <2>2. f = [k \in 1 .. size |-> f[k]]  OBVIOUS
  <2> QED  BY <2>1, <2>2
<1> QED  BY <1>1, <1>2

(* What the t-th store writes.                                             *)
Written(t) == Stream(stores[t], t)

(* The first pages of the file hold the beginning of s.                    *)
Matches(s, pages) ==
  \A p \in Pages, k \in 1 .. PageCells :
    p < pages /\ p * PageCells + k <= Len(s) => disk[p].data[k] = s[p * PageCells + k]

(* The whole of s is in the file.                                          *)
InFile(s) == Len(s) <= Total /\ Matches(s, LastPage + 1)

(* Only when it comes up or goes down does the module look at the pages.   *)
CheckedInv ==
  /\ CheckFails => pc \in {"off", "on"} /\ loaded = <<>>
  /\ pc \in {"off", "empty", "write", "wipe"} => loaded = <<>>
  /\ pc \in {"off", "empty"} => pos = 0

(* The time marker of the first page is the claim on a load.               *)
ClaimInv ==
  LET marker == disk[0].time.sec
      s == Len(stores)
  IN /\ \A n \in DOMAIN loads :
          /\ loads[n] <= 1
          /\ loads[n] > 0 => n <= s
          /\ loads[n] > 0 /\ marker > 0 => n < marker
     /\ marker <= s
     /\ pc = "empty" => time = disk[0].time /\ time.sec > 0
     /\ pc = "load" =>
          /\ marker = 0
          /\ time.sec \in 1 .. s /\ loads[time.sec] = 1
          /\ \A n \in DOMAIN loads : loads[n] > 0 => n <= time.sec
     /\ pc \in {"write", "wipe"} =>
          /\ s > 0 /\ time.sec = s /\ loads[s] = 0 /\ s \notin finished
          /\ page > 0 => disk[0].time = time
          /\ page = 0 => marker < s
     /\ pc = "wipe" => page > 0

(* Where the file stands in a store, and what a finished one leaves.       *)
ContentInv ==
  /\ disk[0].time.sec \in finished => InFile(Written(disk[0].time.sec))
  /\ pc = "load" /\ time.sec \in finished => InFile(Written(time.sec))
  /\ pc = "write" =>
       LET s == Written(Len(stores))
       IN /\ page * PageCells <= Len(s)
          /\ stream = SubSeq(s, page * PageCells + 1, Len(s))
          /\ Matches(s, page)
  /\ pc = "wipe" =>
       LET s == Written(Len(stores))
       IN /\ stream = <<>>
          /\ Len(s) <= page * PageCells
          /\ Matches(s, page)

(* So far the registers of the store that is loaded have been read.        *)
HaveRead(n) ==
  LET stored == Deliverable(stores[n])
  IN /\ Len(loaded) <= Len(stored)
     /\ \A i \in DOMAIN loaded : loaded[i].dev = stored[i]
     /\ \A i \in DOMAIN loaded :
          \A k \in 1 .. MapCells :
            loaded[i].map[k] \in Range(MapOf(stored[i], n)) \cup {Blank}

ReadInv ==
  pc = "load" /\ time.sec \in finished =>
    pos = RegisterSize * Len(loaded) /\ HaveRead(time.sec)

(* With a store that was finished nothing older is loaded.                 *)
PureInv == LastLoad \in finished => StoresRead \subseteq {LastLoad}

(* The inductive invariant.                                              *)
FileInv ==
  /\ FileTypeOK
  /\ CheckedInv
  /\ ClaimInv
  /\ ContentInv
  /\ ReadInv
  /\ PureInv
  /\ FinishedStoreIsRead

(* A store has one entry for each register on the list.                    *)
LEMMA ToStore ==
  ASSUME FileTypeOK, NEW entries \in EntriesToStore
  PROVE  entries \in Seq(StoredEntrySet)
<1>1. PICK f \in [DOMAIN listed -> {"stored", "error", "inactive"}] :
        entries = [i \in DOMAIN listed |-> [dev |-> listed[i], is |-> f[i]]]
  BY DEF EntriesToStore
<1>2. DOMAIN listed = 1 .. Len(listed) /\ Len(listed) \in Nat /\ \A i \in DOMAIN listed : listed[i] \in DeviceIds \cup {NoDevice}
  BY DEF FileTypeOK
<1>3. \A i \in 1 .. Len(listed) : [dev |-> listed[i], is |-> f[i]] \in StoredEntrySet
  BY <1>2 DEF StoredEntrySet
<1>4. entries \in [1 .. Len(listed) -> StoredEntrySet]  BY <1>1, <1>2, <1>3
<1> QED  BY <1>2, <1>4

(* The file that the service has prepared, and every step, keep the types. *)
LEMMA FileTypeInit == FileInit => FileTypeOK
<1> SUFFICES ASSUME FileInit PROVE FileTypeOK  OBVIOUS
<1>1. EmptyPage \in PageSet  BY BlankIsCell DEF EmptyPage, PageSet
<1>2. disk \in [Pages -> PageSet]  BY <1>1 DEF FileInit
<1>3. page \in 0 .. LastPage + 1 /\ pos \in 0 .. Total  BY StorageFacts DEF FileInit
<1>4. buf \in [1 .. PageCells -> CellSet] /\ time \in TimeSet  BY BlankIsCell DEF FileInit
<1>5. listed \in Seq(DeviceIds \cup {NoDevice}) /\ stream \in Seq(CellSet) /\ loaded \in Seq(LoadedSet)
      /\ stores \in Seq(Seq(StoredEntrySet))
  BY DEF FileInit
<1>6. Len(stores) <= MaxStores /\ finished \subseteq DOMAIN stores
  <2>1. Len(<<>>) = 0  OBVIOUS
  <2> QED  BY <2>1, StorageFacts DEF FileInit
<1> QED  BY <1>2, <1>3, <1>4, <1>5, <1>6 DEF FileInit, FileTypeOK

(* cbt_storage_close and a write of a page, with the cells that are due.   *)
LEMMA CloseTypes ==
  ASSUME Close
  PROVE  /\ page' \in 0 .. LastPage + 1 /\ pos' \in 0 .. Total
         /\ buf' \in [1 .. PageCells -> CellSet] /\ time' \in TimeSet /\ stream' \in Seq(CellSet)
  BY BlankIsCell, StorageFacts DEF Close

LEMMA WriteTypes ==
  ASSUME FileTypeOK, NEW p \in Pages, NEW t \in TimeSet, NEW data \in [1 .. PageCells -> CellSet],
         WriteTo(p, t, data)
  PROVE  /\ disk' \in [Pages -> PageSet] /\ page' \in 0 .. LastPage + 1
         /\ buf' \in [1 .. PageCells -> CellSet]
<1>1. [good |-> TRUE, time |-> t, data |-> data] \in PageSet  BY DEF PageSet
<1>2. disk' \in [Pages -> PageSet]  BY <1>1 DEF WriteTo, FileTypeOK
<1> QED  BY <1>2, StorageFacts DEF WriteTo, Pages

LEMMA FilledTypes ==
  ASSUME FileTypeOK
  PROVE  Filled \in [1 .. PageCells -> CellSet]
<1>1. ASSUME NEW i \in 1 .. PageCells, i <= Len(stream)  PROVE stream[i] \in CellSet
  <2>1. stream \in Seq(CellSet)  BY DEF FileTypeOK
  <2>2. i \in 1 .. Len(stream)  BY <1>1, <2>1
  <2> QED  BY <2>1, <2>2
<1>2. \A i \in 1 .. PageCells : buf[i] \in CellSet  BY DEF FileTypeOK
<1> QED  BY <1>1, <1>2 DEF Filled

LEMMA FileTypeStep == FileTypeOK /\ ClaimInv /\ [FileNext]_fileVars => FileTypeOK'
<1> SUFFICES ASSUME FileTypeOK, ClaimInv, [FileNext]_fileVars PROVE FileTypeOK'  OBVIOUS
<1> USE DEF historyVars
<1>0. disk[0] \in PageSet /\ disk[0].time \in TimeSet /\ disk[0].data \in [1 .. PageCells -> CellSet]
  BY StorageFacts DEF FileTypeOK, PageSet
<1>1. CASE UNCHANGED fileVars  BY <1>1 DEF FileTypeOK, fileVars, accessorVars
<1>2. CASE LoadNothing  BY <1>2 DEF LoadNothing, FileTypeOK, accessorVars
<1>3. CASE LoadBegin
  <2>1. page' \in 0 .. LastPage + 1 /\ pos' \in 0 .. Total  BY <1>3, StorageFacts DEF LoadBegin
  <2> QED  BY <1>0, <1>3, <2>1 DEF LoadBegin, FileTypeOK
<1>4. CASE SetEmpty
  <2>1. disk' \in [Pages -> PageSet]
    <3>1. [disk[0] EXCEPT !.time = NoTime] \in PageSet  BY <1>0, BlankIsCell DEF PageSet
    <3>2. disk' = [disk EXCEPT ![0] = [disk[0] EXCEPT !.time = NoTime]]
      BY <1>4 DEF SetEmpty
    <3> QED  BY <3>1, <3>2 DEF FileTypeOK
  <2>2. loads' \in [1 .. MaxStores -> Nat]
    <3>1. PICK n : n = time.sec  OBVIOUS
    <3>2. loads \in [1 .. MaxStores -> Nat] /\ loads' = [loads EXCEPT ![n] = loads[n] + 1]
      BY <1>4, <3>1 DEF SetEmpty, FileTypeOK
    <3>3. CASE n \in 1 .. MaxStores
      <4>1. loads[n] + 1 \in Nat  BY <3>2, <3>3
      <4> QED  BY <3>2, <4>1
    <3>4. CASE n \notin 1 .. MaxStores
      <4>1. loads' = loads  BY <3>2, <3>4
      <4> QED  BY <3>2, <4>1
    <3> QED  BY <3>3, <3>4
  <2> QED  BY <1>4, <2>1, <2>2 DEF SetEmpty, FileTypeOK, accessorVars
<1>5. CASE LoadFails  BY <1>5, CloseTypes DEF LoadFails, FileTypeOK
<1>6. CASE LoadLast  BY <1>6, CloseTypes DEF LoadLast, LoadEnds, FileTypeOK
<1>7. CASE LoadRegister
  <2>1. pos \in Nat /\ pos + RegisterSize <= Total /\ RegisterSize = 2 + MapCells
    BY <1>7, StorageFacts DEF LoadRegister, FileTypeOK
  <2>2. PICK d : d = Field(pos + 1, 1)[1].dev  OBVIOUS
  <2>3. PICK m : m = Field(pos + 2, MapCells)  OBVIOUS
  <2>4. d \in DeviceIds \cup {NoDevice}
    <3>1. OnDisk(pos + 1 + 1) \in CellSet  BY <2>1, StorageFacts, DiskCell
    <3>2. Field(pos + 1, 1)[1] = OnDisk(pos + 1 + 1)  BY <2>1, FirstCell
    <3> QED  BY <2>2, <3>1, <3>2 DEF CellSet
  <2>5. m \in [1 .. MapCells -> CellSet]  BY <2>1, <2>3, StorageFacts, FieldIsCells
  <2>6. listed' = <<d>> \o listed /\ loaded' = Append(loaded, [dev |-> d, map |-> m])
    BY <1>7, <2>2, <2>3 DEF LoadRegister
  <2>7. listed' \in Seq(DeviceIds \cup {NoDevice})  BY <2>4, <2>6 DEF FileTypeOK
  <2>8. loaded' \in Seq(LoadedSet)
    <3>1. [dev |-> d, map |-> m] \in LoadedSet  BY <2>4, <2>5 DEF LoadedSet
    <3>2. loaded \in Seq(LoadedSet)  BY DEF FileTypeOK
    <3> QED  BY <2>6, <3>1, <3>2
  <2>9. pos' \in 0 .. Total  BY <1>7, <2>1, StorageFacts DEF LoadRegister
  <2> QED  BY <1>7, <2>7, <2>8, <2>9 DEF LoadRegister, FileTypeOK
<1>8. CASE \E d \in DeviceIds : RegisterDevice(d)
  <2>1. PICK d \in DeviceIds : RegisterDevice(d)  BY <1>8
  <2>2. listed' \in Seq(DeviceIds \cup {NoDevice})  BY <2>1 DEF RegisterDevice, FileTypeOK
  <2> QED  BY <2>1, <2>2 DEF RegisterDevice, FileTypeOK, accessorVars
<1>9. CASE \E d \in DeviceIds : UnregisterDevice(d)
  <2>1. PICK d \in DeviceIds : UnregisterDevice(d)  BY <1>9
  <2>2. PICK i \in DOMAIN listed : listed' = RemoveAt(listed, i)  BY <2>1 DEF UnregisterDevice
  <2>3. listed' \in Seq(DeviceIds \cup {NoDevice})
    <3>1. listed \in Seq(DeviceIds \cup {NoDevice})  BY DEF FileTypeOK
    <3>2. Len(listed) \in Nat /\ i \in 1 .. Len(listed)  BY <3>1
    <3>3. SubSeq(listed, 1, i - 1) \in Seq(DeviceIds \cup {NoDevice})
          /\ SubSeq(listed, i + 1, Len(listed)) \in Seq(DeviceIds \cup {NoDevice})
      BY <3>1, <3>2
    <3> QED  BY <2>2, <3>3 DEF RemoveAt
  <2> QED  BY <2>1, <2>3 DEF UnregisterDevice, FileTypeOK, accessorVars
<1>10. CASE \E entries \in EntriesToStore, ns \in Nanoseconds : StoreBegin(entries, ns)
  <2>1. PICK entries \in EntriesToStore, ns \in Nanoseconds : StoreBegin(entries, ns)  BY <1>10
  <2>2. PICK n : n = Len(stores) + 1  OBVIOUS
  <2>3. n \in 0 .. MaxStores
    <3>1. Len(stores) \in Nat /\ n <= MaxStores  BY <2>1, <2>2 DEF StoreBegin, FileTypeOK
    <3> QED  BY <2>2, <3>1, StorageFacts
  <2>4. entries \in Seq(StoredEntrySet)  BY ToStore
  <2>5. stream' \in Seq(CellSet)
    <3>1. stream' = Stream(entries, n)  BY <2>1, <2>2 DEF StoreBegin
    <3> QED  BY <2>3, <2>4, <3>1, StreamShape
  <2>6. time' \in TimeSet  BY <2>1, <2>2, <2>3 DEF StoreBegin, TimeSet
  <2>7. /\ stores' \in Seq(Seq(StoredEntrySet)) /\ Len(stores') <= MaxStores
        /\ finished' \subseteq DOMAIN stores'
    <3>1. stores \in Seq(Seq(StoredEntrySet)) /\ finished \subseteq DOMAIN stores  BY DEF FileTypeOK
    <3>2. stores' = Append(stores, entries) /\ finished' = finished  BY <2>1 DEF StoreBegin
    <3>3. Len(stores') = n /\ stores' \in Seq(Seq(StoredEntrySet))  BY <2>2, <2>4, <3>1, <3>2
    <3>4. DOMAIN stores \subseteq DOMAIN stores'  BY <2>2, <3>1, <3>3
    <3> QED  BY <2>3, <3>1, <3>2, <3>3, <3>4
  <2>8. page' \in 0 .. LastPage + 1  BY <2>1, StorageFacts DEF StoreBegin
  <2> QED  BY <1>0, <2>1, <2>5, <2>6, <2>7, <2>8 DEF StoreBegin, FileTypeOK
<1>11. CASE WritePage
  <2>1. page \in Pages  BY <1>11, StorageFacts DEF WritePage, FileTypeOK, Pages
  <2>2. disk' \in [Pages -> PageSet] /\ page' \in 0 .. LastPage + 1 /\ buf' \in [1 .. PageCells -> CellSet]
    BY <1>11, <2>1, FilledTypes, WriteTypes DEF WritePage, FileTypeOK
  <2>3. stream' \in Seq(CellSet)
    <3>1. stream \in Seq(CellSet) /\ stream' = SubSeq(stream, PageCells + 1, Len(stream))
      BY <1>11 DEF WritePage, FileTypeOK
    <3> QED  BY <3>1, StorageFacts
  <2> QED  BY <1>11, <2>2, <2>3 DEF WritePage, FileTypeOK
<1>12. CASE WriteLast
  <2>1. page \in Pages  BY <1>12, StorageFacts DEF WriteLast, FileTypeOK, Pages
  <2>2. disk' \in [Pages -> PageSet] /\ page' \in 0 .. LastPage + 1 /\ buf' \in [1 .. PageCells -> CellSet]
    BY <1>12, <2>1, FilledTypes, WriteTypes DEF WriteLast, FileTypeOK
  <2>3. stream' \in Seq(CellSet)  BY <1>12 DEF WriteLast
  <2> QED  BY <1>12, <2>2, <2>3 DEF WriteLast, FileTypeOK
<1>13. CASE WipePage
  <2>1. page \in Pages  BY <1>13, StorageFacts DEF WipePage, FileTypeOK, Pages
  <2>2. disk' \in [Pages -> PageSet] /\ page' \in 0 .. LastPage + 1 /\ buf' \in [1 .. PageCells -> CellSet]
    BY <1>13, <2>1, BlankIsCell, WriteTypes DEF WipePage
  <2> QED  BY <1>13, <2>2 DEF WipePage, FileTypeOK
<1>14. CASE StoreEnds
  <2>1. finished' \subseteq DOMAIN stores'
    <3>1. Len(stores) \in Nat /\ Len(stores) > 0  BY <1>14 DEF StoreEnds, ClaimInv, FileTypeOK
    <3>2. Len(stores) \in DOMAIN stores
      <4>1. DOMAIN stores = 1 .. Len(stores)  BY DEF FileTypeOK
      <4> QED  BY <3>1, <4>1
    <3> QED  BY <1>14, <3>2 DEF StoreEnds, FileTypeOK
  <2> QED  BY <1>14, <2>1, CloseTypes DEF StoreEnds, GoesOff, FileTypeOK
<1>15. CASE StoreFails  BY <1>15, CloseTypes DEF StoreFails, GoesOff, FileTypeOK
<1>16. CASE PowerFails
  <2>1. disk' \in [Pages -> PageSet]
    <3>1. CASE UNCHANGED disk  BY <3>1 DEF FileTypeOK
    <3>2. CASE page <= LastPage /\ disk' = [disk EXCEPT ![page].good = FALSE]
      <4>1. page \in Pages  BY <3>2, StorageFacts DEF FileTypeOK, Pages
      <4>2. [disk[page] EXCEPT !.good = FALSE] \in PageSet  BY <4>1 DEF FileTypeOK, PageSet
      <4>3. disk' = [disk EXCEPT ![page] = [disk[page] EXCEPT !.good = FALSE]]  BY <3>2
      <4> QED  BY <4>2, <4>3 DEF FileTypeOK
    <3> QED  BY <1>16, <3>1, <3>2 DEF PowerFails
  <2> QED  BY <1>16, <2>1, CloseTypes DEF PowerFails, GoesOff, FileTypeOK
<1> QED
  BY <1>1, <1>2, <1>3, <1>4, <1>5, <1>6, <1>7, <1>8, <1>9, <1>10, <1>11, <1>12, <1>13,
     <1>14, <1>15, <1>16 DEF FileNext, FileLoad, FileStore

(* A write touches one page.                                               *)
LEMMA AfterWrite ==
  ASSUME FileTypeOK, NEW p \in Pages, NEW t, NEW data, WriteTo(p, t, data)
  PROVE  /\ disk'[p] = [good |-> TRUE, time |-> t, data |-> data]
         /\ \A q \in Pages : q # p => disk'[q] = disk[q]
         /\ page' = p + 1
  BY DEF FileTypeOK, WriteTo

(* No page is bad while the module reads or writes the file.               *)
LEMMA CheckedInit == FileInit => CheckedInv
<1> SUFFICES ASSUME FileInit PROVE CheckedInv  OBVIOUS
<1>1. ~ CheckFails  BY DEF FileInit, EmptyPage, CheckFails
<1> QED  BY <1>1 DEF FileInit, CheckedInv

LEMMA CheckedStep == FileTypeOK /\ CheckedInv /\ [FileNext]_fileVars => CheckedInv'
<1> SUFFICES ASSUME FileTypeOK, CheckedInv, [FileNext]_fileVars PROVE CheckedInv'  OBVIOUS
<1>0. UNCHANGED disk => (CheckFails' <=> CheckFails)  BY DEF CheckFails
<1>a. ASSUME GoesOff  PROVE CheckedInv'  BY <1>a DEF GoesOff, Close, CheckedInv
<1>b. ASSUME NEW p \in Pages, NEW t, NEW data, WriteTo(p, t, data), ~ CheckFails  PROVE ~ CheckFails'
  <2>1. \A q \in Pages : disk[q].good  BY <1>b DEF CheckFails
  <2>3. /\ disk'[p] = [good |-> TRUE, time |-> t, data |-> data]
        /\ \A q \in Pages : q # p => disk'[q] = disk[q]
    BY <1>b, AfterWrite
  <2>2. \A q \in Pages : disk'[q].good  BY <2>1, <2>3
  <2> QED  BY <2>2 DEF CheckFails
<1>1. CASE UNCHANGED fileVars  BY <1>0, <1>1 DEF CheckedInv, fileVars, accessorVars
<1>2. CASE LoadNothing  BY <1>0, <1>2 DEF LoadNothing, CheckedInv
<1>3. CASE LoadBegin  BY <1>0, <1>3 DEF LoadBegin, CheckedInv
<1>4. CASE SetEmpty
  <2>1. ~ CheckFails'
    <3>1. \A q \in Pages : disk[q].good  BY <1>4 DEF CheckFails, SetEmpty, CheckedInv
    <3>2. \A q \in Pages : disk'[q].good = disk[q].good  BY <1>4 DEF SetEmpty, FileTypeOK, PageSet
    <3> QED  BY <3>1, <3>2 DEF CheckFails
  <2> QED  BY <1>4, <2>1 DEF SetEmpty, CheckedInv
<1>5. CASE LoadFails  BY <1>0, <1>5 DEF LoadFails, CheckedInv
<1>6. CASE LoadLast  BY <1>0, <1>6 DEF LoadLast, LoadEnds, CheckedInv
<1>7. CASE LoadRegister  BY <1>0, <1>7 DEF LoadRegister, CheckedInv
<1>8. CASE \E d \in DeviceIds : RegisterDevice(d)  BY <1>0, <1>8 DEF RegisterDevice, CheckedInv
<1>9. CASE \E d \in DeviceIds : UnregisterDevice(d)  BY <1>0, <1>9 DEF UnregisterDevice, CheckedInv
<1>10. CASE \E entries \in EntriesToStore, ns \in Nanoseconds : StoreBegin(entries, ns)
  BY <1>0, <1>10 DEF StoreBegin, CheckedInv
<1>11. CASE WritePage
  <2>1. page \in Pages  BY <1>11, StorageFacts DEF WritePage, FileTypeOK, Pages
  <2>2. ~ CheckFails'  BY <1>11, <1>b, <2>1 DEF WritePage, CheckedInv
  <2> QED  BY <1>11, <2>2 DEF WritePage, CheckedInv
<1>12. CASE WriteLast
  <2>1. page \in Pages  BY <1>12, StorageFacts DEF WriteLast, FileTypeOK, Pages
  <2>2. ~ CheckFails'  BY <1>12, <1>b, <2>1 DEF WriteLast, CheckedInv
  <2> QED  BY <1>12, <2>2 DEF WriteLast, CheckedInv
<1>13. CASE WipePage
  <2>1. page \in Pages  BY <1>13, StorageFacts DEF WipePage, FileTypeOK, Pages
  <2>2. ~ CheckFails'  BY <1>13, <1>b, <2>1 DEF WipePage, CheckedInv
  <2> QED  BY <1>13, <2>2 DEF WipePage, CheckedInv
<1>14. CASE StoreEnds  BY <1>14, <1>a DEF StoreEnds
<1>15. CASE StoreFails  BY <1>15, <1>a DEF StoreFails
<1>16. CASE PowerFails  BY <1>16, <1>a DEF PowerFails
<1> QED
  BY <1>1, <1>2, <1>3, <1>4, <1>5, <1>6, <1>7, <1>8, <1>9, <1>10, <1>11, <1>12, <1>13,
     <1>14, <1>15, <1>16 DEF FileNext, FileLoad, FileStore

(* The first page has the time of a store that was not loaded, or none.    *)
LEMMA ClaimInit == FileInit => ClaimInv
<1> SUFFICES ASSUME FileInit PROVE ClaimInv  OBVIOUS
<1>1. disk[0].time.sec = 0  BY StorageFacts DEF FileInit, EmptyPage, NoTime
<1>2. Len(stores) = 0 /\ \A n \in DOMAIN loads : loads[n] = 0  BY DEF FileInit
<1> QED  BY <1>1, <1>2 DEF FileInit, ClaimInv

LEMMA ClaimStep == FileTypeOK /\ ClaimInv /\ [FileNext]_fileVars => ClaimInv'
<1> SUFFICES ASSUME FileTypeOK, ClaimInv, [FileNext]_fileVars PROVE ClaimInv'  OBVIOUS
<1> USE DEF historyVars
<1>n. /\ disk[0].time \in TimeSet /\ disk[0].time.sec \in Nat /\ time.sec \in Nat /\ Len(stores) \in Nat
      /\ Len(stores) <= MaxStores /\ DOMAIN loads = 1 .. MaxStores /\ page \in Nat
      /\ \A n \in 1 .. MaxStores : loads[n] \in Nat
      /\ finished \subseteq 1 .. Len(stores)
  <2>1. disk[0] \in PageSet  BY StorageFacts DEF FileTypeOK
  <2>2. disk[0].time \in TimeSet /\ time \in TimeSet  BY <2>1 DEF FileTypeOK, PageSet
  <2>3. disk[0].time.sec \in Nat /\ time.sec \in Nat  BY <2>2, StorageFacts DEF TimeSet
  <2>4. /\ stores \in Seq(Seq(StoredEntrySet)) /\ Len(stores) <= MaxStores
        /\ finished \subseteq DOMAIN stores
    BY DEF FileTypeOK
  <2>5. page \in Nat  BY StorageFacts DEF FileTypeOK
  <2>6. DOMAIN loads = 1 .. MaxStores /\ \A n \in 1 .. MaxStores : loads[n] \in Nat
    BY DEF FileTypeOK
  <2> QED  BY <2>2, <2>3, <2>4, <2>5, <2>6
<1>a. ASSUME disk'[0].time = disk[0].time, UNCHANGED <<stores, loads>>, pc' \in {"off", "on"}
      PROVE  ClaimInv'
  BY <1>a DEF ClaimInv
<1>b. ASSUME NEW t \in {"write", "wipe"}, NEW data,
             pc \in {"write", "wipe"}, pc' = t, page \in Pages, WriteTo(page, time, data),
             UNCHANGED <<stores, loads, finished, time>>
      PROVE  ClaimInv'
  <2>1. page' > 0 /\ disk'[0].time = time
    <3>2. /\ disk'[page] = [good |-> TRUE, time |-> time, data |-> data]
          /\ \A q \in Pages : q # page => disk'[q] = disk[q]
          /\ page' = page + 1
      BY <1>b, AfterWrite
    <3>1. page' = page + 1 /\ disk'[page].time = time /\ (page # 0 => disk'[0] = disk[0])
      BY <3>2, StorageFacts
    <3> QED  BY <1>b, <1>n, <3>1 DEF ClaimInv
  <2>2. \A n \in DOMAIN loads : loads[n] > 0 => n < Len(stores)
    BY <1>b, <1>n DEF ClaimInv
  <2> QED  BY <1>b, <1>n, <2>1, <2>2 DEF ClaimInv
<1>1. CASE UNCHANGED fileVars  BY <1>1 DEF ClaimInv, fileVars, accessorVars
<1>2. CASE LoadNothing  BY <1>2, <1>a DEF LoadNothing
<1>3. CASE LoadBegin  BY <1>3, <1>n DEF LoadBegin, ClaimInv, IsEmpty
<1>4. CASE SetEmpty
  <2>1. PICK t : t = time.sec  OBVIOUS
  <2>2. t \in 1 .. Len(stores) /\ t = disk[0].time.sec /\ t \in 1 .. MaxStores
    <3>1. t = disk[0].time.sec /\ t > 0 /\ t <= Len(stores)
      BY <1>4, <2>1 DEF SetEmpty, ClaimInv
    <3>2. PICK l : l = Len(stores)  OBVIOUS
    <3>3. l \in Nat /\ l <= MaxStores /\ MaxStores \in Nat  BY <1>n, <3>2, StorageFacts
    <3>4. t \in Nat  BY <1>n, <3>1
    <3>5. t \in 1 .. l /\ t \in 1 .. MaxStores  BY <3>1, <3>2, <3>3, <3>4
    <3> QED  BY <3>1, <3>2, <3>5
  <2>3. loads[t] = 0 /\ \A n \in DOMAIN loads : loads[n] > 0 => n < t
    BY <1>n, <2>2 DEF ClaimInv
  <2>4. /\ DOMAIN loads' = DOMAIN loads /\ loads'[t] = 1
        /\ \A n \in DOMAIN loads : n # t => loads'[n] = loads[n]
    <3>1. loads \in [1 .. MaxStores -> Nat]  BY DEF FileTypeOK
    <3>2. loads' = [loads EXCEPT ![t] = loads[t] + 1]  BY <1>4, <2>1 DEF SetEmpty
    <3> QED  BY <3>1, <3>2, <2>2, <2>3
  <2>5. disk'[0].time.sec = 0
    <3>1. disk \in [Pages -> PageSet]  BY DEF FileTypeOK
    <3>2. disk'[0].time = NoTime  BY <1>4, <3>1, StorageFacts DEF SetEmpty, PageSet
    <3> QED  BY <3>2 DEF NoTime
  <2>6. \A n \in DOMAIN loads : n \in Nat /\ loads[n] \in Nat  BY <1>n
  <2>7. pc' = "load" /\ UNCHANGED <<stores, time>>  BY <1>4 DEF SetEmpty, accessorVars
  <2>8. \A n \in DOMAIN loads' : loads'[n] <= 1 /\ (loads'[n] > 0 => n <= t)
    BY <2>2, <2>3, <2>4, <2>6 DEF ClaimInv
  <2>9. \A n \in DOMAIN loads' : loads'[n] > 0 => n <= Len(stores)
    BY <1>n, <2>2, <2>4, <2>6, <2>8
  <2>10. time'.sec \in 1 .. Len(stores') /\ loads'[time'.sec] = 1 /\ stores' = stores
    BY <2>1, <2>2, <2>4, <2>7
  <2>11. \A n \in DOMAIN loads' : loads'[n] > 0 => n <= time'.sec
    BY <2>1, <2>7, <2>8
  <2>12. 0 <= Len(stores) /\ ~ (0 > 0)  BY <1>n
  <2> QED  BY <2>5, <2>7, <2>8, <2>9, <2>10, <2>11, <2>12 DEF ClaimInv
<1>5. CASE LoadFails  BY <1>5, <1>a DEF LoadFails
<1>6. CASE LoadLast  BY <1>6, <1>a DEF LoadLast, LoadEnds
<1>7. CASE LoadRegister  BY <1>7 DEF LoadRegister, ClaimInv
<1>8. CASE \E d \in DeviceIds : RegisterDevice(d)  BY <1>8, <1>a DEF RegisterDevice
<1>9. CASE \E d \in DeviceIds : UnregisterDevice(d)  BY <1>9, <1>a DEF UnregisterDevice
<1>10. CASE \E entries \in EntriesToStore, ns \in Nanoseconds : StoreBegin(entries, ns)
  <2>1. PICK entries \in EntriesToStore, ns \in Nanoseconds : StoreBegin(entries, ns)  BY <1>10
  <2>2. PICK n : n = Len(stores) + 1  OBVIOUS
  <2>3. n \in 1 .. MaxStores  BY <1>n, <2>1, <2>2 DEF StoreBegin
  <2>4. Len(stores') = n
    <3>1. stores \in Seq(Seq(StoredEntrySet)) /\ stores' = Append(stores, entries)
      BY <2>1 DEF StoreBegin, FileTypeOK
    <3> QED  BY <2>2, <3>1
  <2>5. loads[n] = 0 /\ n \notin finished
    BY <1>n, <2>2, <2>3 DEF ClaimInv
  <2>6. pc' = "write" /\ page' = 0 /\ time'.sec = n /\ UNCHANGED <<disk, loads, finished>>
    BY <2>1, <2>2 DEF StoreBegin
  <2> QED  BY <1>n, <2>2, <2>3, <2>4, <2>5, <2>6 DEF ClaimInv
<1>11. CASE WritePage
  <2>1. page \in Pages  BY <1>11, StorageFacts DEF WritePage, FileTypeOK, Pages
  <2> QED  BY <1>11, <1>b, <2>1 DEF WritePage
<1>12. CASE WriteLast
  <2>1. page \in Pages  BY <1>12, StorageFacts DEF WriteLast, FileTypeOK, Pages
  <2> QED  BY <1>12, <1>b, <2>1 DEF WriteLast
<1>13. CASE WipePage
  <2>1. page \in Pages  BY <1>13, StorageFacts DEF WipePage, FileTypeOK, Pages
  <2>2. page > 0 /\ disk[0].time = time  BY <1>13 DEF WipePage, ClaimInv
  <2>3. disk'[0] = disk[0] /\ page' > 0
    <3>1. WriteTo(page, NoTime, Blanks(PageCells))  BY <1>13 DEF WipePage
    <3>2. page' = page + 1 /\ \A q \in Pages : q # page => disk'[q] = disk[q]
      BY <2>1, <3>1, AfterWrite
    <3> QED  BY <1>n, <2>2, <3>2, StorageFacts
  <2> QED  BY <1>13, <1>n, <2>2, <2>3 DEF WipePage, ClaimInv
<1>14. CASE StoreEnds  BY <1>14, <1>a DEF StoreEnds, GoesOff
<1>15. CASE StoreFails  BY <1>15, <1>a DEF StoreFails, GoesOff
<1>16. CASE PowerFails
  <2>1. disk'[0].time = disk[0].time
    <3>1. disk \in [Pages -> PageSet] /\ 0 \in Pages  BY StorageFacts DEF FileTypeOK
    <3>2. disk' = disk \/ disk' = [disk EXCEPT ![page].good = FALSE]  BY <1>16 DEF PowerFails
    <3>3. CASE disk' = [disk EXCEPT ![page].good = FALSE]
      <4>1. disk'[0] = disk[0] \/ disk'[0] = [disk[0] EXCEPT !.good = FALSE]
        BY <3>1, <3>3
      <4>2. disk[0] \in PageSet  BY <3>1
      <4> QED  BY <4>1, <4>2 DEF PageSet
    <3> QED  BY <3>2, <3>3
  <2> QED  BY <1>16, <1>a, <2>1 DEF PowerFails, GoesOff
<1> QED
  BY <1>1, <1>2, <1>3, <1>4, <1>5, <1>6, <1>7, <1>8, <1>9, <1>10, <1>11, <1>12, <1>13,
     <1>14, <1>15, <1>16 DEF FileNext, FileLoad, FileStore

(* The stores so far.                                                      *)
LEMMA WrittenIsStream ==
  ASSUME FileTypeOK, NEW t \in 1 .. Len(stores)
  PROVE  stores[t] \in Seq(StoredEntrySet) /\ Written(t) \in Seq(CellSet) /\ t \in 1 .. MaxStores
<1>1. stores \in Seq(Seq(StoredEntrySet)) /\ Len(stores) <= MaxStores  BY DEF FileTypeOK
<1>2. stores[t] \in Seq(StoredEntrySet)  BY <1>1
<1>3. t \in 1 .. MaxStores /\ t \in 0 .. MaxStores  BY <1>1, StorageFacts
<1>4. Stream(stores[t], t) \in Seq(CellSet)  BY <1>2, <1>3, StreamShape
<1> QED  BY <1>2, <1>3, <1>4 DEF Written

(* Nothing but the time or the CRC of pages is touched.                    *)
LEMMA InFileStays ==
  ASSUME FileTypeOK, NEW t, InFile(Written(t)), stores'[t] = stores[t],
         \A p \in Pages : disk'[p].data = disk[p].data
  PROVE  InFile(Written(t))'
<1>1. PICK s : s = Written(t)  OBVIOUS
<1>2. Written(t)' = s  BY <1>1 DEF Written
<1>3. Len(s) <= Total /\ Matches(s, LastPage + 1)  BY <1>1 DEF InFile
<1>4. \A p \in Pages, k \in 1 .. PageCells :
        p < LastPage + 1 /\ p * PageCells + k <= Len(s) => disk'[p].data[k] = s[p * PageCells + k]
  BY <1>3 DEF Matches
<1> QED  BY <1>2, <1>3, <1>4 DEF InFile, Matches

(* One more page of s is written.                                          *)
LEMMA MatchesOneMore ==
  ASSUME FileTypeOK, NEW s, page \in Pages, Matches(s, page), NEW t, NEW data, WriteTo(page, t, data),
         \A k \in 1 .. PageCells : page * PageCells + k <= Len(s) => data[k] = s[page * PageCells + k]
  PROVE  \A p \in Pages, k \in 1 .. PageCells :
           p < page' /\ p * PageCells + k <= Len(s) => disk'[p].data[k] = s[p * PageCells + k]
<1>1. /\ disk'[page] = [good |-> TRUE, time |-> t, data |-> data]
      /\ \A q \in Pages : q # page => disk'[q] = disk[q]
      /\ page' = page + 1
  BY AfterWrite
<1> SUFFICES ASSUME NEW p \in Pages, NEW k \in 1 .. PageCells, p < page', p * PageCells + k <= Len(s)
             PROVE  disk'[p].data[k] = s[p * PageCells + k]
  OBVIOUS
<1>2. CASE p = page
  <2>1. data[k] = s[p * PageCells + k]  BY <1>2
  <2>2. disk'[p].data = data  BY <1>1, <1>2
  <2> QED  BY <2>1, <2>2
<1>3. CASE p # page
  <2>1. p < page  BY <1>1, <1>3, StorageFacts
  <2>2. disk'[p] = disk[p]  BY <1>1, <1>3
  <2> QED  BY <2>1, <2>2 DEF Matches
<1> QED  BY <1>2, <1>3

(* What the writer has left is the rest of s.                              *)
LEMMA RestOfStream ==
  ASSUME FileTypeOK, NEW s \in Seq(CellSet), page \in Pages, page * PageCells <= Len(s),
         stream = SubSeq(s, page * PageCells + 1, Len(s))
  PROVE  /\ page * PageCells \in Nat
         /\ Len(stream) = Len(s) - page * PageCells
         /\ \A k \in 1 .. Len(stream) : stream[k] = s[page * PageCells + k]
         /\ (page + 1) * PageCells = page * PageCells + PageCells
         /\ \A k \in 1 .. PageCells : page * PageCells + k <= Len(s) => Filled[k] = s[page * PageCells + k]
<1>1. PICK b : b = page * PageCells  OBVIOUS
<1>2. b \in Nat /\ page \in Nat /\ PageCells \in Nat  BY <1>1, StorageFacts
<1>3. Len(s) \in Nat /\ b <= Len(s) /\ stream = SubSeq(s, b + 1, Len(s))  BY <1>1
<1>4. Len(stream) = Len(s) - b /\ \A k \in 1 .. Len(stream) : stream[k] = s[b + k]
  <2>1. Len(stream) = Len(s) - b
    <3>1. \A i \in b + 1 .. Len(s) : s[i] \in CellSet  BY <1>2
    <3>2. b + 1 \in Int /\ Len(s) \in Int  BY <1>2, <1>3
    <3>3. Len(SubSeq(s, b + 1, Len(s))) = IF b + 1 <= Len(s) THEN Len(s) - (b + 1) + 1 ELSE 0
      BY <3>1, <3>2, SubSeqProperties
    <3>4. PICK l, z : l = Len(s) /\ z = Len(SubSeq(s, b + 1, Len(s)))  OBVIOUS
    <3>5. z = IF b + 1 <= l THEN l - (b + 1) + 1 ELSE 0  BY <3>3, <3>4
    <3>6. l \in Nat /\ b <= l  BY <1>3, <3>4
    <3>7. z = l - b  BY <1>2, <3>5, <3>6
    <3> QED  BY <1>3, <3>4, <3>7
  <2>2. ASSUME NEW k \in 1 .. Len(stream)  PROVE stream[k] = s[b + k]
    <3>1. PICK l : l = Len(s)  OBVIOUS
    <3>2. l \in Nat /\ b \in Nat /\ k \in 1 .. l - b  BY <1>2, <1>3, <2>1, <3>1
    <3>3. /\ b + 1 \in Int /\ l \in Int /\ k \in 1 .. l - (b + 1) + 1
          /\ b + 1 <= l /\ b + 1 + k - 1 = b + k
      BY <3>2
    <3>4. \A i \in b + 1 .. l : s[i] \in CellSet
      <4>1. \A i \in b + 1 .. l : i \in 1 .. l  BY <3>2
      <4> QED  BY <3>1, <4>1, ElementOfSeq
    <3>5. SubSeq(s, b + 1, l)[k] = s[b + 1 + k - 1]  BY <3>3, <3>4, SubSeqProperties, SMTT(15)
    <3> QED  BY <1>3, <3>1, <3>3, <3>5
  <2> QED  BY <2>1, <2>2
<1>5. (page + 1) * PageCells = page * PageCells + PageCells  BY <1>2
<1>6. ASSUME NEW k \in 1 .. PageCells, b + k <= Len(s)  PROVE Filled[k] = s[b + k]
  <2>1. k <= Len(stream) /\ k \in 1 .. Len(stream)  BY <1>2, <1>3, <1>4, <1>6
  <2>2. Filled[k] = stream[k]  BY <2>1 DEF Filled
  <2> QED  BY <1>4, <2>1, <2>2
<1> QED  BY <1>1, <1>2, <1>4, <1>5, <1>6

(* A page at a time the stream gets into the file; whatever the reader, the *)
(* service or a power cut do, a finished one stays there until the next    *)
(* store begins to write.                                                  *)
LEMMA ContentInit == FileInit => ContentInv
  BY DEF FileInit, ContentInv

LEMMA ContentStep == FileTypeOK /\ ClaimInv /\ ContentInv /\ [FileNext]_fileVars => ContentInv'
<1> SUFFICES ASSUME FileTypeOK, ClaimInv, ContentInv, [FileNext]_fileVars PROVE ContentInv'  OBVIOUS
<1> USE DEF historyVars
<1>n. /\ disk[0].time \in TimeSet /\ disk[0].time.sec \in Nat /\ time.sec \in Nat /\ Len(stores) \in Nat
      /\ Len(stores) <= MaxStores /\ page \in Nat
      /\ finished \subseteq 1 .. Len(stores)
  <2>1. disk[0] \in PageSet  BY StorageFacts DEF FileTypeOK
  <2>2. disk[0].time \in TimeSet /\ time \in TimeSet  BY <2>1 DEF FileTypeOK, PageSet
  <2>3. disk[0].time.sec \in Nat /\ time.sec \in Nat  BY <2>2, StorageFacts DEF TimeSet
  <2>4. /\ stores \in Seq(Seq(StoredEntrySet)) /\ Len(stores) <= MaxStores
        /\ finished \subseteq DOMAIN stores
    BY DEF FileTypeOK
  <2>5. page \in Nat  BY StorageFacts DEF FileTypeOK
  <2> QED  BY <2>2, <2>3, <2>4, <2>5
(* The data stays, and the module does not use it afterwards.              *)
<1>a. ASSUME UNCHANGED <<stores, finished>>, disk'[0].time = disk[0].time,
             \A p \in Pages : disk'[p].data = disk[p].data, pc' \in {"off", "on", "empty"}
      PROVE  ContentInv'
  <2>1. PICK t : t = disk[0].time.sec  OBVIOUS
  <2>2. t \in finished => InFile(Written(t))'
    <3> SUFFICES ASSUME t \in finished PROVE InFile(Written(t))'  OBVIOUS
    <3>1. InFile(Written(t))  BY <2>1 DEF ContentInv
    <3> QED  BY <1>a, <3>1, InFileStays
  <2> QED  BY <1>a, <2>1, <2>2 DEF ContentInv, InFile, Written, Matches
<1>1. CASE UNCHANGED fileVars
  BY <1>1 DEF fileVars, accessorVars, ContentInv, InFile, Written, Matches
<1>2. CASE LoadNothing  BY <1>2, <1>a DEF LoadNothing
<1>3. CASE LoadBegin  BY <1>3, <1>a DEF LoadBegin
<1>4. CASE SetEmpty
  <2>1. PICK t : t = time.sec  OBVIOUS
  <2>2. disk \in [Pages -> PageSet]  BY DEF FileTypeOK
  <2>3. disk'[0].time = NoTime /\ \A p \in Pages : disk'[p].data = disk[p].data
    BY <1>4, <2>2, StorageFacts DEF SetEmpty, PageSet
  <2>4. disk'[0].time.sec \notin finished'
    BY <1>4, <1>n, <2>3 DEF SetEmpty, NoTime
  <2>5. t \in finished => InFile(Written(t))'
    <3> SUFFICES ASSUME t \in finished PROVE InFile(Written(t))'  OBVIOUS
    <3>1. t = disk[0].time.sec  BY <1>4, <2>1 DEF SetEmpty, ClaimInv
    <3>2. InFile(Written(t))  BY <3>1 DEF ContentInv
    <3>3. stores' = stores  BY <1>4 DEF SetEmpty
    <3> QED  BY <2>3, <3>2, <3>3, InFileStays
  <2>6. time' = time /\ finished' = finished /\ pc' = "load"  BY <1>4 DEF SetEmpty, accessorVars
  <2> QED  BY <2>1, <2>4, <2>5, <2>6 DEF ContentInv, InFile, Written, Matches
<1>5. CASE LoadFails  BY <1>5, <1>a DEF LoadFails
<1>6. CASE LoadLast  BY <1>6, <1>a DEF LoadLast, LoadEnds
<1>7. CASE LoadRegister
  BY <1>7 DEF LoadRegister, ContentInv, InFile, Written, Matches
<1>8. CASE \E d \in DeviceIds : RegisterDevice(d)  BY <1>8, <1>a DEF RegisterDevice
<1>9. CASE \E d \in DeviceIds : UnregisterDevice(d)  BY <1>9, <1>a DEF UnregisterDevice
<1>10. CASE \E entries \in EntriesToStore, ns \in Nanoseconds : StoreBegin(entries, ns)
  <2>1. PICK entries \in EntriesToStore, ns \in Nanoseconds : StoreBegin(entries, ns)  BY <1>10
  <2>2. PICK n : n = Len(stores) + 1  OBVIOUS
  <2>3. PICK s : s = Stream(entries, n)  OBVIOUS
  <2>4. n \in 0 .. MaxStores  BY <1>n, <2>1, <2>2, StorageFacts DEF StoreBegin
  <2>5. entries \in Seq(StoredEntrySet)  BY ToStore
  <2>6. s \in Seq(CellSet)  BY <2>3, <2>4, <2>5, StreamShape
  <2>7. /\ Len(stores') = n /\ stores'[n] = entries
        /\ \A t \in 1 .. Len(stores) : stores'[t] = stores[t]
    <3>1. stores \in Seq(Seq(StoredEntrySet)) /\ stores' = Append(stores, entries)
      BY <2>1 DEF StoreBegin, FileTypeOK
    <3> QED  BY <2>2, <3>1
  <2>8. pc' = "write" /\ page' = 0 /\ UNCHANGED <<disk, finished>> /\ stream' = s
    BY <2>1, <2>2, <2>3 DEF StoreBegin
  <2>9. disk'[0].time.sec \in finished' => InFile(Written(disk[0].time.sec))'
    <3> SUFFICES ASSUME disk[0].time.sec \in finished
                 PROVE  InFile(Written(disk[0].time.sec))'
      BY <2>8
    <3>1. PICK t : t = disk[0].time.sec  OBVIOUS
    <3>2. InFile(Written(t)) /\ stores'[t] = stores[t]  BY <1>n, <2>7, <3>1 DEF ContentInv
    <3>3. InFile(Written(t))'  BY <2>8, <3>2, InFileStays
    <3> QED  BY <2>8, <3>1, <3>3 DEF InFile, Written, Matches
  <2>10. /\ (page * PageCells <= Len(Written(Len(stores))))'
         /\ (stream = SubSeq(Written(Len(stores)), page * PageCells + 1, Len(Written(Len(stores)))))'
         /\ Matches(Written(Len(stores)), page)'
    <3>1. (Written(Len(stores)))' = s  BY <2>3, <2>7 DEF Written
    <3>2. page' * PageCells = 0  BY <2>8, StorageFacts
    <3>3. SubSeq(s, 0 + 1, Len(s)) = s  BY <2>6
    <3>4. \A p \in Pages : ~ (p < 0)  BY StorageFacts
    <3> QED  BY <2>6, <2>8, <3>1, <3>2, <3>3, <3>4 DEF Matches
  <2> QED  BY <2>8, <2>9, <2>10 DEF ContentInv
<1>b. ASSUME pc = "write" PROVE
        /\ Len(stores) \in 1 .. Len(stores) /\ Written(Len(stores)) \in Seq(CellSet)
        /\ page * PageCells <= Len(Written(Len(stores)))
        /\ stream = SubSeq(Written(Len(stores)), page * PageCells + 1, Len(Written(Len(stores))))
        /\ Matches(Written(Len(stores)), page)
  <2>1. Len(stores) \in 1 .. Len(stores)  BY <1>b, <1>n DEF ClaimInv
  <2> QED  BY <1>b, <2>1, WrittenIsStream DEF ContentInv
<1>c. ASSUME pc \in {"write", "wipe"}, page \in Pages, NEW t, NEW data, WriteTo(page, t, data),
             t = time \/ page > 0, UNCHANGED finished
      PROVE  disk'[0].time.sec \notin finished'
  <2>1. /\ disk'[page] = [good |-> TRUE, time |-> t, data |-> data]
        /\ \A q \in Pages : q # page => disk'[q] = disk[q]
    BY <1>c, AfterWrite
  <2>2. time.sec \notin finished /\ (page > 0 => disk[0].time = time)  BY <1>c DEF ClaimInv
  <2>3. CASE page = 0  BY <1>c, <2>1, <2>2, <2>3
  <2>4. CASE page # 0
    <3>1. page > 0 /\ disk'[0] = disk[0]  BY <1>n, <2>1, <2>4, StorageFacts
    <3> QED  BY <1>c, <2>2, <3>1
  <2> QED  BY <2>3, <2>4
<1>11. CASE WritePage
  <2>1. page \in Pages  BY <1>11, StorageFacts DEF WritePage, FileTypeOK, Pages
  <2>2. PICK s : s = Written(Len(stores))  OBVIOUS
  <2>3. /\ s \in Seq(CellSet) /\ page * PageCells <= Len(s)
        /\ stream = SubSeq(s, page * PageCells + 1, Len(s)) /\ Matches(s, page)
    BY <1>11, <1>b, <2>2 DEF WritePage
  <2>4. WriteTo(page, time, Filled) /\ Len(stream) >= PageCells
        /\ stream' = SubSeq(stream, PageCells + 1, Len(stream)) /\ UNCHANGED <<pc, stores, finished>> /\ pc = "write"
    BY <1>11 DEF WritePage
  <2>5. PICK b : b = page * PageCells  OBVIOUS
  <2>6. /\ b \in Nat /\ Len(stream) = Len(s) - b
        /\ (page + 1) * PageCells = b + PageCells
        /\ \A k \in 1 .. PageCells : page * PageCells + k <= Len(s) => Filled[k] = s[page * PageCells + k]
    BY <2>1, <2>3, <2>5, RestOfStream
  <2>7. page' = page + 1  BY <2>4 DEF WriteTo
  <2>8. page' * PageCells = b + PageCells  BY <2>6, <2>7
  <2>9. Len(s) \in Nat /\ PageCells \in Nat  BY <2>3, StorageFacts
  <2>10. page' * PageCells <= Len(s)  BY <2>4, <2>6, <2>8, <2>9
  <2>11. stream' = SubSeq(s, page' * PageCells + 1, Len(s))
    <3>1. stream = SubSeq(s, b + 1, Len(s))  BY <2>3, <2>5
    <3>2. SubSeq(SubSeq(s, b + 1, Len(s)), PageCells + 1, Len(s) - b) = SubSeq(s, b + PageCells + 1, Len(s))
      <4>1. PICK l, c : l = Len(s) /\ c = PageCells  OBVIOUS
      <4>2. l \in Nat /\ c \in Nat /\ c > 0 /\ b \in Nat /\ l - b >= c
        BY <4>1, <2>4, <2>6, <2>9, StorageFacts
      <4>3. CASE l - b = c
        <5>1. SubSeq(SubSeq(s, b + 1, l), c + 1, l - b) = <<>>
          BY <4>2, <4>3, SubSeqEmpty
        <5>2. SubSeq(s, b + c + 1, l) = <<>>  BY <4>2, <4>3, SubSeqEmpty
        <5> QED  BY <4>1, <5>1, <5>2
      <4>4. CASE l - b # c
        <5>1. /\ b + 1 \in 1 .. l /\ l \in 1 .. l
              /\ c + 1 \in 1 .. l - (b + 1) + 1 /\ l - b \in 1 .. l - (b + 1) + 1
          BY <4>2, <4>4
        <5>2. SubSeq(SubSeq(s, b + 1, l), c + 1, l - b) = SubSeq(s, b + 1 + (c + 1) - 1, b + 1 + (l - b) - 1)
          <6>1. s \in Seq(CellSet) /\ l = Len(s)  BY <2>3, <4>1
          <6>2. /\ b + 1 \in 1 .. Len(s) /\ l \in 1 .. Len(s)
                /\ c + 1 \in 1 .. l - (b + 1) + 1 /\ l - b \in 1 .. l - (b + 1) + 1
            BY <5>1, <6>1
          <6>3. PICK i, m, n : i = b + 1 /\ m = c + 1 /\ n = l - b  OBVIOUS
          <6>4. /\ i \in 1 .. Len(s) /\ l \in 1 .. Len(s)
                /\ m \in 1 .. l - i + 1 /\ n \in 1 .. l - i + 1
            BY <6>2, <6>3
          <6>5. SubSeq(SubSeq(s, i, l), m, n) = SubSeq(s, i + m - 1, i + n - 1)
            BY <6>1, <6>4, SubSeqOfSubSeq
          <6> QED  BY <6>3, <6>5
        <5>3. b + 1 + (c + 1) - 1 = b + c + 1 /\ b + 1 + (l - b) - 1 = l  BY <4>2
        <5> QED  BY <4>1, <5>2, <5>3
      <4> QED  BY <4>3, <4>4
    <3> QED  BY <2>4, <2>6, <2>8, <3>1, <3>2
  <2>12. \A p \in Pages, k \in 1 .. PageCells :
           p < page' /\ p * PageCells + k <= Len(s) => disk'[p].data[k] = s[p * PageCells + k]
    <3>1. WriteTo(page, time, Filled) /\ Matches(s, page)  BY <2>3, <2>4
    <3>2. \A k \in 1 .. PageCells : page * PageCells + k <= Len(s) => Filled[k] = s[page * PageCells + k]
      BY <2>6
    <3> QED  BY <2>1, <3>1, <3>2, MatchesOneMore
  <2>13. Written(Len(stores))' = s  BY <2>2, <2>4 DEF Written
  <2>14. disk'[0].time.sec \notin finished'  BY <2>1, <2>4, <1>c
  <2> QED  BY <2>4, <2>10, <2>11, <2>12, <2>13, <2>14 DEF ContentInv, Matches
<1>12. CASE WriteLast
  <2>1. page \in Pages  BY <1>12, StorageFacts DEF WriteLast, FileTypeOK, Pages
  <2>2. PICK s : s = Written(Len(stores))  OBVIOUS
  <2>3. /\ s \in Seq(CellSet) /\ page * PageCells <= Len(s)
        /\ stream = SubSeq(s, page * PageCells + 1, Len(s)) /\ Matches(s, page)
    BY <1>12, <1>b, <2>2 DEF WriteLast
  <2>4. WriteTo(page, time, Filled) /\ Len(stream) < PageCells /\ stream' = <<>>
        /\ UNCHANGED <<stores, finished>> /\ pc = "write" /\ pc' = "wipe"
    BY <1>12 DEF WriteLast
  <2>5. PICK b : b = page * PageCells  OBVIOUS
  <2>6. /\ b \in Nat /\ Len(stream) = Len(s) - b
        /\ (page + 1) * PageCells = b + PageCells
        /\ \A k \in 1 .. PageCells : page * PageCells + k <= Len(s) => Filled[k] = s[page * PageCells + k]
    BY <2>1, <2>3, <2>5, RestOfStream
  <2>7. page' = page + 1  BY <2>4 DEF WriteTo
  <2>8. page' * PageCells = b + PageCells  BY <2>6, <2>7
  <2>9. Len(s) \in Nat /\ PageCells \in Nat  BY <2>3, StorageFacts
  <2>10. Len(s) <= page' * PageCells  BY <2>4, <2>6, <2>8, <2>9
  <2>12. \A p \in Pages, k \in 1 .. PageCells :
           p < page' /\ p * PageCells + k <= Len(s) => disk'[p].data[k] = s[p * PageCells + k]
    <3>1. WriteTo(page, time, Filled) /\ Matches(s, page)  BY <2>3, <2>4
    <3>2. \A k \in 1 .. PageCells : page * PageCells + k <= Len(s) => Filled[k] = s[page * PageCells + k]
      BY <2>6
    <3> QED  BY <2>1, <3>1, <3>2, MatchesOneMore
  <2>13. Written(Len(stores))' = s  BY <2>2, <2>4 DEF Written
  <2>14. disk'[0].time.sec \notin finished'  BY <2>1, <2>4, <1>c
  <2> QED  BY <2>4, <2>10, <2>12, <2>13, <2>14 DEF ContentInv, Matches
<1>13. CASE WipePage
  <2>1. page \in Pages  BY <1>13, StorageFacts DEF WipePage, FileTypeOK, Pages
  <2>2. PICK s : s = Written(Len(stores))  OBVIOUS
  <2>3. stream = <<>> /\ Len(s) <= page * PageCells /\ Matches(s, page)
    BY <1>13, <2>2 DEF WipePage, ContentInv
  <2>4. /\ WriteTo(page, NoTime, Blanks(PageCells)) /\ UNCHANGED <<stores, finished, stream, pc>>
        /\ pc = "wipe" /\ page > 0
    BY <1>13 DEF WipePage, ClaimInv
  <2>5. page' = page + 1  BY <2>4 DEF WriteTo
  <2>6. /\ page * PageCells \in Nat /\ page' * PageCells = page * PageCells + PageCells
        /\ PageCells \in Nat
    BY <1>n, <2>5, StorageFacts
  <2>7. Len(s) \in Nat
    <3>1. Len(stores) \in 1 .. Len(stores)  BY <1>n, <2>4 DEF ClaimInv
    <3>2. s \in Seq(CellSet)  BY <2>2, <3>1, WrittenIsStream
    <3> QED  BY <3>2
  <2>8. Len(s) <= page' * PageCells  BY <2>3, <2>6, <2>7
  <2>9. \A k \in 1 .. PageCells : page * PageCells + k <= Len(s) => Blanks(PageCells)[k] = s[page * PageCells + k]
    BY <2>3, <2>6, <2>7
  <2>12. \A p \in Pages, k \in 1 .. PageCells :
           p < page' /\ p * PageCells + k <= Len(s) => disk'[p].data[k] = s[p * PageCells + k]
    BY <2>1, <2>3, <2>4, <2>9, MatchesOneMore
  <2>13. Written(Len(stores))' = s  BY <2>2, <2>4 DEF Written
  <2>14. disk'[0].time.sec \notin finished'  BY <2>1, <2>4, <1>c
  <2> QED  BY <2>3, <2>4, <2>8, <2>12, <2>13, <2>14 DEF ContentInv, Matches
<1>14. CASE StoreEnds
  <2>1. PICK s, t : t = Len(stores) /\ s = Written(Len(stores))  OBVIOUS
  <2>2. pc \in {"write", "wipe"} /\ page = LastPage + 1 /\ stream = <<>> /\ UNCHANGED <<disk, stores>>
        /\ finished' = finished \cup {t} /\ pc' = "off"
    BY <1>14, <2>1 DEF StoreEnds, GoesOff
  <2>3. t \in 1 .. Len(stores) /\ s = Written(t) /\ s \in Seq(CellSet)
    <3>1. t \in 1 .. Len(stores)  BY <1>n, <2>1, <2>2 DEF ClaimInv
    <3> QED  BY <2>1, <3>1, WrittenIsStream
  <2>4. Total = page * PageCells /\ Total \in Nat
    <3>1. PageCells * (LastPage + 1) = (LastPage + 1) * PageCells  BY StorageFacts
    <3> QED  BY <2>2, <3>1, StorageFacts DEF Total
  <2>5. Len(s) <= Total /\ Matches(s, LastPage + 1)
    <3>1. CASE pc = "wipe"  BY <2>1, <2>2, <2>4, <3>1 DEF ContentInv
    <3>2. CASE pc = "write"
      <4>1. Matches(s, page) /\ stream = SubSeq(s, Total + 1, Len(s))  BY <3>2, <1>b, <2>1, <2>4
      <4>2. Len(s) <= Total
        <5> SUFFICES ASSUME Len(s) > Total PROVE FALSE  BY <2>3, <2>4
        <5>1. Len(SubSeq(s, Total + 1, Len(s))) = Len(s) - Total  BY <2>3, <2>4
        <5>2. Len(stream) = 0  BY <2>2
        <5> QED  BY <4>1, <5>1, <5>2, <2>3, <2>4
      <4> QED  BY <4>1, <4>2, <2>2
    <3> QED  BY <2>2, <3>1, <3>2
  <2>6. PICK m : m = disk[0].time.sec  OBVIOUS
  <2>7. m \in finished' => InFile(Written(m))
    BY <2>2, <2>3, <2>5, <2>6 DEF InFile, ContentInv
  <2>8. m \in finished' => InFile(Written(m))'
    <3> SUFFICES ASSUME m \in finished' PROVE InFile(Written(m))'  OBVIOUS
    <3>1. InFile(Written(m))  BY <2>7
    <3> QED  BY <2>2, <3>1, InFileStays
  <2> QED  BY <2>2, <2>6, <2>8 DEF ContentInv, InFile, Written, Matches
<1>15. CASE StoreFails  BY <1>15, <1>a DEF StoreFails, GoesOff
<1>16. CASE PowerFails
  <2>1. disk'[0].time = disk[0].time /\ \A p \in Pages : disk'[p].data = disk[p].data
    <3>1. disk \in [Pages -> PageSet] /\ 0 \in Pages  BY StorageFacts DEF FileTypeOK
    <3>2. disk' = disk \/ disk' = [disk EXCEPT ![page].good = FALSE]  BY <1>16 DEF PowerFails
    <3>3. CASE disk' = [disk EXCEPT ![page].good = FALSE]
      <4>1. \A p \in Pages : disk'[p] = disk[p] \/ disk'[p] = [disk[p] EXCEPT !.good = FALSE]
        BY <3>1, <3>3
      <4>2. ASSUME NEW p \in Pages
            PROVE  disk'[p].time = disk[p].time /\ disk'[p].data = disk[p].data
        <5>1. disk[p] \in PageSet  BY <3>1
        <5> QED  BY <4>1, <5>1 DEF PageSet
      <4> QED  BY <3>1, <4>2
    <3> QED  BY <3>2, <3>3
  <2> QED  BY <1>16, <1>a, <2>1 DEF PowerFails, GoesOff
<1> QED
  BY <1>1, <1>2, <1>3, <1>4, <1>5, <1>6, <1>7, <1>8, <1>9, <1>10, <1>11, <1>12, <1>13,
     <1>14, <1>15, <1>16 DEF FileNext, FileLoad, FileStore

(* In the file a cell is where it was in the stream.                       *)
LEMMA ReadCell ==
  ASSUME FileTypeOK, NEW s \in Seq(CellSet), InFile(s), NEW i \in 1 .. Len(s)
  PROVE  OnDisk(i) = s[i]
<1>1. PICK q, r : q = (i - 1) \div PageCells /\ r = ((i - 1) % PageCells) + 1  OBVIOUS
<1>2. i \in 1 .. Total  BY StorageFacts DEF InFile
<1>3. q \in Pages /\ r \in 1 .. PageCells /\ i = q * PageCells + (r - 1) + 1
  <2>1. (i - 1) % PageCells = r - 1
    <3>1. ((i - 1) % PageCells) + 1 \in 1 .. PageCells  BY <1>2, PlaceOf
    <3>2. (i - 1) % PageCells \in Int  BY StorageFacts
    <3> QED  BY <1>1, <3>2
  <2> QED  BY <1>1, <1>2, <2>1, PlaceOf
<1>4. q * PageCells \in Nat /\ r \in Int /\ q < LastPage + 1  BY <1>3, StorageFacts DEF Pages
<1>5. i = q * PageCells + r  BY <1>3, <1>4
<1>6. Matches(s, LastPage + 1)  BY DEF InFile
<1>7. q * PageCells + r <= Len(s)  BY <1>5
<1>8. disk[q].data[r] = s[q * PageCells + r]  BY <1>3, <1>4, <1>6, <1>7 DEF Matches
<1> QED  BY <1>1, <1>5, <1>8 DEF OnDisk

(* What the reader finds after count registers of a finished store.        *)
LEMMA FindsRegister ==
  ASSUME FileTypeOK, NEW t \in 1 .. Len(stores), InFile(Written(t)),
         NEW count \in Nat, pos = RegisterSize * count, count <= Len(Deliverable(stores[t]))
  PROVE  /\ Deliverable(stores[t]) \in Seq(DeviceIds \cup {NoDevice})
         /\ count = Len(Deliverable(stores[t])) => Field(pos, 1)[1].kind # "magic"
         /\ count < Len(Deliverable(stores[t])) =>
              /\ Field(pos, 1)[1].kind = "magic"
              /\ Field(pos + 1, 1)[1].dev = Deliverable(stores[t])[count + 1]
              /\ \A k \in 1 .. MapCells :
                   Field(pos + 2, MapCells)[k]
                     \in Range(MapOf(Deliverable(stores[t])[count + 1], t)) \cup {Blank}
<1>1. PICK s, ds : s = Written(t) /\ ds = Deliverable(stores[t])  OBVIOUS
<1>2. /\ s \in Seq(CellSet) /\ ds \in Seq(DeviceIds \cup {NoDevice})
      /\ BeginsWith(s, ds, t) /\ RegisterSize * Len(ds) < Len(s)
      /\ s[RegisterSize * Len(ds) + 1].kind # "magic"
  <2>1. stores[t] \in Seq(StoredEntrySet) /\ t \in 0 .. MaxStores
    BY WrittenIsStream, StorageFacts
  <2> QED  BY <1>1, <2>1, StreamShape DEF Written
<1>3. InFile(s) /\ count <= Len(ds)  BY <1>1
<1>4. \A i \in 1 .. Len(s) : OnDisk(i) = s[i]  BY <1>2, <1>3, ReadCell
<1>5. Len(s) \in Nat /\ Len(ds) \in Nat /\ RegisterSize * Len(ds) \in Nat /\ pos \in Nat
  BY <1>2, StorageFacts
<1>6. ASSUME count = Len(ds)  PROVE Field(pos, 1)[1].kind # "magic"
  <2>1. pos + 1 \in 1 .. Len(s)  BY <1>2, <1>5, <1>6
  <2>2. Field(pos, 1)[1] = s[pos + 1]  BY <1>4, <1>5, <2>1, FirstCell
  <2> QED  BY <1>2, <1>6, <2>2
<1>7. ASSUME count < Len(ds)
      PROVE  /\ Field(pos, 1)[1].kind = "magic"
             /\ Field(pos + 1, 1)[1].dev = ds[count + 1]
             /\ \A k \in 1 .. MapCells :
                  Field(pos + 2, MapCells)[k] \in Range(MapOf(ds[count + 1], t)) \cup {Blank}
  <2>1. pos + RegisterSize <= Len(s)
    <3>1. RegisterSize * count + RegisterSize <= RegisterSize * Len(ds)
      BY <1>5, <1>7, StorageFacts, Blocks0
    <3> QED  BY <1>2, <1>5, <3>1, StorageFacts
  <2>2. RegisterAt(s, count + 1, ds[count + 1], t)
    <3>1. count + 1 \in 1 .. Len(ds)  BY <1>5, <1>7
    <3> QED  BY <1>2, <3>1 DEF BeginsWith
  <2>3. /\ s[pos + 1].kind = "magic" /\ s[pos + 2].dev = ds[count + 1]
        /\ \A k \in 1 .. MapCells : s[pos + 2 + k] \in Range(MapOf(ds[count + 1], t))
    <3>1. count + 1 - 1 = count  OBVIOUS
    <3> QED  BY <2>2, <3>1 DEF RegisterAt
  <2>4. /\ pos + 1 \in 1 .. Len(s) /\ pos + 2 \in 1 .. Len(s)
        /\ \A j \in pos + 2 + 1 .. pos + 2 + MapCells : j \in 1 .. Len(s)
    BY <1>5, <2>1, StorageFacts
  <2>5. Field(pos, 1)[1] = s[pos + 1]  BY <1>4, <1>5, <2>4, FirstCell
  <2>6. Field(pos + 1, 1)[1] = s[pos + 2]
    <3>1. pos + 1 \in Nat /\ pos + 1 + 1 = pos + 2  BY <1>5
    <3>2. Field(pos + 1, 1)[1] = OnDisk(pos + 1 + 1)  BY <3>1, FirstCell
    <3> QED  BY <1>4, <2>4, <3>1, <3>2
  <2>7. ASSUME NEW k \in 1 .. MapCells, Field(pos + 2, MapCells)[k] # Blank
        PROVE  Field(pos + 2, MapCells)[k] \in Range(MapOf(ds[count + 1], t))
    <3>1. pos + 2 \in Nat /\ MapCells \in Nat  BY <1>5, StorageFacts
    <3>p. PICK p : p = pos + 2  OBVIOUS
    <3>2. PICK j \in p + k .. p + MapCells : Field(p, MapCells)[k] = OnDisk(j)
      BY <2>7, <3>1, <3>p, FieldCells
    <3>3. PICK h : h = j - p  OBVIOUS
    <3>0. p \in Nat /\ j \in Int /\ p + k <= j /\ j <= p + MapCells  BY <3>1, <3>2, <3>p
    <3>4. h \in 1 .. MapCells /\ j = p + h  BY <3>0, <3>1, <3>3
    <3>5. OnDisk(j) = s[j]
      <4>1. j \in p + 1 .. p + MapCells  BY <3>0, <3>1
      <4> QED  BY <1>4, <2>4, <3>p, <4>1
    <3> QED  BY <2>3, <3>2, <3>4, <3>5, <3>p
  <2> QED  BY <2>3, <2>5, <2>6, <2>7
<1> QED  BY <1>1, <1>2, <1>6, <1>7

(* The reader gets on by one register of the store, or stops behind the    *)
(* last.                                                                   *)
LEMMA ReadStep == FileInv /\ [FileNext]_fileVars => ReadInv'
<1> SUFFICES ASSUME FileInv, [FileNext]_fileVars PROVE ReadInv'  OBVIOUS
<1> USE DEF FileInv, historyVars
<1>n. finished \subseteq 1 .. Len(stores)
  <2>1. stores \in Seq(Seq(StoredEntrySet)) /\ finished \subseteq DOMAIN stores  BY DEF FileTypeOK
  <2> QED  BY <2>1
<1>1. CASE pc' # "load"  BY <1>1 DEF ReadInv
<1>2. CASE UNCHANGED fileVars  BY <1>2 DEF fileVars, accessorVars, ReadInv, HaveRead
<1>3. CASE SetEmpty
  <2>1. PICK t : t = time.sec  OBVIOUS
  <2>2. /\ pos' = 0 /\ loaded' = <<>> /\ time' = time /\ UNCHANGED <<stores, finished>>
    BY <1>3 DEF SetEmpty, accessorVars, CheckedInv
  <2>3. ASSUME t \in finished  PROVE (pos = RegisterSize * Len(loaded))' /\ HaveRead(t)'
    <3>1. t \in 1 .. Len(stores)  BY <1>n, <2>3
    <3>2. stores[t] \in Seq(StoredEntrySet) /\ t \in 0 .. MaxStores  BY <3>1, WrittenIsStream, StorageFacts
    <3>3. Deliverable(stores[t]) \in Seq(DeviceIds \cup {NoDevice})  BY <3>2, StreamShape
    <3>4. Len(Deliverable(stores[t])) \in Nat  BY <3>3
    <3>5. Len(<<>>) = 0 /\ RegisterSize * 0 = 0 /\ DOMAIN <<>> = {}  BY StorageFacts
    <3> QED  BY <2>2, <3>4, <3>5 DEF HaveRead
  <2> QED  BY <2>1, <2>2, <2>3 DEF ReadInv, HaveRead
<1>4. CASE LoadRegister
  <2>1. PICK t : t = time.sec  OBVIOUS
  <2>2. /\ pc = "load" /\ UNCHANGED <<time, stores, finished>>
        /\ pos' = pos + RegisterSize /\ Field(pos, 1)[1].kind = "magic"
    BY <1>4 DEF LoadRegister
  <2>3. PICK r : r = [dev |-> Field(pos + 1, 1)[1].dev, map |-> Field(pos + 2, MapCells)]  OBVIOUS
  <2>4. loaded' = Append(loaded, r)  BY <1>4, <2>3 DEF LoadRegister
  <2>5. ASSUME t \in finished  PROVE (pos = RegisterSize * Len(loaded))' /\ HaveRead(t)'
    <3>1. t \in 1 .. Len(stores) /\ InFile(Written(t))
      BY <1>n, <2>1, <2>2, <2>5 DEF ContentInv
    <3>2. PICK stored : stored = Deliverable(stores[t])  OBVIOUS
    <3>3. PICK count : count = Len(loaded)  OBVIOUS
    <3>4. pos = RegisterSize * count /\ HaveRead(t)
      BY <2>1, <2>2, <2>5, <3>3 DEF ReadInv
    <3>5. count \in Nat /\ count <= Len(stored) /\ loaded \in Seq(LoadedSet)
      BY <3>2, <3>3, <3>4 DEF HaveRead, FileTypeOK
    <3>6. /\ stored \in Seq(DeviceIds \cup {NoDevice})
          /\ count = Len(stored) => Field(pos, 1)[1].kind # "magic"
          /\ count < Len(stored) =>
               /\ Field(pos + 1, 1)[1].dev = stored[count + 1]
               /\ \A k \in 1 .. MapCells :
                    Field(pos + 2, MapCells)[k] \in Range(MapOf(stored[count + 1], t)) \cup {Blank}
      BY <3>1, <3>2, <3>4, <3>5, FindsRegister
    <3>7. count < Len(stored)  BY <2>2, <3>5, <3>6
    <3>8. /\ Len(loaded') = count + 1 /\ loaded'[count + 1] = r
          /\ DOMAIN loaded' = 1 .. count + 1
          /\ \A i \in 1 .. count : loaded'[i] = loaded[i]
      BY <2>4, <3>3, <3>5
    <3>9. pos' = RegisterSize * Len(loaded')
      <4>1. RegisterSize * (count + 1) = RegisterSize * count + RegisterSize  BY <3>5, StorageFacts
      <4> QED  BY <2>2, <3>4, <3>8, <4>1
    <3>10. Len(loaded') <= Len(stored)
      <4>1. Len(stored) \in Nat  BY <3>6
      <4> QED  BY <3>5, <3>7, <3>8, <4>1
    <3>11. ASSUME NEW i \in DOMAIN loaded'
           PROVE  /\ loaded'[i].dev = stored[i]
                  /\ \A k \in 1 .. MapCells : loaded'[i].map[k] \in Range(MapOf(stored[i], t)) \cup {Blank}
      <4>1. CASE i \in 1 .. count
        <5>1. loaded'[i] = loaded[i] /\ i \in DOMAIN loaded  BY <3>3, <3>5, <3>8, <4>1
        <5> QED  BY <3>2, <3>4, <5>1 DEF HaveRead
      <4>2. CASE i \notin 1 .. count
        <5>1. i = count + 1  BY <3>5, <3>8, <4>2
        <5> QED  BY <2>3, <3>6, <3>7, <3>8, <5>1
      <4> QED  BY <4>1, <4>2
    <3>12. Deliverable(stores'[t]) = stored  BY <2>2, <3>2
    <3> QED  BY <3>9, <3>10, <3>11, <3>12 DEF HaveRead
  <2> QED  BY <2>1, <2>2, <2>5 DEF ReadInv, HaveRead
<1>5. CASE LoadNothing \/ LoadBegin \/ LoadFails \/ LoadLast
  BY <1>1, <1>5 DEF LoadNothing, LoadBegin, LoadFails, LoadLast, LoadEnds
<1>6. CASE \E d \in DeviceIds : RegisterDevice(d) \/ UnregisterDevice(d)
  BY <1>1, <1>6 DEF RegisterDevice, UnregisterDevice
<1>7. CASE FileStore
  <2>1. pc' # "load"
    BY <1>7 DEF FileStore, StoreBegin, WritePage, WriteLast, WipePage, StoreEnds, StoreFails, GoesOff
  <2> QED  BY <1>1, <2>1
<1>8. CASE PowerFails  BY <1>1, <1>8 DEF PowerFails, GoesOff
<1> QED
  BY <1>2, <1>3, <1>4, <1>5, <1>6, <1>7, <1>8 DEF FileNext, FileLoad

(* The last load is the one that is going on.                              *)
LEMMA LastLoadIsThis ==
  ASSUME FileTypeOK, ClaimInv, pc = "load"
  PROVE  LastLoad = time.sec
<1>1. PICK t : t = time.sec  OBVIOUS
<1>2. /\ t \in DOMAIN loads /\ loads[t] = 1
      /\ \A n \in DOMAIN loads : loads[n] > 0 => n <= t
  <2>1. t \in 1 .. Len(stores) /\ loads[t] = 1 /\ \A n \in DOMAIN loads : loads[n] > 0 => n <= t
    BY <1>1 DEF ClaimInv
  <2>2. t \in 1 .. MaxStores  BY <2>1, WrittenIsStream
  <2> QED  BY <2>1, <2>2 DEF FileTypeOK
<1>3. loads # [n \in DOMAIN loads |-> 0]
  <2> SUFFICES ASSUME loads = [n \in DOMAIN loads |-> 0] PROVE FALSE  OBVIOUS
  <2>1. loads[t] = 0  BY <1>2
  <2> QED  BY <1>2, <2>1
<1>4. PICK c : c = CHOOSE n \in DOMAIN loads :
                 loads[n] > 0 /\ \A m \in DOMAIN loads : loads[m] > 0 => m <= n
  OBVIOUS
<1>5. LastLoad = c  BY <1>3, <1>4 DEF LastLoad
<1>6. c \in DOMAIN loads /\ loads[c] > 0 /\ \A m \in DOMAIN loads : loads[m] > 0 => m <= c
  <2>1. loads[t] > 0  BY <1>2
  <2> QED  BY <1>2, <1>4, <2>1
<1>7. c <= t /\ t <= c /\ c \in Nat /\ t \in Nat
  <2>1. DOMAIN loads = 1 .. MaxStores  BY DEF FileTypeOK
  <2>2. loads[t] > 0  BY <1>2
  <2> QED  BY <1>2, <1>6, <2>1, <2>2
<1> QED  BY <1>1, <1>5, <1>7

(* Maps of cells of one store come from that store.                        *)
LEMMA CellsOfOneStore ==
  ASSUME NEW t \in Nat, NEW ld, NEW stored,
         \A i \in DOMAIN ld : \A k \in 1 .. MapCells :
           ld[i].map[k] \in Range(MapOf(stored[i], t)) \cup {Blank}
  PROVE  \A i \in DOMAIN ld : \A k \in 1 .. MapCells :
           ld[i].map[k].store \in {t, Blank.store}
<1> SUFFICES ASSUME NEW i \in DOMAIN ld, NEW k \in 1 .. MapCells,
                    ld[i].map[k].store # Blank.store
             PROVE  ld[i].map[k].store = t
  OBVIOUS
<1>1. PICK c : c = ld[i].map[k]  OBVIOUS
<1>2. PICK d : d = stored[i]  OBVIOUS
<1>3. c \in Range(MapOf(d, t))
  <2>1. c \in Range(MapOf(d, t)) \cup {Blank}  BY <1>1, <1>2
  <2>2. c # Blank  BY <1>1
  <2> QED  BY <2>1, <2>2
<1>4. PICK j \in 1 .. MapCells : c = Cell("map", d, t, j)
  BY <1>3 DEF Range, MapOf
<1>5. c.store = t  BY <1>4 DEF Cell
<1> QED  BY <1>1, <1>5

(* Only what is read in a load adds to it.                                 *)
LEMMA PureStep == FileInv /\ [FileNext]_fileVars => PureInv'
<1> SUFFICES ASSUME FileInv, [FileNext]_fileVars PROVE PureInv'  OBVIOUS
<1> USE DEF FileInv, historyVars
<1>1. CheckedInv' /\ ReadInv'  BY CheckedStep, ReadStep
<1>2. ASSUME loaded' = <<>> PROVE PureInv'
  BY <1>2 DEF PureInv, StoresRead
<1>3. ASSUME UNCHANGED <<loaded, finished, loads>> PROVE PureInv'
  BY <1>3 DEF PureInv, LastLoad, StoresRead
<1>4. CASE UNCHANGED fileVars  BY <1>4, <1>3 DEF fileVars
<1>5. CASE LoadRegister
  <2>1. /\ pc = "load" /\ pc' = "load"
        /\ UNCHANGED <<time, stores, finished, loads>>
    BY <1>5 DEF LoadRegister, historyVars
  <2>2. LastLoad = time.sec  BY <2>1, LastLoadIsThis
  <2>3. LastLoad' = time.sec  BY <2>1, <2>2 DEF LastLoad
  <2> SUFFICES ASSUME time.sec \in finished PROVE StoresRead' \subseteq {time.sec}
    BY <2>1, <2>3 DEF PureInv
  <2>4. HaveRead(time.sec)'
    BY <1>1, <2>1 DEF ReadInv
  <2>5. time.sec \in Nat  BY DEF FileTypeOK, TimeSet
  <2>6. PICK t : t = time.sec  OBVIOUS
  <2>7. PICK ld : ld = loaded'  OBVIOUS
  <2>8. PICK stored : stored = Deliverable(stores[t])  OBVIOUS
  <2>9. \A i \in DOMAIN ld : \A k \in 1 .. MapCells :
          ld[i].map[k] \in Range(MapOf(stored[i], t)) \cup {Blank}
    BY <2>1, <2>4, <2>6, <2>7, <2>8 DEF HaveRead
  <2>10. \A i \in DOMAIN ld : \A k \in 1 .. MapCells :
           ld[i].map[k].store \in {t, Blank.store}
    BY <2>5, <2>6, <2>9, CellsOfOneStore
  <2> SUFFICES ASSUME NEW n \in StoresRead' PROVE n = time.sec  OBVIOUS
  <2>11. PICK i \in DOMAIN loaded', k \in 1 .. MapCells :
           n = loaded'[i].map[k].store /\ n # Blank.store
    BY DEF StoresRead
  <2> QED  BY <2>6, <2>7, <2>10, <2>11
<1>6. CASE LoadNothing \/ LoadBegin \/ SetEmpty
  <2>1. pc \in {"off", "empty"} /\ loaded' = loaded
    BY <1>6 DEF LoadNothing, LoadBegin, SetEmpty
  <2>2. loaded' = <<>>  BY <2>1 DEF CheckedInv
  <2> QED  BY <1>2, <2>2
<1>7. CASE LoadFails \/ LoadLast
  BY <1>7, <1>3 DEF LoadFails, LoadLast, LoadEnds
<1>8. CASE \E d \in DeviceIds : RegisterDevice(d) \/ UnregisterDevice(d)
  BY <1>8, <1>3 DEF RegisterDevice, UnregisterDevice
<1>9. CASE FileStore
  <2>1. pc' \in {"off", "write", "wipe"}
    BY <1>9 DEF FileStore, StoreBegin, WritePage, WriteLast, WipePage, StoreEnds, StoreFails, GoesOff
  <2> QED  BY <1>1, <1>2, <2>1 DEF CheckedInv
<1>10. CASE PowerFails  BY <1>10, <1>2 DEF PowerFails, GoesOff
<1> QED
  BY <1>4, <1>5, <1>6, <1>7, <1>8, <1>9, <1>10 DEF FileNext, FileLoad

(* When the load has ended, all of them were read.                         *)
LEMMA FinishedStep == FileInv /\ [FileNext]_fileVars => FinishedStoreIsRead'
<1> SUFFICES ASSUME FileInv, [FileNext]_fileVars PROVE FinishedStoreIsRead'  OBVIOUS
<1> USE DEF FileInv, historyVars
<1>a. ASSUME UNCHANGED <<pc, loaded, verdict, result, stores, finished, loads>>
      PROVE  FinishedStoreIsRead'
  <2>1. LastLoad' = LastLoad  BY <1>a DEF LastLoad
  <2> QED  BY <1>a, <2>1 DEF FinishedStoreIsRead
<1>1. CASE pc' # "on"  BY <1>1 DEF FinishedStoreIsRead
<1>2. CASE UNCHANGED fileVars  BY <1>2, <1>a DEF fileVars
<1>3. CASE LoadNothing  BY <1>3 DEF LoadNothing, FinishedStoreIsRead
<1>4. CASE LoadFails  BY <1>4 DEF LoadFails, FinishedStoreIsRead
<1>5. CASE LoadBegin \/ SetEmpty \/ LoadRegister
  BY <1>1, <1>5 DEF LoadBegin, SetEmpty, LoadRegister
<1>6. CASE LoadLast
  <2>1. PICK t : t = time.sec  OBVIOUS
  <2>2. /\ pc = "load" /\ UNCHANGED <<loaded, stores, finished, loads>>
        /\ Field(pos, 1)[1].kind # "magic"
    BY <1>6 DEF LoadLast, LoadEnds
  <2>3. LastLoad = t  BY <2>1, <2>2, LastLoadIsThis
  <2>4. LastLoad' = t  BY <2>2, <2>3 DEF LastLoad
  <2>5. PICK stored : stored = Deliverable(stores[t])  OBVIOUS
  <2>6. ASSUME t \in finished
        PROVE  /\ Len(loaded) = Len(stored)
               /\ \A i \in DOMAIN loaded : loaded[i].dev = stored[i]
               /\ \A i \in DOMAIN loaded :
                    \A k \in 1 .. MapCells :
                      loaded[i].map[k] \in Range(MapOf(stored[i], t)) \cup {Blank}
    <3>1. t \in 1 .. Len(stores)
      <4>1. stores \in Seq(Seq(StoredEntrySet)) /\ finished \subseteq DOMAIN stores  BY DEF FileTypeOK
      <4> QED  BY <2>6, <4>1
    <3>2. InFile(Written(t))  BY <2>1, <2>2, <2>6 DEF ContentInv
    <3>3. pos = RegisterSize * Len(loaded) /\ HaveRead(t)  BY <2>1, <2>2, <2>6 DEF ReadInv
    <3>4. PICK count : count = Len(loaded)  OBVIOUS
    <3>5. count \in Nat /\ count <= Len(stored)
      BY <2>5, <3>3, <3>4 DEF HaveRead, FileTypeOK
    <3>6. /\ stored \in Seq(DeviceIds \cup {NoDevice})
          /\ count < Len(stored) => Field(pos, 1)[1].kind = "magic"
      BY <2>5, <3>1, <3>2, <3>3, <3>4, <3>5, FindsRegister
    <3>7. count = Len(stored)
      <4>1. Len(stored) \in Nat  BY <3>6
      <4> QED  BY <2>2, <3>5, <3>6, <4>1
    <3> QED  BY <2>5, <3>3, <3>4, <3>7 DEF HaveRead
  <2> QED  BY <2>2, <2>4, <2>5, <2>6 DEF FinishedStoreIsRead
<1>7. CASE \E d \in DeviceIds : RegisterDevice(d) \/ UnregisterDevice(d)
  BY <1>7, <1>a DEF RegisterDevice, UnregisterDevice
<1>8. CASE FileStore
  <2>1. pc' # "on"
    BY <1>8 DEF FileStore, StoreBegin, WritePage, WriteLast, WipePage, StoreEnds, StoreFails, GoesOff
  <2> QED  BY <1>1, <2>1
<1>9. CASE PowerFails  BY <1>1, <1>9 DEF PowerFails, GoesOff
<1> QED
  BY <1>2, <1>3, <1>4, <1>5, <1>6, <1>7, <1>8, <1>9 DEF FileNext, FileLoad

(* The invariant of the file, for any number of devices, pages and stores. *)
THEOREM FileInvariant == FileSpec => []FileInv
<1>1. FileInit => FileInv
  <2>1. FileInit => ReadInv /\ PureInv /\ FinishedStoreIsRead
    BY DEF FileInit, ReadInv, PureInv, StoresRead, FinishedStoreIsRead
  <2> QED  BY <2>1, FileTypeInit, CheckedInit, ClaimInit, ContentInit DEF FileInv
<1>2. FileInv /\ [FileNext]_fileVars => FileInv'
  BY FileTypeStep, CheckedStep, ClaimStep, ContentStep, ReadStep, PureStep, FinishedStep DEF FileInv
<1> QED  BY <1>1, <1>2, PTL DEF FileSpec

(* Every variable keeps its type (cbt_storage.c, cbt_persistent.c).        *)
THEOREM FileTypeCorrect == FileSpec => []FileTypeOK
<1>1. FileInv => FileTypeOK  BY DEF FileInv
<1> QED  BY <1>1, FileInvariant, PTL

(* _cbt_prst_load takes the time from the first page before it reads on,   *)
(* and a store has a time of its own: the marker of a store starts no      *)
(* second load, nothing is loaded of a file with a bad page, and with a    *)
(* store that was finished no map of an older one is loaded.               *)
THEOREM StoredDataIsLoadedOnce == FileSpec => []LoadedOnce
<1>1. FileInv => LoadedOnce
  BY DEF FileInv, CheckedInv, ClaimInv, PureInv, LoadedOnce
<1> QED  BY <1>1, FileInvariant, PTL

(* What cbt_persistent_store finished is what _cbt_prst_load reads,        *)
(* register by register, for maps, pages and files of every size.          *)
THEOREM FinishedStoreIsReadBack == FileSpec => []FinishedStoreIsRead
<1>1. FileInv => FinishedStoreIsRead  BY DEF FileInv
<1> QED  BY <1>1, FileInvariant, PTL

=============================================================================
