--------------------------- MODULE SnapdataCollect ---------------------------
(***************************************************************************)
(* How the service learns where the file of a snapstore lies               *)
(* (snapdata_collect.c).  It starts a collector on the device, writes a    *)
(* magic pattern all over the file, and asks for the sectors at which the  *)
(* request hook saw the pattern go by: first how many ranges they make,    *)
(* then for the ranges.  The first of these calls stops the collector; a   *)
(* last one frees it.                                                      *)
(*                                                                         *)
(* The calls come one after the other, as the service makes them, for one  *)
(* device; the writes go through the hook beside them.                     *)
(*                                                                         *)
(* The set of sectors of a collector is given by constants, with what is   *)
(* relied on here; SparseBitmap is sparse_bitmap.c.                        *)
(***************************************************************************)
EXTENDS Integers, Sequences, FiniteSets, SequencesExt

CONSTANTS
  Maps(_),        \* the states of a sparsebitmap_t, for a device of a length
  Room(_),        \* how many indexes it tells apart then
  Bits(_),        \* the indexes that are set in it
  NewMap(_),      \* sparsebitmap_create, for a length
  LacksIn(_),     \* the allocations that may fail, for a length ...
  NothingLacks,   \* ... or none of them
  SetBit(_, _, _),  \* sparsebitmap_Set
  Ranges(_, _)    \* sparsebitmap_convert2rangelist: memory lacks for a range

CONSTANTS
  Writers,        \* writes under way at a time
  Writes,         \* what is written: the segments (bio_vec) of a bio
  Lengths,        \* capacities of the device, in sectors
  MapBits,        \* bits of sectors_map
  MaxCollectors,  \* bound: collectors allocated
  MaxWrites,      \* bound: writes
  MaxRanges       \* bound: the range up to which memory may lack

(* A segment: where it goes, its sectors, its offset in the page in        *)
(* sectors, and which of its sectors have the pattern.                     *)
Segments == [first : Nat, cnt : Nat \ {0}, off : Nat, magic : SUBSET Nat]

ASSUME CollectAssumption ==
  /\ MapBits \in Nat \ {0} /\ MaxCollectors \in Nat /\ MaxWrites \in Nat /\ MaxRanges \in Nat
  /\ Lengths \subseteq Nat \ {0}
  /\ Writes \subseteq Seq(Segments) \ {<<>>}
  /\ \A w \in Writes : \A i \in DOMAIN w :
       /\ w[i].magic \subseteq 0 .. w[i].cnt - 1
       /\ i > 1 => w[i].first = w[i - 1].first + w[i - 1].cnt

Covered(list) == UNION {list[i].ofs .. list[i].ofs + list[i].cnt - 1 : i \in DOMAIN list}

(* Unless memory lacks for the array of a block, the bits are those that   *)
(* were set, and the ranges those of the bits; if they are all set there   *)
(* may be no range.                                                        *)
ASSUME MapAssumption ==
  \A l \in Lengths :
    /\ NewMap(l) \in Maps(l) /\ Bits(NewMap(l)) = {}
    /\ NothingLacks \in LacksIn(l)
    /\ \A map \in Maps(l), p \in 0 .. l - 1, lack \in LacksIn(l) :
         LET set == SetBit(map, p, lack) IN
         /\ set.res # "array" => set.map \in Maps(l)
         /\ l <= Room(l) /\ set.res # "array" => Bits(set.map) \subseteq Bits(map) \cup {p}
         /\ l <= Room(l) /\ set.res = "ok" => Bits(map) \cup {p} \subseteq Bits(set.map)
    /\ l <= Room(l) =>
         \A map \in Maps(l), failAt \in 0 .. MaxRanges :
           LET got == Ranges(map, failAt) IN
           got.res = "ok" =>
             /\ Covered(got.list) \subseteq Bits(map)
             /\ failAt = 0 /\ Bits(map) # 0 .. l - 1 => Bits(map) \subseteq Covered(got.list)

VARIABLES
  length,      \* capacity of the device
  hasFs,       \* a file system is mounted on it: freezing has an effect
  active,      \* ActiveCollectors
  stopped,     \* StoppedCollectors
  collector,   \* each snapdata_collector_t
  call,        \* the call under way
  frozen,      \* the file system is frozen
  at,          \* where each write is in the hook
  write,       \* what it writes
  found,       \* the collector it works for
  writes,      \* number of writes so far
  must,        \* the one that should see it, and what of it
  due,         \* history: of each collector, sectors it had to see
  seen,        \* history: ... sectors with the pattern that passed it
  flaw,        \* history: ... what spoilt it
  bare,        \* history: a collector was stopped with nothing frozen
  hurt         \* history: a write touched a collector that was freed

blockDevice  == <<length, hasFs>>
listVars    == <<active, stopped, collector>>
writeVars   == <<at, write, writes, found, must>>
historyVars == <<due, seen, flaw, bare, hurt>>
collectVars == <<blockDevice, listVars, call, frozen, writeVars, historyVars>>

Collectors == 1 .. MaxCollectors
NoOne == 0
NoCollector == [live |-> "no", ref |-> FALSE, fail |-> FALSE, map |-> NewMap(length)]
Nothing == [c |-> NoOne, what |-> {}]
Idle == [op |-> "none", at |-> "idle", c |-> NoOne]
Live(c) == collector[c].live = "yes"

CollectInit ==
  /\ length \in Lengths /\ hasFs \in BOOLEAN
  /\ active = <<>> /\ stopped = <<>>
  /\ collector = [c \in Collectors |-> NoCollector]
  /\ call = Idle /\ frozen = FALSE
  /\ at = [u \in Writers |-> "idle"]
  /\ write = [u \in Writers |-> <<>>]
  /\ found = [u \in Writers |-> NoOne]
  /\ writes = 0
  /\ must = [u \in Writers |-> Nothing]
  /\ due = [c \in Collectors |-> {}]
  /\ seen = [c \in Collectors |-> {}]
  /\ flaw = [c \in Collectors |-> {}]
  /\ bare = FALSE /\ hurt = FALSE

-----------------------------------------------------------------------------
(* The request hook.                                                       *)

(* Sectors of the device that a write fills with the pattern.              *)
MagicOf(w) == UNION {{w[i].first + s : s \in w[i].magic} : i \in DOMAIN w}

(* tracking_make_request is called; it may be at any time, as a tracker of *)
(* the disk may keep the hook in.                                          *)
Enter(u) ==
  /\ at[u] = "idle" /\ ~hurt /\ ~frozen /\ call.at # "gone"
  /\ writes < MaxWrites /\ writes' = writes + 1
  /\ \E w \in Writes :
       /\ \A i \in DOMAIN w : w[i].first + w[i].cnt <= length
       /\ write' = [write EXCEPT ![u] = w]
  /\ at' = [at EXCEPT ![u] = "find"]
  /\ must' = [must EXCEPT ![u] = [c |-> IF active = <<>> THEN NoOne ELSE Head(active),
                                  what |-> MagicOf(write'[u])]]
  /\ UNCHANGED <<blockDevice, listVars, call, frozen, found, historyVars>>

(* snapdata_collect_Find, which takes no reference, and the test of        *)
(* fail_code in snapdata_collect_Process.                                  *)
Find(u) ==
  /\ at[u] = "find"
  /\ IF active = <<>> \/ collector[Head(active)].fail
     THEN at' = [at EXCEPT ![u] = "submit"] /\ UNCHANGED <<found, seen>>
     ELSE /\ at' = [at EXCEPT ![u] = "segments"]
          /\ found' = [found EXCEPT ![u] = Head(active)]
          /\ seen' = [seen EXCEPT ![Head(active)] = @ \cup MagicOf(write[u])]
  /\ UNCHANGED <<blockDevice, listVars, call, frozen, write, writes, must,
                 due, flaw, bare, hurt>>

(* Mutant: the place is that of the sector before.                         *)
SetAllMutant(map, seg, lack) ==
  LET One(set, p) == IF p >= length THEN [map |-> set.map, res |-> "inval"]
                                    ELSE SetBit(set.map, p, lack)
      set[n \in 0 .. seg.cnt] ==
        IF n = 0 THEN [map |-> map, res |-> "ok"]
        ELSE LET before == set[n - 1]
             IN IF n - 1 \in seg.magic /\ before.res = "ok"
                THEN One(before, seg.first + seg.off + n) ELSE before
  IN set[seg.cnt]

(* The sectors of a segment that have the pattern, one after the other:    *)
(* sparsebitmap_Set of each, until one fails for which memory lacks.  The  *)
(* place of a sector is that in its page, also when the segment does not   *)
(* begin with the page.                                                    *)
SetAll(map, seg, lack) ==
  LET One(set, p) == IF p >= length THEN [map |-> set.map, res |-> "inval"]
                                    ELSE SetBit(set.map, p, lack)
      set[n \in 0 .. seg.cnt] ==
        IF n = 0 THEN [map |-> map, res |-> "ok"]
        ELSE LET before == set[n - 1]
             IN IF n - 1 \in seg.magic /\ before.res = "ok"
                THEN One(before, seg.first + seg.off + n - 1) ELSE before
  IN set[seg.cnt]

(* What becomes of a write after its first segment.                        *)
Advance(u) ==
  /\ write' = [write EXCEPT ![u] = Tail(@)]
  /\ at' = [at EXCEPT ![u] = IF Len(write[u]) = 1 THEN "submit" ELSE "segments"]

(* _snapdata_collect_bvec, under the locker of the collector.  What the    *)
(* bitmap returns is dropped; only a segment longer than the map of bits   *)
(* fails, and the collector with it.                                       *)
Collect(u) ==
  LET c == found[u]  seg == Head(write[u]) IN
  /\ at[u] = "segments"
  /\ UNCHANGED <<blockDevice, active, stopped, call, frozen, writes, found, must, due, seen, bare>>
  /\ CASE ~Live(c) -> hurt' = TRUE /\ Advance(u) /\ UNCHANGED <<collector, flaw>>
       [] Live(c) /\ seg.cnt > MapBits ->
            /\ collector' = [collector EXCEPT ![c].fail = TRUE]
            /\ at' = [at EXCEPT ![u] = "submit"]
            /\ UNCHANGED <<write, flaw, hurt>>
       [] OTHER ->
            \E lack \in LacksIn(length) :
              /\ flaw[c] \cap {"array", "block"} # {} => lack = NothingLacks    \* bound: once
              /\ LET set == SetAll(collector[c].map, seg, lack) IN
                 /\ collector' = [collector EXCEPT ![c].map = set.map]
                 /\ flaw' = [flaw EXCEPT ![c] = @ \cup ({set.res} \ {"ok"})
                                                 \cup (IF seg.off > 0 THEN {"offset"} ELSE {})]
                 /\ Advance(u) /\ UNCHANGED hurt

(* The write goes on to the device.  History: the collector that is still  *)
(* at work had to see it.                                                  *)
Submit(u) ==
  /\ at[u] = "submit"
  /\ at' = [at EXCEPT ![u] = "idle"]
  /\ write' = [write EXCEPT ![u] = <<>>]
  /\ found' = [found EXCEPT ![u] = NoOne]
  /\ must' = [must EXCEPT ![u] = Nothing]
  /\ due' = IF Contains(active, must[u].c)
            THEN [due EXCEPT ![must[u].c] = @ \cup must[u].what] ELSE due
  /\ UNCHANGED <<blockDevice, listVars, call, frozen, writes, seen, flaw, bare, hurt>>

Writer(u) == Enter(u) \/ Find(u) \/ Collect(u) \/ Submit(u)

-----------------------------------------------------------------------------
(* The calls.                                                              *)

GoesOn(from, to) == call.at = from /\ call' = [call EXCEPT !.at = to]
Returns(from) == call.at = from /\ call' = Idle

(* freeze_bdev holds new writes of the file system back ...                *)
Blocks(from, to) ==
  /\ GoesOn(from, to)
  /\ frozen' = hasFs
  /\ UNCHANGED <<blockDevice, listVars, writeVars, historyVars>>

(* ... and waits for those under way.                                      *)
Drained == frozen => \A u \in Writers : at[u] = "idle"

Thaws(from) ==
  /\ Returns(from)
  /\ frozen' = FALSE
  /\ UNCHANGED <<blockDevice, listVars, writeVars, historyVars>>

(* Mutant: a bit for every two sectors.                                    *)
StartMutant(c) ==
  /\ call = Idle /\ ~hurt /\ collector[c].live = "no" /\ \A d \in 1 .. c - 1 : collector[d].live # "no"
  /\ call' = [op |-> "start", at |-> "start", c |-> c]
  /\ collector' = [collector EXCEPT ![c].live = "yes", ![c].map = NewMap(length \div 2)]
  /\ UNCHANGED <<blockDevice, active, stopped, frozen, writeVars, historyVars>>

(* snapdata_collect_LocationStart: collector_init.                         *)
Start(c) ==
  /\ call = Idle /\ ~hurt /\ collector[c].live = "no" /\ \A d \in 1 .. c - 1 : collector[d].live # "no"
  /\ call' = [op |-> "start", at |-> "start", c |-> c]
  /\ collector' = [collector EXCEPT ![c].live = "yes", ![c].map = NewMap(length)]
  /\ UNCHANGED <<blockDevice, active, stopped, frozen, writeVars, historyVars>>

StartFreeze == Blocks("start", "startFrozen")

(* tracker_disk_create_or_get, and on the list.                            *)
StartPush ==
  /\ Drained /\ GoesOn("startFrozen", "thaw")
  /\ collector' = [collector EXCEPT ![call.c].ref = TRUE]
  /\ active' = Append(active, call.c)
  /\ UNCHANGED <<blockDevice, stopped, frozen, writeVars, historyVars>>

(* The freeze, or the reference, fails: collector_free.                    *)
StartFails ==
  /\ \/ call.at = "start"
     \/ call.at = "startFrozen" /\ Drained
  /\ call' = Idle
  /\ frozen' = FALSE
  /\ collector' = [collector EXCEPT ![call.c] = NoCollector]
  /\ UNCHANGED <<blockDevice, active, stopped, writeVars, historyVars>>

Thaw == Thaws("thaw")

(* collector_get looks for an active collector, and stops it; so does      *)
(* snapdata_collect_Done, until there is none.                             *)
Look ==
  /\ call.at \in {"find", "done"}
  /\ IF active = <<>>
     THEN call' = [call EXCEPT !.at = "look"]
     ELSE call' = [call EXCEPT !.at = "stop", !.c = Head(active)]
  /\ UNCHANGED <<blockDevice, listVars, frozen, writeVars, historyVars>>

StopFreeze == Blocks("stop", "stopFrozen")

(* A freeze that fails is logged, no more.                                 *)
StopNotFrozen ==
  /\ GoesOn("stop", "stopFrozen")
  /\ UNCHANGED <<blockDevice, listVars, frozen, writeVars, historyVars>>

(* Mutant: writes under way are not waited for.                            *)
StopPutMutant ==
  /\ GoesOn("stopFrozen", "stopPut")
  /\ collector' = [collector EXCEPT ![call.c].ref = FALSE]
  /\ bare' = (bare \/ ~frozen)
  /\ UNCHANGED <<blockDevice, active, stopped, frozen, writeVars, due, seen, flaw, hurt>>

(* tracker_disk_put                                                        *)
StopPut ==
  /\ Drained /\ GoesOn("stopFrozen", "stopPut")
  /\ collector' = [collector EXCEPT ![call.c].ref = FALSE]
  /\ bare' = (bare \/ ~frozen)
  /\ UNCHANGED <<blockDevice, active, stopped, frozen, writeVars, due, seen, flaw, hurt>>

(* From the one list to the other.                                         *)
StopPull ==
  /\ GoesOn("stopPut", "stopThaw")
  /\ \E i \in DOMAIN active : active[i] = call.c /\ active' = RemoveAt(active, i)
  /\ stopped' = Append(stopped, call.c)
  /\ UNCHANGED <<blockDevice, collector, frozen, writeVars, historyVars>>

StopThaw ==
  /\ call.at = "stopThaw"
  /\ call' = [call EXCEPT !.at = IF call.op = "done" THEN "done" ELSE "look", !.c = NoOne]
  /\ frozen' = FALSE
  /\ UNCHANGED <<blockDevice, listVars, writeVars, historyVars>>

(* snapdata_collect_LocationGet of the collector found among the stopped   *)
(* ones: what it answers, with no memory for one of the ranges or none.    *)
Answer(failAt) ==
  IF stopped = <<>> \/ collector[Head(stopped)].fail
  THEN [res |-> "error", list |-> <<>>]
  ELSE Ranges(collector[Head(stopped)].map, failAt)

Get ==
  /\ call.op = "find" /\ Returns("look")
  /\ UNCHANGED <<blockDevice, listVars, frozen, writeVars, historyVars>>

(* The collector found is taken from the list, and collector_free.         *)
FreeFirst ==
  LET c == Head(stopped)
  IN /\ stopped' = Tail(stopped)
     /\ collector' = [collector EXCEPT ![c] = [NoCollector EXCEPT !.live = "freed"]]
     /\ due' = [due EXCEPT ![c] = {}]
     /\ seen' = [seen EXCEPT ![c] = {}]
     /\ flaw' = [flaw EXCEPT ![c] = {}]

(* snapdata_collect_LocationComplete                                       *)
Complete ==
  /\ call.op = "find" /\ Returns("look")
  /\ IF stopped = <<>> THEN UNCHANGED <<stopped, collector, due, seen, flaw>>
                       ELSE FreeFirst
  /\ UNCHANGED <<blockDevice, active, frozen, writeVars, bare, hurt>>

(* snapdata_collect_Done, and the hook goes with the rest of the module.   *)
Done ==
  /\ call.op = "done" /\ call.at = "look"
  /\ IF stopped = <<>>
     THEN call' = [call EXCEPT !.at = "gone"] /\ UNCHANGED <<stopped, collector, due, seen, flaw>>
     ELSE FreeFirst /\ UNCHANGED call
  /\ UNCHANGED <<blockDevice, active, frozen, writeVars, bare, hurt>>

Caller ==
  \/ StartFreeze \/ StartPush \/ StartFails \/ Thaw
  \/ Look \/ StopFreeze \/ StopNotFrozen \/ StopPut \/ StopPull \/ StopThaw
  \/ Get \/ Complete \/ Done

(* The service calls, for one of the two things that begin in the same way *)
(* (it is told apart at their end), or the module is unloaded.             *)
Call(op) ==
  /\ call = Idle /\ ~hurt
  /\ call' = [op |-> op, at |-> op, c |-> NoOne]
  /\ UNCHANGED <<blockDevice, listVars, frozen, writeVars, historyVars>>

Calls == Call("find") \/ Call("done")

CollectNext ==
  \/ \E u \in Writers : Writer(u)
  \/ \E c \in Collectors : Start(c)
  \/ Calls \/ Caller

CollectSpec == CollectInit /\ [][CollectNext]_collectVars

-----------------------------------------------------------------------------
Sectors == 0 .. length - 1

CollectTypeOK ==
  /\ length \in Lengths /\ hasFs \in BOOLEAN
  /\ active \in Seq(Collectors) /\ stopped \in Seq(Collectors)
  /\ \A c \in Collectors :
       /\ collector[c].live \in {"no", "yes", "freed"}
       /\ collector[c].ref \in BOOLEAN /\ collector[c].fail \in BOOLEAN
       /\ "array" \in flaw[c] \/ collector[c].map \in Maps(length)
  /\ call.c \in Collectors \cup {NoOne}
  /\ frozen \in BOOLEAN
  /\ at \in [Writers -> {"idle", "find", "segments", "submit"}]
  /\ \A u \in Writers : found[u] \in Collectors \cup {NoOne}
  /\ bare \in BOOLEAN /\ hurt \in BOOLEAN

(* The list the service gets is that of the sectors at which the pattern   *)
(* went by while the collector was at work, no more and no less, though    *)
(* the calls race with the writes and the set is kept as a tree.  What     *)
(* this leaves out are the ways the code can fail without saying so: no    *)
(* memory for the tree or for a range, a segment that does not begin with  *)
(* its page, a device with the pattern in every sector, and a length for   *)
(* which _calc_level makes the tree too low.                               *)
LocationIsExact ==
  call.op = "find" /\ call.at = "look" /\ length <= Room(length) =>
    \A failAt \in 0 .. MaxRanges :
      Answer(failAt).res = "ok" =>
        LET c == Head(stopped)  got == Covered(Answer(failAt).list) IN
        /\ flaw[c] \cap {"array", "offset"} = {} => got \subseteq seen[c]
        /\ flaw[c] = {} /\ failAt = 0 /\ seen[c] # Sectors => due[c] \subseteq got

(* A write finds its collector without taking a reference; it is not freed *)
(* before the write is through, unless nothing was frozen to stop it.      *)
(* Between calls each collector is on the list it belongs to, and those at *)
(* work, no others, hold the hook of the disk.                             *)
CollectorsAreKept ==
  /\ hurt => bare
  /\ call = Idle =>
       /\ \A c \in Collectors :
            /\ Live(c) <=> Contains(active \o stopped, c)
            /\ collector[c].ref <=> Contains(active, c)
       /\ IsInjective(active \o stopped)

=============================================================================
