----------------------------- MODULE CbtStorage -----------------------------
(***************************************************************************)
(* The persistent change tracking data (cbt_storage.c, cbt_persistent.c).  *)
(* When the system goes down the CBT maps of the tracked devices are       *)
(* stored, one register for each, in the pages of a file that the module   *)
(* writes behind the back of its file system; when it comes up they are    *)
(* loaded, and its first page loses its time, which marks the file empty.  *)
(*                                                                         *)
(* Power can fail at any point, and any access to a page can fail.  A page *)
(* has a CRC, a number and a time marker: 0 for an unused one, the time of *)
(* the store for the others.  Data is a stream of cells; a cell here       *)
(* stands for some bytes, and remembers what was stored in it.  The part   *)
(* of a map that is stored as one field, a page of memory, is longer than  *)
(* the data of a storage page, which has a header.                         *)
(***************************************************************************)
EXTENDS Integers, Sequences, FiniteSets, SequencesExt

CONSTANTS
  DeviceIds,    \* the devices that can be tracked
  NoDevice,     \* what a device id that was not read is taken for
  LastPage,     \* number of the last page of the file
  PageCells,    \* CBT_PAGE_DATA_SIZE, in cells
  MapCells,     \* PAGE_SIZE, in cells
  Nanoseconds,  \* values of tv_nsec
  MaxStores     \* bound: stores

ASSUME StorageAssumption ==
  /\ IsFiniteSet(DeviceIds) /\ NoDevice \notin DeviceIds
  /\ LastPage \in Nat
  /\ PageCells \in Nat \ {0}
  /\ MapCells \in Nat \ {0}
  /\ MaxStores \in Nat

VARIABLES
  disk,      \* the pages of the file
  pc,        \* what the module does
  listed,    \* _cbt_prst_registers_list: the devices of the registers
  page,      \* accessor->page_number
  pos,       \* where the accessor reads, in cells from the start
  buf,       \* the data in accessor->page
  time,      \* accessor->time
  stream,    \* what is left to write
  loaded,    \* the registers that were loaded since the system came up
  verdict,   \* history: what cbt_storage_check found at the last load
  result,    \* history: how the last load ended
  stores,    \* history: the entries of each store that was begun
  finished,  \* history: the stores that were finished
  loads      \* history: how often each store was loaded

accessorVars == <<page, pos, buf, time, stream>>
historyVars  == <<verdict, result, stores, finished, loads>>
fileVars == <<disk, pc, listed, loaded, accessorVars, historyVars>>

Pages == 0 .. LastPage
Total == PageCells * (LastPage + 1)

Cell(kind, d, n, i) == [kind |-> kind, dev |-> d, store |-> n, part |-> i]
Blank == Cell("blank", NoDevice, 0, 0)
Blanks(n) == [i \in 1 .. n |-> Blank]

NoTime == [sec |-> 0, nsec |-> 0]
IsEmpty(t) == t.sec = 0

-----------------------------------------------------------------------------
(* The stream.                                                             *)

(* _cbt_prst_store_reg, for the n-th store: nothing if the map is not      *)
(* active; _cbt_prst_store_error if the device is still mounted.           *)
MapOf(d, n) == [i \in 1 .. MapCells |-> Cell("map", d, n, i)]

EntryCells(entry, n) ==
  CASE entry.is = "stored"   -> <<Cell("magic", entry.dev, n, 0),
                                  Cell("dev", entry.dev, n, 0)>> \o MapOf(entry.dev, n)
    [] entry.is = "error"    -> <<Cell("error", entry.dev, n, 0),
                                  Cell("text", entry.dev, n, 0)>>
    [] entry.is = "inactive" -> <<>>

(* _cbt_prst_store_all_register                                            *)
Stream(entries, n) ==
  FlattenSeq([i \in DOMAIN entries |-> EntryCells(entries[i], n)])
    \o <<Cell("end", NoDevice, n, 0)>>

(* The cells of the file, one page after the other.                        *)
OnDisk(i) == disk[(i - 1) \div PageCells].data[((i - 1) % PageCells) + 1]

(* cbt_storage_read: a field of size cells, in as many pieces as there are *)
(* pages under it.  Every piece is copied to the start of the destination. *)
Pieces(from, size) ==
  {i \in from + 1 .. from + size : i = from + 1 \/ (i - 1) % PageCells = 0}

PieceLength(from, size, i) ==
  LET room == PageCells - ((i - 1) % PageCells)
      rest == from + size - i + 1
  IN IF rest < room THEN rest ELSE room

Field(from, size) ==
  [k \in 1 .. size |->
     LET over == {i \in Pieces(from, size) : k <= PieceLength(from, size, i)}
     IN IF over = {} THEN Blank
        ELSE OnDisk((CHOOSE i \in over : \A j \in over : j <= i) + k - 1)]

-----------------------------------------------------------------------------
EmptyPage == [good |-> TRUE, time |-> NoTime, data |-> Blanks(PageCells)]

(* The service has prepared the file.                                      *)
FileInit ==
  /\ disk = [p \in Pages |-> EmptyPage]
  /\ pc = "off"
  /\ listed = <<>>
  /\ page = 0
  /\ pos = 0
  /\ buf = Blanks(PageCells)
  /\ time = NoTime
  /\ stream = <<>>
  /\ loaded = <<>>
  /\ verdict = "none"
  /\ result = "none"
  /\ stores = <<>>
  /\ finished = {}
  /\ loads = [n \in 1 .. MaxStores |-> 0]

(* _cbt_storage_read_page and cbt_storage_check: every page has its magic, *)
(* CRC and number.                                                         *)
CheckFails == \E p \in Pages : ~disk[p].good

(* A page that was written by another store.  The marker of the first page *)
(* is to be there; a page without one is unused.                           *)
Mismatch(t) ==
  /\ ~IsEmpty(t)
  /\ \E p \in Pages : /\ ~IsEmpty(disk[p].time)
                      /\ disk[p].time.sec # t.sec
                      /\ disk[p].time.nsec # t.nsec

(* cbt_storage_close; the accessor is a local variable.                    *)
Close ==
  /\ page' = 0
  /\ pos' = 0
  /\ buf' = Blanks(PageCells)
  /\ time' = NoTime
  /\ stream' = <<>>

(* The power fails, or the system goes down for good.                      *)
GoesOff ==
  /\ Close
  /\ pc' = "off"
  /\ listed' = <<>>
  /\ loaded' = <<>>

-----------------------------------------------------------------------------
(* The system comes up: _cbt_prst_load.                                    *)

(* The storage cannot be opened or read, a page is bad, or it is empty.    *)
LoadNothing ==
  /\ pc = "off"
  /\ pc' = "on"
  /\ result' = IF ~CheckFails /\ IsEmpty(disk[0].time) THEN "ok" ELSE "failed"
  /\ verdict' = "none"
  /\ UNCHANGED <<disk, listed, loaded, accessorVars, stores, finished, loads>>

(* Mutant: the position of cbt_storage_open, behind the header, is kept.   *)
LoadBeginMutant ==
  /\ pc = "off"
  /\ ~CheckFails
  /\ ~IsEmpty(disk[0].time)
  /\ pc' = "empty"
  /\ verdict' = IF Mismatch(disk[0].time) THEN "skip" ELSE "fit"
  /\ time' = disk[0].time
  /\ buf' = disk[0].data
  /\ page' = 0
  /\ pos' = 1
  /\ UNCHANGED <<disk, listed, stream, loaded, result, stores, finished, loads>>

(* cbt_storage_check drops the time of data that does not fit together,    *)
(* and cbt_storage_prepare4read takes it from the first page again.        *)
LoadBegin ==
  /\ pc = "off"
  /\ ~CheckFails
  /\ ~IsEmpty(disk[0].time)
  /\ pc' = "empty"
  /\ verdict' = IF Mismatch(disk[0].time) THEN "skip" ELSE "fit"
  /\ time' = disk[0].time
  /\ buf' = disk[0].data
  /\ page' = 0
  /\ pos' = 0
  /\ UNCHANGED <<disk, listed, stream, loaded, result, stores, finished, loads>>

(* Mutant: the first page keeps its time.                                  *)
SetEmptyMutant ==
  /\ pc = "empty"
  /\ pc' = "load"
  /\ loads' = [loads EXCEPT ![time.sec] = @ + 1]
  /\ UNCHANGED <<disk, listed, loaded, accessorVars, verdict, result, stores, finished>>

(* "set CBT data empty": the first page is written back without a time.    *)
SetEmpty ==
  /\ pc = "empty"
  /\ pc' = "load"
  /\ disk' = [disk EXCEPT ![0].time = NoTime]
  /\ loads' = [loads EXCEPT ![time.sec] = @ + 1]
  /\ UNCHANGED <<listed, loaded, accessorVars, verdict, result, stores, finished>>

(* A page cannot be read or written, or the data ends too early: what was  *)
(* loaded stays on the list.                                               *)
LoadFails ==
  /\ pc \in {"empty", "load"}
  /\ pc' = "on"
  /\ result' = "failed"
  /\ Close
  /\ UNCHANGED <<disk, listed, loaded, verdict, stores, finished, loads>>

LoadEnds ==
  /\ pc' = "on"
  /\ result' = "ok"
  /\ Close
  /\ UNCHANGED <<disk, listed, loaded, verdict, stores, finished, loads>>

RegisterSize == 2 + MapCells

(* _cbt_prst_load_reg: a register, to the head of the list ...             *)
LoadRegister ==
  /\ pc = "load"
  /\ pos + RegisterSize <= Total
  /\ Field(pos, 1)[1].kind = "magic"
  /\ LET d == Field(pos + 1, 1)[1].dev
     IN /\ listed' = <<d>> \o listed
        /\ loaded' = Append(loaded, [dev |-> d, map |-> Field(pos + 2, MapCells)])
  /\ pos' = pos + RegisterSize
  /\ UNCHANGED <<disk, pc, page, buf, time, stream, historyVars>>

(* ... or anything else, which ends the list: the end mark, the entry of a *)
(* device that was not stored, no magic at all.                            *)
LoadLast ==
  /\ pc = "load"
  /\ pos < Total
  /\ Field(pos, 1)[1].kind # "magic"
  /\ LoadEnds

FileLoad == LoadNothing \/ LoadBegin \/ SetEmpty \/ LoadFails \/ LoadRegister \/ LoadLast

-----------------------------------------------------------------------------
(* The system is up: cbt_persistent_register, cbt_persistent_unregister.   *)

RegisterDevice(d) ==
  /\ pc = "on"
  /\ ~Contains(listed, d)
  /\ listed' = <<d>> \o listed
  /\ UNCHANGED <<disk, pc, loaded, accessorVars, historyVars>>

UnregisterDevice(d) ==
  /\ pc = "on"
  /\ \E i \in DOMAIN listed :
       /\ listed[i] = d /\ \A j \in 1 .. i - 1 : listed[j] # d
       /\ listed' = RemoveAt(listed, i)
  /\ UNCHANGED <<disk, pc, loaded, accessorVars, historyVars>>

-----------------------------------------------------------------------------
(* The system goes down: cbt_persistent_store.                             *)

(* cbt_checkfs_store_available and the state of the map, for each register.*)
EntriesToStore ==
  {[i \in DOMAIN listed |-> [dev |-> listed[i], is |-> f[i]]] :
     f \in {g \in [DOMAIN listed -> {"stored", "error", "inactive"}] :
              \A i \in DOMAIN listed : listed[i] = NoDevice => g[i] = "error"}}

(* The storage is checked, and the first page read into the buffer.        *)
StoreBegin(entries, ns) ==
  LET n == Len(stores) + 1
  IN /\ pc = "on"
     /\ n <= MaxStores
     /\ ~CheckFails
     /\ pc' = "write"
     /\ page' = 0
     /\ buf' = disk[0].data
     /\ time' = [sec |-> n, nsec |-> ns]
     /\ stream' = Stream(entries, n)
     /\ stores' = Append(stores, entries)
     /\ loaded' = <<>>
     /\ UNCHANGED <<disk, listed, pos, verdict, result, finished, loads>>

(* The next piece of the stream over what the buffer holds.                *)
Filled ==
  [i \in 1 .. PageCells |-> IF i <= Len(stream) THEN stream[i] ELSE buf[i]]

WriteTo(p, t, data) ==
  /\ disk' = [disk EXCEPT ![p] = [good |-> TRUE, time |-> t, data |-> data]]
  /\ page' = p + 1
  /\ buf' = data

(* cbt_storage_write writes the pages that are full ...                    *)
WritePage ==
  /\ pc = "write"
  /\ page <= LastPage
  /\ Len(stream) >= PageCells
  /\ WriteTo(page, time, Filled)
  /\ stream' = SubSeq(stream, PageCells + 1, Len(stream))
  /\ UNCHANGED <<pc, listed, loaded, pos, time, historyVars>>

(* ... cbt_storage_write_finish the last one, with what remains ...        *)
WriteLast ==
  /\ pc = "write"
  /\ page <= LastPage
  /\ Len(stream) < PageCells
  /\ WriteTo(page, time, Filled)
  /\ stream' = <<>>
  /\ pc' = "wipe"
  /\ UNCHANGED <<listed, loaded, pos, time, historyVars>>

(* Mutant: one page too many.                                              *)
WipePageMutant ==
  /\ pc = "wipe"
  /\ page <= LastPage + 1
  /\ WriteTo(page, NoTime, Blanks(PageCells))
  /\ UNCHANGED <<pc, listed, loaded, pos, time, stream, historyVars>>

(* ... and marks the others unused.                                        *)
WipePage ==
  /\ pc = "wipe"
  /\ page <= LastPage
  /\ WriteTo(page, NoTime, Blanks(PageCells))
  /\ UNCHANGED <<pc, listed, loaded, pos, time, stream, historyVars>>

(* All is written, which may have filled the last page.                    *)
StoreEnds ==
  /\ pc \in {"write", "wipe"}
  /\ page = LastPage + 1
  /\ stream = <<>>
  /\ finished' = finished \cup {Len(stores)}
  /\ GoesOff
  /\ UNCHANGED <<disk, verdict, result, stores, loads>>

(* A page cannot be written, or the data does not fit.  What was written   *)
(* stays.                                                                  *)
StoreFails ==
  /\ pc \in {"write", "wipe"}
  /\ page = LastPage + 1 => stream # <<>>
  /\ GoesOff
  /\ UNCHANGED <<disk, historyVars>>

FileStore ==
  \/ \E entries \in EntriesToStore, ns \in Nanoseconds : StoreBegin(entries, ns)
  \/ WritePage \/ WriteLast \/ WipePage \/ StoreEnds \/ StoreFails

-----------------------------------------------------------------------------
(* The power fails; a page that is being written may be lost.              *)
PowerFails ==
  /\ pc # "off"
  /\ GoesOff
  /\ \/ UNCHANGED disk
     \/ /\ pc \in {"empty", "write", "wipe"}
        /\ page <= LastPage
        /\ disk' = [disk EXCEPT ![page].good = FALSE]
  /\ UNCHANGED historyVars

FileNext ==
  \/ FileLoad
  \/ FileStore
  \/ \E d \in DeviceIds : RegisterDevice(d) \/ UnregisterDevice(d)
  \/ PowerFails

FileSpec == FileInit /\ [][FileNext]_fileVars

-----------------------------------------------------------------------------
(* Properties.                                                             *)

CellSet ==
  [kind : {"blank", "magic", "dev", "map", "error", "text", "end"},
   dev : DeviceIds \cup {NoDevice}, store : 0 .. MaxStores, part : 0 .. MapCells]
TimeSet == [sec : 0 .. MaxStores, nsec : Nanoseconds \cup {0}]

PageSet == [good : BOOLEAN, time : TimeSet, data : [1 .. PageCells -> CellSet]]
LoadedSet == [dev : DeviceIds \cup {NoDevice}, map : [1 .. MapCells -> CellSet]]
StoredEntrySet == [dev : DeviceIds \cup {NoDevice}, is : {"stored", "error", "inactive"}]

(* Every variable keeps its type.                                          *)
FileTypeOK ==
  /\ disk \in [Pages -> PageSet]
  /\ pc \in {"off", "on", "empty", "load", "write", "wipe"}
  /\ listed \in Seq(DeviceIds \cup {NoDevice})
  /\ page \in 0 .. LastPage + 1
  /\ pos \in 0 .. Total
  /\ buf \in [1 .. PageCells -> CellSet]
  /\ time \in TimeSet
  /\ stream \in Seq(CellSet)
  /\ loaded \in Seq(LoadedSet)
  /\ verdict \in {"none", "fit", "skip"}
  /\ result \in {"none", "ok", "failed"}
  /\ stores \in Seq(Seq(StoredEntrySet)) /\ Len(stores) <= MaxStores
  /\ finished \subseteq DOMAIN stores
  /\ loads \in [1 .. MaxStores -> Nat]

LastLoad == IF loads = [n \in DOMAIN loads |-> 0] THEN 0
            ELSE CHOOSE n \in DOMAIN loads :
                   loads[n] > 0 /\ \A m \in DOMAIN loads : loads[m] > 0 => m <= n

(* The stores that the loaded maps come from.                              *)
StoresRead ==
  {loaded[i].map[k].store : i \in DOMAIN loaded, k \in 1 .. MapCells} \ {Blank.store}

(* The time marker of a store starts a load at most once, and of a file    *)
(* with a page whose write was cut off nothing is loaded at all.  When the *)
(* store that is loaded was finished, no map of an earlier life comes back *)
(* with it, at whatever page its load is cut off.  That is not so of a     *)
(* store that was not finished: behind the pages it wrote, whose time is   *)
(* not that of the rest, registers of older stores are read, which may     *)
(* have been loaded before (cbt_storage.c:224, 273-279).                   *)
LoadedOnce ==
  /\ \A n \in DOMAIN loads : loads[n] <= 1
  /\ CheckFails => pc \in {"off", "on"} /\ loaded = <<>>
  /\ LastLoad \in finished => StoresRead \subseteq {LastLoad}

(* The devices that were stored before the first one that was not.         *)
Deliverable(entries) ==
  FlattenSeq([i \in DOMAIN entries |->
    IF entries[i].is = "stored" /\ \A j \in 1 .. i : entries[j].is # "error"
    THEN <<entries[i].dev>> ELSE <<>>])

(* The reader does not lose its place.  What a finished store wrote is     *)
(* loaded register by register, in its order, up to the first device that  *)
(* was not stored, though fields go over the end of a page and old data    *)
(* lies behind the end; and the part of a map that lies in the last page   *)
(* under it arrives.                                                       *)
FinishedStoreIsRead ==
  pc = "on" /\ result = "ok" /\ verdict # "none" /\ LastLoad \in finished =>
    LET stored == Deliverable(stores[LastLoad])
    IN /\ Len(loaded) = Len(stored)
       /\ \A i \in DOMAIN loaded : loaded[i].dev = stored[i]
       /\ \A i \in DOMAIN loaded :
            \A k \in 1 .. MapCells :
              loaded[i].map[k] \in Range(MapOf(stored[i], LastLoad)) \cup {Blank}

(* "reading is complete" (cbt_storage.c:360): the map of a register is     *)
(* read as it was written.                                                 *)
ReadsWhole ==
  pc = "on" /\ result = "ok" /\ LastLoad \in finished =>
    \A i \in DOMAIN loaded : loaded[i].map = MapOf(loaded[i].dev, LastLoad)

=============================================================================
