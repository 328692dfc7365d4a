---------------------------- MODULE PersistentCbt ----------------------------
(***************************************************************************)
(* The registers of the persistent CBT (cbt_persistent.c) through loads    *)
(* and unloads of the module, shutdowns and crashes: which map a tracker   *)
(* gets when the stored registers are loaded, after which checks of the    *)
(* file system (cbt_checkfs.c, ext4_check.c), and what a backup service    *)
(* concludes from that map.  How the registers lie in the pages of the     *)
(* storage is the matter of CbtStorage; here it is a sequence of them, and *)
(* a store that is cut off leaves what it wrote in front of what was there *)
(* before.  Where one register ends and the next begins is left open.      *)
(*                                                                         *)
(* Each device is one block of the CBT map.  A map object is named by the  *)
(* random number that was drawn for it, its generation id when it is new.  *)
(***************************************************************************)
EXTENDS Integers, Sequences, FiniteSets, SequencesExt

CONSTANTS
  Devices,    \* the devices that can be tracked
  Storage,    \* the device that holds the persistent CBT data
  Room,       \* how many registers the storage can hold
  MaxNumber,  \* the largest snapshot number, 255 in cbt_map_switch
  MaxDraws,   \* bound: random numbers drawn, hence maps made
  MaxMounts   \* bound: mounts of a file system

ASSUME PersistentAssumption ==
  /\ IsFiniteSet(Devices) /\ Storage \notin Devices
  /\ Room \in Nat
  /\ MaxNumber \in Nat \ {0}
  /\ MaxDraws \in Nat
  /\ MaxMounts \in Nat

VARIABLES
  inKernel,    \* the module is loaded
  configured,  \* _cbt_params.dev_id # 0
  isLoad,      \* _cbt_is_load
  notified,    \* _cbt_prst_notify_devices_list
  registers,   \* _cbt_prst_registers_list, its head first
  maps,        \* the CBT maps that somebody holds
  tracker,     \* the map of the tracker of each device
  storage,     \* the registers in the storage, and whether it is marked full
  draws,       \* random numbers drawn so far
  mounted,     \* devices with a mounted file system
  superblock,  \* what the checksum tells apart: how often it was mounted
  changed,     \* devices written since their last image that was backed up
  image,       \* the snapshot image of each device: "none", or whether the
               \* device was "changed" since that backup
  known        \* the service's last backup: generation and snapshot number,
               \* and (history) whether its map was loaded again

moduleVars   == <<inKernel, configured, isLoad, notified>>
registerVars == <<registers, maps, tracker, draws>>
worldVars    == <<mounted, superblock>>
serviceVars  == <<changed, image, known>>
vars == <<moduleVars, registerVars, storage, worldVars, serviceVars>>

Numbers == 0 .. MaxNumber

None  == 0
NoCrc == -1

(* cbt_map_create.  The field again is a history variable: a map comes     *)
(* from a register that had been loaded before it was loaded for this map. *)
NewMap(id) ==
  [genActive |-> id, genPrevious |-> id, numActive |-> 1, numPrevious |-> 0,
   write |-> 0, read |-> 0, active |-> TRUE, again |-> FALSE]

(* A register in the storage that reports an error.                        *)
Error ==
  [dev |-> Storage, crc |-> NoCrc, write |-> 0, genActive |-> 0, numActive |-> 0,
   again |-> FALSE]

EmptyStorage == [full |-> FALSE, entries |-> <<>>]

(* A CBT map is freed when neither a register nor a tracker holds it.      *)
Hold(regs, trk, all) ==
  /\ registers' = regs
  /\ tracker' = trk
  /\ maps' = Restrict(all, (Range(trk) \ {None}) \cup {reg.map : reg \in Range(regs)})

Untracked == [d \in Devices |-> None]

-----------------------------------------------------------------------------
Init ==
  /\ inKernel = FALSE
  /\ configured = FALSE
  /\ isLoad = FALSE
  /\ notified = {}
  /\ registers = <<>>
  /\ maps = <<>>
  /\ tracker = Untracked
  /\ storage = EmptyStorage
  /\ draws = 0
  /\ mounted = {}
  /\ superblock = [d \in Devices |-> 0]
  /\ changed = {}
  /\ image = [d \in Devices |-> "none"]
  /\ known = [d \in Devices |-> [gen |-> 0, number |-> 0, again |-> FALSE]]

-----------------------------------------------------------------------------
(* Loading the registers: _cbt_prst_load.                                  *)

(* A register that reports an error ends the load.                         *)
Loadable ==
  LET error == SelectInSeq(storage.entries, LAMBDA e : e = Error)
  IN IF ~storage.full THEN <<>>
     ELSE IF error = 0 THEN storage.entries
     ELSE SubSeq(storage.entries, 1, error - 1)

(* Mutant: the loaded map continues the generation that was reported.      *)
LoadedMapMutant(e, id) ==
  [NewMap(id) EXCEPT !.genActive = e.genActive, !.genPrevious = e.genActive,
                     !.numActive = e.numActive, !.write = e.write, !.again = e.again]

(* _cbt_prst_load_reg fills a new map; generationId_previous and           *)
(* snap_number_previous were not stored and stay as they were created.     *)
LoadedMap(e, id) ==
  [NewMap(id) EXCEPT !.genActive = e.genActive, !.numActive = e.numActive,
                     !.write = e.write, !.again = e.again]

(* Each loaded register goes to the head of the list, whether or not there *)
(* is one for its device.                                                  *)
LoadedRegisters ==
  Reverse([i \in DOMAIN Loadable |->
             [dev |-> Loadable[i].dev, crc |-> Loadable[i].crc, map |-> draws + i]])
  \o registers

LoadedMaps ==
  [id \in DOMAIN maps \cup draws + 1 .. draws + Len(Loadable) |->
     IF id > draws THEN LoadedMap(Loadable[id - draws], id) ELSE maps[id]]

(* What is remembered of a file system that is not mounted: the checksum   *)
(* of its superblock (ext4_check_unmount_status).                          *)
Checksum(d) == superblock[d]

(* ext4_check_offline_changes                                              *)
NoOfflineChanges(reg) == reg.crc = Checksum(reg.dev)

IsMounted(d) == d \in mounted

(* cbt_checkfs_start_tracker_available: the register was stored, its file  *)
(* system is not mounted, and has not been mounted since.                  *)
Permitted(reg) ==
  /\ reg.crc # NoCrc
  /\ ~IsMounted(reg.dev)
  /\ NoOfflineChanges(reg)

(* A device that is not tracked gets the map of its first register, the    *)
(* first that passes the check of the file system if there is a check.     *)
Started(regs, devs, checked) ==
  [d \in Devices |->
     LET first == SelectInSeq(regs, LAMBDA reg :
                                reg.dev = d /\ (checked => Permitted(reg)))
     IN IF d \notin devs \/ tracker[d] # None \/ first = 0
        THEN tracker[d] ELSE regs[first].map]

(* The storage is marked empty before it is read; the registers stay where *)
(* they are.                                                               *)
Emptied ==
  [full |-> FALSE,
   entries |-> [i \in DOMAIN storage.entries |->
                  IF i \in DOMAIN Loadable
                  THEN [storage.entries[i] EXCEPT !.again = TRUE]
                  ELSE storage.entries[i]]]

Load(devs, checked) ==
  /\ draws + Len(Loadable) <= MaxDraws
  /\ draws' = draws + Len(Loadable)
  /\ Hold(LoadedRegisters, Started(LoadedRegisters, devs, checked), LoadedMaps)
  /\ isLoad' = storage.full
  /\ storage' = Emptied

(* veeamsnap_init, with or without the parameter cbtdata.  Trackers of     *)
(* devices that are there start without a check: at this moment no device  *)
(* has been notified.                                                      *)
InitModule(params, there) ==
  /\ ~inKernel
  /\ inKernel' = TRUE
  /\ configured' = params
  /\ IF params /\ Storage \in there
     THEN Load(there, FALSE)
     ELSE UNCHANGED <<isLoad, registerVars, storage>>
  /\ UNCHANGED <<notified, worldVars, serviceVars>>

(* cbt_notify_dev_new                                                      *)
Notify(d) == notified' = notified \cup {d}

(* A device arrives: cbt_persistent_device_attach.                         *)
DeviceAttach(d) ==
  /\ inKernel
  /\ Notify(d)
  /\ IF isLoad
     THEN Hold(registers, Started(registers, {d}, TRUE), maps)
     ELSE UNCHANGED <<registers, tracker, maps>>
  /\ UNCHANGED <<inKernel, configured, isLoad, draws, storage, worldVars,
                 serviceVars>>

(* The device with the CBT data arrives.                                   *)
StorageAttach ==
  /\ inKernel
  /\ configured
  /\ ~isLoad
  /\ Load(notified, TRUE)
  /\ UNCHANGED <<inKernel, configured, notified, worldVars, serviceVars>>

(* ioctl_persistentcbt_data                                                *)
SetParameters ==
  /\ inKernel
  /\ configured' \in BOOLEAN
  /\ UNCHANGED <<inKernel, isLoad, notified, registerVars, storage, worldVars,
                 serviceVars>>

-----------------------------------------------------------------------------
(* Tracking while the module is loaded.                                    *)

(* The device has a tracker, and its map is not out of action.             *)
Marking(d) == tracker[d] # None /\ maps[tracker[d]].active

(* cbt_persistent_register: a device that is registered keeps its register. *)
Register(d, id) ==
  IF \E reg \in Range(registers) : reg.dev = d
  THEN registers
  ELSE <<[dev |-> d, crc |-> NoCrc, map |-> id]>> \o registers

(* tracking_add, for a device without a tracker or with a map that is out  *)
(* of action: tracker_create makes and registers a new map.                *)
TrackingAdd(d) ==
  /\ inKernel
  /\ image[d] = "none"
  /\ ~Marking(d)
  /\ draws < MaxDraws
  /\ draws' = draws + 1
  /\ LET id == draws + 1
     IN Hold(Register(d, id), [tracker EXCEPT ![d] = id],
             [m \in DOMAIN maps \cup {id} |-> IF m = id THEN NewMap(id) ELSE maps[m]])
  /\ UNCHANGED <<moduleVars, storage, worldVars, serviceVars>>

(* tracking_remove takes the first register of the device from the list,   *)
(* whether or not the device was tracked.                                  *)
TrackingRemove(d) ==
  /\ inKernel
  /\ image[d] = "none"
  /\ LET first == SelectInSeq(registers, LAMBDA reg : reg.dev = d)
     IN Hold(IF first = 0 THEN registers ELSE RemoveAt(registers, first),
             [tracker EXCEPT ![d] = None], maps)
  /\ UNCHANGED <<moduleVars, draws, storage, worldVars, serviceVars>>

(* Mutant: the number grows beyond what a byte of the map can hold.        *)
SwitchedMutant(map) ==
  [map EXCEPT !.read = map.write,
              !.genPrevious = IF map.numActive = 1 THEN map.genActive ELSE @,
              !.numPrevious = map.numActive,
              !.numActive = @ + 1]

(* cbt_map_switch, with the number drawn for the next generation.          *)
Switched(map) ==
  LET switched == [map EXCEPT !.read = map.write,
                              !.genPrevious = IF map.numActive = 1 THEN map.genActive ELSE @,
                              !.numPrevious = map.numActive]
  IN IF map.numActive = MaxNumber
     THEN [switched EXCEPT !.numActive = 1, !.genActive = draws + 1, !.write = 0]
     ELSE [switched EXCEPT !.numActive = @ + 1]

(* A snapshot of a tracked device.                                         *)
TakeSnapshot(d) ==
  /\ Marking(d)
  /\ image[d] = "none"
  /\ draws' = IF maps[tracker[d]].numActive = MaxNumber THEN draws + 1 ELSE draws
  /\ draws' <= MaxDraws
  /\ maps' = [maps EXCEPT ![tracker[d]] = Switched(@)]
  /\ image' = [image EXCEPT ![d] = IF d \in changed THEN "changed" ELSE "clean"]
  /\ changed' = changed \ {d}
  /\ UNCHANGED <<moduleVars, registers, tracker, storage, worldVars, known>>

(* The service backs the image up and remembers what tracking_collect told *)
(* it about the map.                                                       *)
Backup(d) ==
  /\ image[d] # "none"
  /\ image' = [image EXCEPT ![d] = "none"]
  /\ known' = [known EXCEPT ![d] = [gen |-> maps[tracker[d]].genPrevious,
                                    number |-> maps[tracker[d]].numPrevious,
                                    again |-> maps[tracker[d]].again]]
  /\ UNCHANGED <<moduleVars, registerVars, storage, worldVars, changed>>

(* What remains changed when images go without having been backed up.      *)
NotBackedUp(devs) == changed \cup {d \in devs : image[d] = "changed"}

ReleaseSnapshot(d) ==
  /\ image[d] # "none"
  /\ image' = [image EXCEPT ![d] = "none"]
  /\ changed' = NotBackedUp({d})
  /\ UNCHANGED <<moduleVars, registerVars, storage, worldVars, known>>

-----------------------------------------------------------------------------
(* The file systems, also while the module is not loaded.                  *)

Mount(d) ==
  /\ d \notin mounted
  /\ superblock[d] < MaxMounts
  /\ mounted' = mounted \cup {d}
  /\ superblock' = [superblock EXCEPT ![d] = @ + 1]
  /\ UNCHANGED <<moduleVars, registerVars, storage, serviceVars>>

Unmount(d) ==
  /\ d \in mounted
  /\ mounted' = mounted \ {d}
  /\ UNCHANGED <<moduleVars, registerVars, storage, superblock, serviceVars>>

(* _cbt_map_set: the number only grows.                                    *)
Marked(map) == [map EXCEPT !.write = IF @ < map.numActive THEN map.numActive ELSE @]

(* A write marks the active map of the tracker, unless it finds that the   *)
(* device was resized: then the map is out of action.                      *)
Write(d, resized) ==
  /\ d \in mounted
  /\ changed' = changed \cup {d}
  /\ IF Marking(d)
     THEN maps' = [maps EXCEPT ![tracker[d]] =
                     IF resized THEN [@ EXCEPT !.active = FALSE] ELSE Marked(@)]
     ELSE UNCHANGED maps
  /\ UNCHANGED <<moduleVars, registers, tracker, draws, storage, worldVars,
                 image, known>>

-----------------------------------------------------------------------------
(* The end of a session: trackers and registers are gone.                  *)

Gone ==
  /\ inKernel
  /\ inKernel' = FALSE
  /\ configured' = FALSE
  /\ isLoad' = FALSE
  /\ notified' = {}
  /\ Hold(<<>>, Untracked, maps)
  /\ image' = [d \in Devices |-> "none"]
  /\ changed' = NotBackedUp(Devices)
  /\ UNCHANGED <<draws, superblock, known>>

(* cbt_checkfs_store_available                                             *)
StoreAvailable(d) == ~IsMounted(d)

(* _cbt_prst_store_all_register: an error for a device that cannot be      *)
(* stored ...                                                              *)
Entry(reg) ==
  IF ~StoreAvailable(reg.dev)
  THEN Error
  ELSE [dev |-> reg.dev, crc |-> Checksum(reg.dev), write |-> maps[reg.map].write,
        genActive |-> maps[reg.map].genActive, numActive |-> maps[reg.map].numActive,
        again |-> maps[reg.map].again]

(* ... nothing for a map that is out of action; the others in their order. *)
Kept ==
  {i \in DOMAIN registers :
     ~StoreAvailable(registers[i].dev) \/ maps[registers[i].map].active}

Nth(kept, n) == CHOOSE i \in kept : Cardinality({k \in kept : k <= i}) = n

Entries == [n \in 1 .. Cardinality(Kept) |-> Entry(registers[Nth(Kept, n)])]

(* The first n entries, the map of the last of them as far as it was       *)
(* written.                                                                *)
Torn(entries, n, write) ==
  [i \in 1 .. n |-> IF i = n /\ entries[i] # Error
                    THEN [entries[i] EXCEPT !.write = write] ELSE entries[i]]

(* Power or a page fails in the middle of a store, or the room ends: behind *)
(* what was written are the registers that were there before, if one of    *)
(* them begins where the last entry ends.                                  *)
StoreCutOff ==
  LET entries == Entries
      Old(m) == SubSeq(storage.entries, m, Len(storage.entries))
  IN \E n \in DOMAIN entries, m \in 1 .. Len(storage.entries) + 1 :
       /\ n + Len(Old(m)) <= Room
       /\ \E write \in Numbers :
            storage' = [full |-> TRUE, entries |-> Torn(entries, n, write) \o Old(m)]

(* A page itself was cut off: the service has to prepare the storage anew. *)
StoreBreaks == StoreCutOff \/ storage' = EmptyStorage

(* cbt_persistent_store; the storage may be out of reach.                  *)
Store ==
  \/ /\ configured
     /\ Len(Entries) <= Room
     /\ storage' = [full |-> TRUE, entries |-> Entries]
  \/ configured /\ StoreBreaks
  \/ UNCHANGED storage

(* _cbt_syscore_shutdown, when all processes have ended.                   *)
Shutdown == Gone /\ Store /\ mounted' = {}

(* veeamsnap_exit: file systems stay mounted.  There is no snapshot.       *)
ExitModule ==
  /\ \A d \in Devices : image[d] = "none"
  /\ Gone
  /\ Store
  /\ UNCHANGED mounted

(* The power fails, it may be in the middle of a store.                    *)
Crash ==
  /\ Gone
  /\ mounted' = {}
  /\ UNCHANGED storage \/ (configured /\ StoreBreaks)

DeviceNext(d) ==
  \/ DeviceAttach(d)
  \/ TrackingAdd(d) \/ TrackingRemove(d)
  \/ TakeSnapshot(d) \/ Backup(d) \/ ReleaseSnapshot(d)
  \/ Mount(d) \/ Unmount(d)
  \/ \E resized \in BOOLEAN : Write(d, resized)

Next ==
  \/ \E params \in BOOLEAN, there \in SUBSET (Devices \cup {Storage}) :
       InitModule(params, there)
  \/ StorageAttach \/ SetParameters
  \/ \E d \in Devices : DeviceNext(d)
  \/ Shutdown \/ ExitModule \/ Crash

Spec == Init /\ [][Next]_vars

-----------------------------------------------------------------------------
(* Properties.                                                             *)

Generations == 0 .. MaxDraws
Map == [genActive : Generations, genPrevious : Generations, numActive : 1 .. MaxNumber,
        numPrevious : Numbers, write : Numbers, read : Numbers, active : BOOLEAN,
        again : BOOLEAN]
Crc == 0 .. MaxMounts

(* Every variable keeps its type: the registers and the trackers hold maps *)
(* that exist, with numbers that fit into the byte of a block.             *)
TypeOK ==
  /\ inKernel \in BOOLEAN /\ configured \in BOOLEAN /\ isLoad \in BOOLEAN
  /\ notified \subseteq Devices
  /\ DOMAIN maps \subseteq 1 .. MaxDraws
  /\ \A m \in DOMAIN maps : maps[m] \in Map
  /\ \A reg \in Range(registers) :
       /\ reg.dev \in Devices
       /\ reg.crc \in Crc \cup {NoCrc}
       /\ reg.map \in DOMAIN maps
  /\ tracker \in [Devices -> DOMAIN maps \cup {None}]
  /\ storage.full \in BOOLEAN
  /\ \A e \in Range(storage.entries) :
       e # Error => /\ e.dev \in Devices /\ e.crc \in Crc /\ e.write \in Numbers
                    /\ e.genActive \in Generations /\ e.numActive \in 1 .. MaxNumber
                    /\ e.again \in BOOLEAN
  /\ draws \in Generations
  /\ mounted \subseteq Devices
  /\ superblock \in [Devices -> Crc]
  /\ changed \subseteq Devices
  /\ image \in [Devices -> {"none", "clean", "changed"}]
  /\ known \in [Devices -> [gen : Generations, number : Numbers, again : BOOLEAN]]

(* An incremental backup misses nothing: when the generation that          *)
(* tracking_collect reports is the one of the last backup, a device that   *)
(* changed since is reported as changed, however many sessions, crashes,   *)
(* stores that were cut off, stale and duplicate registers, offline        *)
(* changes and trackers started without a check lie between the two.  The  *)
(* exception is a register that is loaded a second time, behind a store    *)
(* that was cut off (cbt_storage.c:224, 273-279): a map that comes from it *)
(* may go on with a generation whose backups went on without it.           *)
IncrementalIsSound ==
  \A d \in Devices :
    LET map == maps[tracker[d]]
    IN image[d] = "changed" /\ ~map.again /\ ~known[d].again /\ map.genPrevious = known[d].gen
         => map.read > known[d].number

=============================================================================
