------------------------------ MODULE UsbSkel -------------------------------
(***************************************************************************)
(* The life of a device in the USB skeleton driver: the hub's thread       *)
(* probes and disconnects devices while processes open, read, write and    *)
(* close them.  minor_table_mutex guards the table of devices, dev->sem    *)
(* each device; the structure of a device that is unplugged while it is    *)
(* open is left to the last release.                                       *)
(*                                                                         *)
(* A step is the code from one wait - for a semaphore, for the device - to *)
(* the next.  skel_ioctl takes and releases dev->sem and changes nothing.  *)
(***************************************************************************)
EXTENDS Integers, FiniteSets

CONSTANTS
  Files,       \* open files, with one call at a time each
  Hub,         \* the thread that calls probe and disconnect
  Devs,        \* the structures kmalloc may return; none is returned twice
  MAX_DEVICES, \* slots of minor_table
  NULL, Free

ASSUME SkelAssumption ==
  /\ IsFiniteSet(Files)
  /\ Hub \notin Files
  /\ Free \notin Files \cup {Hub}
  /\ NULL \notin Devs
  /\ MAX_DEVICES \in Nat \ {0}

VARIABLES
  minor_table, \* the devices by minor number
  table_lock,  \* who holds minor_table_mutex, or Free
  heap,        \* heap[d]: "unused", "live" or "freed"
  udev,        \* udev[d]: dev->udev # NULL
  minor,       \* dev->minor
  open_count,  \* dev->open_count
  sem,         \* sem[d]: who holds dev->sem, or Free
  writing,     \* writing[d]: write_urb->status = -EINPROGRESS
  dev,         \* dev[p]: the local variable dev of p; of an open file, private_data
  pc,          \* where a file's call, or the hub's, is
  use_count    \* the module's use count

table == <<minor_table, table_lock>>
device == <<heap, udev, minor, open_count, sem, writing>>
vars == <<table, device, dev, pc, use_count>>

Procs == Files \cup {Hub}
Minors == 0 .. MAX_DEVICES - 1

Goto(p, label) == pc' = [pc EXCEPT ![p] = label]
With(p, d)     == dev' = [dev EXCEPT ![p] = d]

(* The files that open_count counts: opened, and not yet past release.     *)
Opened == {"open", "r_io", "w_copy", "c_sem", "c_delete"}
Handles(d) == {f \in Files : pc[f] \in Opened /\ dev[f] = d}

(* Nobody holds a pointer to freed memory.  The behaviour of the driver is *)
(* followed up to the point where somebody does.                           *)
Intact == \A d \in Devs : heap[d] = "freed" => Handles(d) = {}

(* Mutant: the slot is not given back.                                     *)
SkelDelete_slot(d) ==
  /\ heap' = [heap EXCEPT ![d] = "freed"]
  /\ UNCHANGED minor_table

(* skel_delete.                                                            *)
SkelDelete(d) ==
  /\ heap' = [heap EXCEPT ![d] = "freed"]
  /\ minor_table' = [minor_table EXCEPT ![minor[d]] = NULL]

Init ==
  /\ minor_table = [m \in Minors |-> NULL]
  /\ table_lock = Free
  /\ heap = [d \in Devs |-> "unused"]
  /\ udev = [d \in Devs |-> FALSE]
  /\ minor = [d \in Devs |-> 0]
  /\ open_count = [d \in Devs |-> 0]
  /\ sem = [d \in Devs |-> Free]
  /\ writing = [d \in Devs |-> FALSE]
  /\ dev = [p \in Procs |-> NULL]
  /\ pc = [p \in Procs |-> "idle"]
  /\ use_count = 0

-----------------------------------------------------------------------------
(* skel_open.                                                              *)

OpenCall(f) ==
  /\ pc[f] = "idle"
  /\ use_count' = use_count + 1
  /\ Goto(f, "o_table")
  /\ UNCHANGED <<table, device, dev>>

(* The table is looked at under its lock, which is kept until the device's *)
(* own is held, or given back with -ENODEV.                                *)
OpenTable(f) ==
  /\ pc[f] = "o_table" /\ table_lock = Free
  /\ \E m \in Minors :
       \/ /\ minor_table[m] = NULL
          /\ use_count' = use_count - 1
          /\ Goto(f, "idle")
          /\ UNCHANGED <<table_lock, dev>>
       \/ /\ minor_table[m] # NULL
          /\ table_lock' = f
          /\ With(f, minor_table[m])
          /\ Goto(f, "o_sem")
          /\ UNCHANGED use_count
  /\ UNCHANGED <<minor_table, device>>

(* Mutant: the opener is not counted.                                      *)
OpenSem_uncounted(f) ==
  /\ pc[f] = "o_sem" /\ sem[dev[f]] = Free
  /\ table_lock' = Free
  /\ Goto(f, "open")
  /\ UNCHANGED <<minor_table, device, dev, use_count>>

(* down(&dev->sem), and the device is opened, whether it is still plugged  *)
(* in or not.                                                              *)
OpenSem(f) ==
  /\ pc[f] = "o_sem" /\ sem[dev[f]] = Free
  /\ table_lock' = Free
  /\ open_count' = [open_count EXCEPT ![dev[f]] = @ + 1]
  /\ Goto(f, "open")
  /\ UNCHANGED <<minor_table, heap, udev, minor, sem, writing, dev, use_count>>

-----------------------------------------------------------------------------
(* skel_read, skel_write and the completion of a write.                    *)

(* Of a device that is unplugged the two only say -ENODEV.                 *)
ReadSem(f) ==
  /\ pc[f] = "open" /\ sem[dev[f]] = Free /\ udev[dev[f]]
  /\ sem' = [sem EXCEPT ![dev[f]] = f]
  /\ Goto(f, "r_io")
  /\ UNCHANGED <<table, heap, udev, minor, open_count, writing, dev, use_count>>

(* usb_bulk_msg comes back: data, an error, or the 10 seconds are over.    *)
ReadDone(f) ==
  /\ pc[f] = "r_io"
  /\ sem' = [sem EXCEPT ![dev[f]] = Free]
  /\ Goto(f, "open")
  /\ UNCHANGED <<table, heap, udev, minor, open_count, writing, dev, use_count>>

(* While a write is under way, another one writes nothing.                 *)
WriteSem(f) ==
  /\ pc[f] = "open" /\ sem[dev[f]] = Free /\ udev[dev[f]] /\ ~ writing[dev[f]]
  /\ sem' = [sem EXCEPT ![dev[f]] = f]
  /\ Goto(f, "w_copy")
  /\ UNCHANGED <<table, heap, udev, minor, open_count, writing, dev, use_count>>

(* copy_from_user may fault and usb_submit_urb may fail.                   *)
WriteDone(f) ==
  /\ pc[f] = "w_copy"
  /\ \E submitted \in BOOLEAN : writing' = [writing EXCEPT ![dev[f]] = submitted]
  /\ sem' = [sem EXCEPT ![dev[f]] = Free]
  /\ Goto(f, "open")
  /\ UNCHANGED <<table, heap, udev, minor, open_count, dev, use_count>>

(* skel_write_bulk_callback.                                               *)
WriteCallback(d) ==
  /\ writing[d]
  /\ writing' = [writing EXCEPT ![d] = FALSE]
  /\ UNCHANGED <<table, heap, udev, minor, open_count, sem, dev, pc, use_count>>

-----------------------------------------------------------------------------
(* skel_release.                                                           *)

CloseTable(f) ==
  /\ pc[f] = "open" /\ table_lock = Free
  /\ table_lock' = f
  /\ Goto(f, "c_sem")
  /\ UNCHANGED <<minor_table, device, dev, use_count>>

(* Mutant: the write is left to run.                                       *)
CloseSem_running(f) ==
  /\ pc[f] = "c_sem" /\ sem[dev[f]] = Free /\ udev[dev[f]]
  /\ open_count' = [open_count EXCEPT ![dev[f]] = @ - 1]
  /\ use_count' = use_count - 1
  /\ table_lock' = Free
  /\ With(f, NULL) /\ Goto(f, "idle")
  /\ UNCHANGED <<minor_table, heap, udev, minor, sem, writing>>

(* The device is there: one opener less, and the last one ends the write   *)
(* (usb_unlink_urb waits until it is off the bus).  The code's test for a  *)
(* device that nobody has open is left out: OpenCountExact.                *)
CloseSem(f) ==
  LET d == dev[f] IN
  /\ pc[f] = "c_sem" /\ sem[d] = Free /\ udev[d]
  /\ open_count' = [open_count EXCEPT ![d] = @ - 1]
  /\ writing' = [writing EXCEPT ![d] = @ /\ open_count[d] > 1]
  /\ use_count' = use_count - 1
  /\ table_lock' = Free
  /\ With(f, NULL) /\ Goto(f, "idle")
  /\ UNCHANGED <<minor_table, heap, udev, minor, sem>>

(* It was unplugged: up(&dev->sem), then skel_delete.                      *)
CloseSemUnplugged(f) ==
  /\ pc[f] = "c_sem" /\ sem[dev[f]] = Free /\ ~ udev[dev[f]]
  /\ Goto(f, "c_delete")
  /\ UNCHANGED <<table, device, dev, use_count>>

(* Mutant: minor_table_mutex is not given back.                            *)
CloseDelete_locked(f) ==
  /\ pc[f] = "c_delete"
  /\ SkelDelete(dev[f])
  /\ use_count' = use_count - 1
  /\ With(f, NULL) /\ Goto(f, "idle")
  /\ UNCHANGED <<table_lock, udev, minor, open_count, sem, writing>>

CloseDelete(f) ==
  /\ pc[f] = "c_delete"
  /\ SkelDelete(dev[f])
  /\ table_lock' = Free
  /\ use_count' = use_count - 1
  /\ With(f, NULL) /\ Goto(f, "idle")
  /\ UNCHANGED <<udev, minor, open_count, sem, writing>>

-----------------------------------------------------------------------------
(* skel_probe and skel_disconnect.  The hub's thread runs them one at a    *)
(* time; a device that is gone fails its reads and writes by itself.       *)

(* The first free slot, under the table's lock from beginning to end.      *)
FreeSlots == {m \in Minors : minor_table[m] = NULL}
Probe(d) ==
  /\ pc[Hub] = "idle" /\ table_lock = Free
  /\ heap[d] = "unused"
  /\ \E m \in FreeSlots :
       /\ \A n \in FreeSlots : m <= n
       /\ minor_table' = [minor_table EXCEPT ![m] = d]
       /\ minor' = [minor EXCEPT ![d] = m]
  /\ heap' = [heap EXCEPT ![d] = "live"]
  /\ udev' = [udev EXCEPT ![d] = TRUE]
  /\ UNCHANGED <<table_lock, open_count, sem, writing, dev, pc, use_count>>

(* There was a slot, but not the memory for the buffers: skel_delete.      *)
ProbeFails(d) ==
  /\ pc[Hub] = "idle" /\ table_lock = Free
  /\ heap[d] = "unused"
  /\ FreeSlots # {}
  /\ heap' = [heap EXCEPT ![d] = "freed"]
  /\ UNCHANGED <<table, udev, minor, open_count, sem, writing, dev, pc, use_count>>

(* Called once for each device that probe has accepted.                    *)
DisconnectTable(d) ==
  /\ pc[Hub] = "idle" /\ table_lock = Free
  /\ heap[d] = "live" /\ udev[d]
  /\ table_lock' = Hub
  /\ With(Hub, d) /\ Goto(Hub, "d_sem")
  /\ UNCHANGED <<minor_table, device, use_count>>

(* Mutant: the device is deleted, open or not.                             *)
DisconnectSem_always ==
  LET d == dev[Hub] IN
  /\ pc[Hub] = "d_sem" /\ sem[d] = Free
  /\ Goto(Hub, "d_delete")
  /\ UNCHANGED <<table, device, dev, use_count>>

(* Not opened: up(&dev->sem), then skel_delete.  Otherwise the device only *)
(* forgets its udev.                                                       *)
DisconnectSem ==
  LET d == dev[Hub] IN
  /\ pc[Hub] = "d_sem" /\ sem[d] = Free
  /\ \/ /\ open_count[d] = 0
        /\ Goto(Hub, "d_delete")
        /\ UNCHANGED <<table_lock, udev, dev>>
     \/ /\ open_count[d] # 0
        /\ udev' = [udev EXCEPT ![d] = FALSE]
        /\ table_lock' = Free
        /\ With(Hub, NULL) /\ Goto(Hub, "idle")
  /\ UNCHANGED <<minor_table, heap, minor, open_count, sem, writing, use_count>>

DisconnectDelete ==
  /\ pc[Hub] = "d_delete"
  /\ SkelDelete(dev[Hub])
  /\ table_lock' = Free
  /\ With(Hub, NULL) /\ Goto(Hub, "idle")
  /\ UNCHANGED <<udev, minor, open_count, sem, writing, use_count>>

-----------------------------------------------------------------------------
Call(f) == OpenCall(f) \/ ReadSem(f) \/ WriteSem(f) \/ CloseTable(f)
Step(f) ==
  \/ OpenTable(f) \/ OpenSem(f) \/ ReadDone(f) \/ WriteDone(f)
  \/ CloseSem(f) \/ CloseSemUnplugged(f) \/ CloseDelete(f)
HubCall(d) == Probe(d) \/ ProbeFails(d) \/ DisconnectTable(d)
HubStep == DisconnectSem \/ DisconnectDelete

Next ==
  /\ Intact
  /\ \/ \E f \in Files : Call(f) \/ Step(f)
     \/ \E d \in Devs : HubCall(d) \/ WriteCallback(d)
     \/ HubStep

Spec == Init /\ [][Next]_vars

(* A call that has begun goes on, and down() serves its waiters in turn.   *)
(* Nobody has to open, read or close anything.                             *)
CallFairness ==
  /\ \A f \in Files :
       /\ WF_vars(Intact /\ Step(f))
       /\ SF_vars(Intact /\ (OpenTable(f) \/ OpenSem(f) \/ CloseSem(f) \/ CloseSemUnplugged(f)))
  /\ WF_vars(Intact /\ HubStep)

HubTakesSem == Intact /\ DisconnectSem

Fairness == CallFairness /\ SF_vars(HubTakesSem)

FairSpec == Spec /\ Fairness

-----------------------------------------------------------------------------
(* Properties.                                                             *)

FileLabels == Opened \cup {"idle", "o_table", "o_sem"}
HubLabels  == {"idle", "d_sem", "d_delete"}

(* The driver's state is well formed; open_count never goes below zero or  *)
(* beyond the number of files there are.                                   *)
TypeOK ==
  /\ minor_table \in [Minors -> Devs \cup {NULL}]
  /\ table_lock \in Procs \cup {Free}
  /\ heap \in [Devs -> {"unused", "live", "freed"}]
  /\ udev \in [Devs -> BOOLEAN]
  /\ minor \in [Devs -> Minors]
  /\ open_count \in [Devs -> 0 .. Cardinality(Files)]
  /\ sem \in [Devs -> Files \cup {Free}]
  /\ writing \in [Devs -> BOOLEAN]
  /\ dev \in [Procs -> Devs \cup {NULL}]
  /\ pc \in [Procs -> FileLabels \cup HubLabels]
  /\ pc[Hub] \in HubLabels /\ \A f \in Files : pc[f] \in FileLabels
  /\ use_count \in 0 .. Cardinality(Files)

(* open_count is the number of files that have the device open, as long as *)
(* there is a device: skel_release never meets one that "is not opened".   *)
OpenCountExact ==
  \A d \in Devs : heap[d] = "live" => open_count[d] = Cardinality(Handles(d))

(* The table leads to every device that exists and to nothing else: a slot *)
(* is never left pointing to freed memory, and no device loses its own.    *)
TableExact ==
  \A d \in Devs, m \in Minors :
    minor_table[m] = d <=> heap[d] = "live" /\ minor[d] = m

(* The module's use count is the number of files that are open or being    *)
(* opened: the module is neither unloaded under one nor pinned for ever.   *)
UseCountExact ==
  use_count = Cardinality({f \in Files : pc[f] # "idle"})

CountsExact == OpenCountExact /\ UseCountExact

(* A write goes on only while somebody has its device open: "shutdown any  *)
(* bulk writes that might be going on".                                    *)
WritesShutDown ==
  \A d \in Devs : heap[d] = "live" /\ writing[d] => Handles(d) # {}

(* The device of an open file stays in memory as long as it is plugged in, *)
(* whatever other openers and the hub do.                                  *)
PluggedAlive ==
  \A f \in Files : pc[f] \in Opened /\ udev[dev[f]] => heap[dev[f]] = "live"

(* What the files of a device and its writes promise each other.           *)
FilesKept == PluggedAlive /\ WritesShutDown

(* Only a device that nobody has open is cleaned up.                       *)
DeletedUnopened == Intact

(* An open always comes back, although it may wait with the table's lock   *)
(* for a device that is being read - unless memory has been corrupted:     *)
(* always again the file is in none.                                       *)
OpenReturns ==
  \A f \in Files : []<>(pc[f] \notin {"o_table", "o_sem"} \/ ~ Intact)
=============================================================================
