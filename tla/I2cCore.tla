------------------------------- MODULE I2cCore -------------------------------
(***************************************************************************)
(* The I2C core: adapters and drivers come and go, each in a thread of its *)
(* own under core_lock, and a user makes a device. Drivers are new style,  *)
(* which detect devices and are bound by the driver core, or legacy, which *)
(* make their clients themselves. A device is named by its adapter and its *)
(* address: device_register refuses a second of the same name.             *)
(***************************************************************************)
EXTENDS Naturals

CONSTANTS
  IcAdapters, IcDrivers,
  IcLegacy,   \* drivers of the old style
  IcAddrs,    \* addresses where chips may answer
  IcMaxCalls, \* bound on the calls
  IcBoard     \* __i2c_board_list: from adapter and address to the driver the type is for

ASSUME I2cCoreAssumption ==
  /\ IcMaxCalls \in Nat
  /\ IcLegacy \subseteq IcDrivers /\ IcAdapters \cap IcDrivers = {}
  /\ DOMAIN IcBoard \subseteq IcAdapters \X IcAddrs
  /\ \A c \in DOMAIN IcBoard : IcBoard[c] \in IcDrivers \ IcLegacy

IcThreads == IcAdapters \cup IcDrivers
IcNone == "none"
IcLost == "lost"  \* a driver that has left, seen from a client it would not let go of

ASSUME I2cNamesAssumption == {IcNone, IcLost} \cap IcThreads = {}

VARIABLES
  core_lock,   \* the thread that holds the mutex, or IcNone
  ic_pc,       \* where a thread is; "off" and "on" are between calls
  ic_idr,      \* adapters that have a number
  ic_class,    \* adapters known to the driver core
  ic_drv,      \* drivers on the bus
  ic_init,     \* drivers whose list of clients is initialised
  ic_detected, \* driver->clients
  ic_dev,      \* the devices: the driver their type is for, who made them, client->driver
  ic_seen,     \* whom the loop under core_lock has visited
  ic_user,     \* the user's adapter, device, and client in use
  ic_detaches, \* legacy drivers that have detach_adapter
  ic_calls,    \* calls that are left
  ic_offered,  \* history: the adapters that drivers were shown
  ic_oops      \* a pointer was followed that leads nowhere: the kernel stops

icVars == <<core_lock, ic_pc, ic_idr, ic_class, ic_drv, ic_init, ic_detected, ic_dev, ic_seen,
            ic_user, ic_detaches, ic_calls, ic_offered, ic_oops>>

IcNobody == [adapter |-> {}, dev |-> {}, uses |-> {}]

IcInit ==
  /\ core_lock = IcNone /\ ic_pc = [t \in IcThreads |-> "off"]
  /\ ic_idr = {} /\ ic_class = {} /\ ic_drv = {} /\ ic_init = {}
  /\ ic_detected = [d \in IcDrivers |-> {}]
  /\ ic_dev = [c \in {} |-> IcNone] /\ ic_seen = {} /\ ic_user = IcNobody
  /\ ic_detaches \in SUBSET IcLegacy
  /\ ic_calls = IcMaxCalls /\ ic_offered = {} /\ ic_oops = FALSE

IcCall == ic_calls > 0 /\ ic_calls' = ic_calls - 1
IcGo(t, from, to) == ~ic_oops /\ ic_pc[t] = from /\ ic_pc' = [ic_pc EXCEPT ![t] = to]
IcLock(t) == core_lock = IcNone /\ core_lock' = t
IcUnlock(t) == core_lock = t /\ core_lock' = IcNone
IcUnregistered == UNCHANGED <<ic_idr, ic_class, ic_drv, ic_init>>
IcDevices == UNCHANGED <<ic_detected, ic_dev, ic_oops>>
IcUser == UNCHANGED <<ic_user, ic_detaches>>
IcNoCall == IcUser /\ UNCHANGED ic_calls

-----------------------------------------------------------------------------
(* Devices. The driver core binds one when it is registered, unless no     *)
(* driver knows its type or its probe fails; a legacy driver binds its     *)
(* own. An address that is in use stays as it is.                          *)

IcAt(a) == {c \in DOMAIN ic_dev : c[1] = a}
IcBy(d) == {c \in DOMAIN ic_dev : ic_dev[c].by = d}
IcBound(d, probed) == IF d \in IcLegacy \/ (probed /\ d \in ic_drv) THEN d ELSE IcNone
IcMake(types, by, probed) ==
  [c \in DOMAIN ic_dev \cup DOMAIN types |->
     IF c \in DOMAIN ic_dev THEN ic_dev[c]
     ELSE [for |-> types[c], by |-> by, driver |-> IcBound(types[c], probed)]]
IcDrop(gone) == [c \in DOMAIN ic_dev \ gone |-> ic_dev[c]]

(* i2c_device_remove for the devices of a driver that leaves the bus.      *)
(* Mutant: client->driver stays.                                           *)
IcUnbind_stale(d, refuse) == ic_dev
IcUnbind(d, refuse) ==
  [c \in DOMAIN ic_dev |->
     IF ic_dev[c].driver # d THEN ic_dev[c]
     ELSE [ic_dev[c] EXCEPT !.by = IcNone, !.driver = IF c \in refuse THEN IcLost ELSE IcNone]]

(* i2c_unregister_device follows client->driver, to see of what style it   *)
(* is. A client that a legacy driver has left behind takes to its release  *)
(* a completion that only i2c_detach_client initialises.                   *)
IcDangling(c) == ic_dev[c].driver \notin ic_drv \cup {IcNone}
IcOrphan(c) == ic_dev[c].for \in IcLegacy /\ ic_dev[c].driver = IcNone

-----------------------------------------------------------------------------
(* A driver is offered an adapter: chips are found and devices made for    *)
(* them. An error is not looked at.                                        *)

(* Mutant: an error ends the loop over the drivers or adapters.            *)
IcAfterOffer_stops(t, err) ==
  IF err THEN IcUnlock(t) /\ IcGo(t, "walk", "on")
  ELSE UNCHANGED core_lock /\ IcGo(t, "walk", "walk")
IcAfterOffer(t, err) == UNCHANGED core_lock /\ IcGo(t, "walk", "walk")

(* Addresses that are in use are passed over.                              *)
IcFree(a, found) == {c \in {a} \X found : c \notin DOMAIN ic_dev}

(* i2c_detect: the devices are also put on the driver's list, which may    *)
(* not be one yet.                                                         *)
IcDetect(a, d) ==
  \E found \in SUBSET IcAddrs, probed \in BOOLEAN :
    LET new == IcFree(a, found)
    IN  /\ d \notin IcLegacy
        /\ ic_dev' = IcMake([c \in new |-> d], d, probed)
        /\ ic_detected' = [ic_detected EXCEPT ![d] = @ \cup new]
        /\ ic_oops' = (d \notin ic_init /\ new # {})

(* i2c_probe                                                               *)
IcProbe(a, d) ==
  \E found \in SUBSET IcAddrs :
    /\ d \in IcLegacy
    /\ ic_dev' = IcMake([c \in IcFree(a, found) |-> d], d, TRUE)
    /\ UNCHANGED <<ic_detected, ic_oops>>

IcOffer(t, a, d) ==
  /\ core_lock = t /\ \E err \in BOOLEAN : IcAfterOffer(t, err)
  /\ IcDetect(a, d) \/ IcProbe(a, d)
  /\ ic_offered' = ic_offered \cup {<<a, d>>}
  /\ IcUnregistered /\ IcNoCall

(* i2c_do_add_adapter for one driver of the bus, and __attach_adapter for  *)
(* one adapter of the class; and the end of either loop.                   *)
IcAddTo(a) == \E d \in ic_drv \ ic_seen : IcOffer(a, a, d) /\ ic_seen' = ic_seen \cup {d}
IcAttach(d) == \E a \in ic_class \ ic_seen : IcOffer(d, a, d) /\ ic_seen' = ic_seen \cup {a}

IcOffered(t) ==
  /\ (IF t \in IcAdapters THEN ic_drv ELSE ic_class) \subseteq ic_seen
  /\ IcGo(t, "walk", "on") /\ IcUnlock(t)
  /\ IcUnregistered /\ IcDevices /\ IcNoCall /\ UNCHANGED <<ic_seen, ic_offered>>

-----------------------------------------------------------------------------
(* i2c_add_adapter: a number first, then i2c_register_adapter, which takes *)
(* core_lock again, registers the device and those that the board declares.*)

IcAllocate(a) ==
  /\ IcCall
  /\ core_lock = IcNone
  /\ IcGo(a, "off", "numbered")
  /\ ic_idr' = ic_idr \cup {a}
  /\ IcDevices
  /\ IcUser /\ UNCHANGED <<core_lock, ic_class, ic_drv, ic_init, ic_seen, ic_offered>>

IcRegisterAdapter(a) ==
  /\ IcLock(a) /\ IcGo(a, "numbered", "walk")
  /\ ic_class' = ic_class \cup {a}
  /\ \E probed \in BOOLEAN :
       ic_dev' = IcMake([c \in {b \in DOMAIN IcBoard : b[1] = a} |-> IcBoard[c]], IcNone, probed)
  /\ ic_seen' = {}
  /\ IcNoCall /\ UNCHANGED <<ic_idr, ic_drv, ic_init, ic_detected, ic_offered, ic_oops>>

(* device_register fails: out_list.                                        *)
IcRegisterFails(a) ==
  /\ core_lock = IcNone /\ IcGo(a, "numbered", "off")
  /\ ic_idr' = ic_idr \ {a}
  /\ IcDevices
  /\ IcNoCall /\ UNCHANGED <<core_lock, ic_class, ic_drv, ic_init, ic_seen, ic_offered>>

-----------------------------------------------------------------------------
(* i2c_del_adapter; a module in use is not unloaded.                       *)

IcDelAdapter(a) ==
  /\ IcCall
  /\ a \notin ic_user.adapter
  /\ IcLock(a) /\ IcGo(a, "on", "tell")
  /\ ic_seen' = {}
  /\ IcUnregistered /\ IcDevices /\ IcUser /\ UNCHANGED <<ic_offered>>

(* i2c_do_del_adapter for one driver: the devices it has detected, then    *)
(* its detach_adapter, which may refuse. i2c_detach_client waits for who   *)
(* uses a client.                                                          *)
IcUndetect(d, gone) == ic_detected' = [ic_detected EXCEPT ![d] = @ \ gone]

IcTell(a) ==
  \E d \in ic_drv \ ic_seen :
    LET gone == IF d \in IcLegacy \ ic_detaches THEN {} ELSE IcBy(d) \cap IcAt(a)
    IN  /\ core_lock = a /\ IcGo(a, "tell", "tell")
        /\ d \in ic_init => ic_user.uses \cap gone = {}
        /\ ic_dev' = IcDrop(gone)
        /\ IcUndetect(d, gone)
        /\ ic_oops' = (d \notin ic_init)
        /\ ic_seen' = ic_seen \cup {d}
        /\ IcUnregistered
        /\ IcNoCall /\ UNCHANGED <<core_lock, ic_offered>>

IcTellRefused(a) ==
  /\ \E d \in (ic_drv \cap ic_detaches) \ ic_seen : d \in ic_init
  /\ IcUnlock(a) /\ IcGo(a, "tell", "on")
  /\ IcUnregistered /\ IcDevices /\ IcNoCall /\ UNCHANGED <<ic_seen, ic_offered>>

IcTold(a) ==
  /\ ic_drv \subseteq ic_seen
  /\ core_lock = a /\ IcGo(a, "tell", "clients")
  /\ ic_seen' = {}
  /\ IcUnregistered /\ IcDevices /\ IcNoCall /\ UNCHANGED <<core_lock, ic_offered>>

(* One of adap->clients: unregistered, or detached by its legacy driver,   *)
(* which may refuse.                                                       *)
IcClientGoes(a) ==
  \E c \in IcAt(a) \ ic_seen :
    /\ core_lock = a /\ IcGo(a, "clients", "clients")
    /\ ic_dev[c].driver \in IcLegacy => c \notin ic_user.uses
    /\ ic_dev' = IcDrop({c})
    /\ ic_oops' = (IcDangling(c) \/ IcOrphan(c))
    /\ IcUnregistered
    /\ IcNoCall /\ UNCHANGED <<core_lock, ic_detected, ic_seen, ic_offered>>

IcClientRefuses(a) ==
  /\ \E c \in IcAt(a) \ ic_seen : ic_dev[c].driver \in IcLegacy \cap ic_drv
  /\ IcUnlock(a) /\ IcGo(a, "clients", "on")
  /\ IcUnregistered /\ IcDevices /\ IcNoCall /\ UNCHANGED <<ic_seen, ic_offered>>

IcAdapterGone(a) ==
  /\ IcAt(a) \subseteq ic_seen
  /\ IcUnlock(a) /\ IcGo(a, "clients", "off")
  /\ ic_class' = ic_class \ {a} /\ ic_idr' = ic_idr \ {a}
  /\ ic_offered' = {p \in ic_offered : p[1] # a}
  /\ IcDevices /\ IcNoCall /\ UNCHANGED <<ic_drv, ic_init, ic_seen>>

-----------------------------------------------------------------------------
(* i2c_register_driver: the driver core first, which probes the devices    *)
(* that wait for the driver, then core_lock and the driver's list.         *)

IcRegisterDriver(d) ==
  /\ IcCall
  /\ IcGo(d, "off", "registered")
  /\ ic_drv' = ic_drv \cup {d}
  /\ \E probed \in BOOLEAN :
       ic_dev' = [c \in DOMAIN ic_dev |->
                    IF ic_dev[c].for = d /\ d \notin IcLegacy /\ probed
                    THEN [ic_dev[c] EXCEPT !.driver = d] ELSE ic_dev[c]]
  /\ IcUser /\ UNCHANGED <<core_lock, ic_idr, ic_class, ic_init, ic_detected, ic_seen, ic_offered, ic_oops>>

IcInitDriver(d) ==
  /\ IcLock(d) /\ IcGo(d, "registered", "walk")
  /\ ic_init' = ic_init \cup {d}
  /\ ic_detected' = [ic_detected EXCEPT ![d] = {}]
  /\ ic_seen' = {}
  /\ IcNoCall /\ UNCHANGED <<ic_idr, ic_class, ic_drv, ic_dev, ic_offered, ic_oops>>

-----------------------------------------------------------------------------
(* i2c_del_driver                                                          *)

IcDelDriver(d) ==
  /\ IcCall
  /\ IcLock(d) /\ IcGo(d, "on", "detach")
  /\ ic_seen' = {}
  /\ IcUnregistered /\ IcDevices /\ IcUser /\ UNCHANGED <<ic_offered>>

(* __detach_adapter for one adapter: all that the driver has detected, on  *)
(* this or on another adapter; or a legacy driver's clients on this one,   *)
(* those that it does not let go of excepted.                              *)
IcDetach(d) ==
  \E a \in ic_class \ ic_seen, refuse \in SUBSET IcBy(d) :
    LET gone == IF d \in IcLegacy THEN (IcBy(d) \cap IcAt(a)) \ refuse ELSE ic_detected[d]
    IN  /\ d \in IcLegacy \/ refuse = {}
        /\ core_lock = d /\ IcGo(d, "detach", "detach")
        /\ ic_user.uses \cap gone = {}
        /\ ic_dev' = IcDrop(gone)
        /\ IcUndetect(d, gone)
        /\ ic_seen' = ic_seen \cup {a}
        /\ IcUnregistered
        /\ IcNoCall /\ UNCHANGED <<core_lock, ic_offered, ic_oops>>

(* driver_unregister: the devices that are bound to the driver are removed *)
(* from it; one whose remove fails keeps it as client->driver. A legacy    *)
(* driver has no remove.                                                   *)
IcDriverGone(d) ==
  \E refuse \in SUBSET {c \in DOMAIN ic_dev : ic_dev[c].driver = d} :
    /\ d \in IcLegacy => refuse = {}
    /\ ic_class \subseteq ic_seen
    /\ IcUnlock(d) /\ IcGo(d, "detach", "off")
    /\ ic_drv' = ic_drv \ {d} /\ ic_init' = ic_init \ {d}
    /\ ic_dev' = IcUnbind(d, refuse)
    /\ ic_offered' = {p \in ic_offered : p[2] # d}
    /\ IcNoCall /\ UNCHANGED <<ic_idr, ic_class, ic_detected, ic_seen, ic_oops>>

-----------------------------------------------------------------------------
(* The user: i2c_get_adapter and i2c_put_adapter, i2c_new_device and       *)
(* i2c_unregister_device in between, i2c_use_client and                    *)
(* i2c_release_client for the client of a legacy driver. An adapter is     *)
(* found as soon as it has a number, before it is initialised.             *)

IcUserKeeps ==
  /\ UNCHANGED <<core_lock, ic_pc, ic_seen, ic_detected, ic_detaches, ic_calls, ic_offered>>
  /\ IcUnregistered

IcGetAdapter(a) ==
  /\ ~ic_oops /\ core_lock = IcNone
  /\ ic_user = IcNobody /\ a \in ic_idr
  /\ ic_user' = [ic_user EXCEPT !.adapter = {a}]
  /\ IcUserKeeps /\ UNCHANGED <<ic_dev, ic_oops>>

IcPutAdapter ==
  /\ ~ic_oops /\ ic_user.adapter # {} /\ ic_user.dev = {}
  /\ ic_user' = [ic_user EXCEPT !.adapter = {}]
  /\ IcUserKeeps /\ UNCHANGED <<ic_dev, ic_oops>>

IcNewDevice(x, d) ==
  LET new == ic_user.adapter \X {x}
  IN  /\ ~ic_oops /\ ic_user.adapter # {} /\ ic_user.dev = {}
      /\ new \cap DOMAIN ic_dev = {}
      /\ \E probed \in BOOLEAN : ic_dev' = IcMake([c \in new |-> d], IcNone, probed)
      /\ ic_user' = [ic_user EXCEPT !.dev = new]
      /\ ic_oops' = ~(ic_user.adapter \subseteq ic_class)
      /\ IcUserKeeps

IcUnregisterDevice ==
  /\ ~ic_oops /\ ic_user.dev # {}
  /\ ic_dev' = IcDrop(ic_user.dev)
  /\ ic_user' = [ic_user EXCEPT !.dev = {}]
  /\ ic_oops' = (\E c \in ic_user.dev : IcDangling(c))
  /\ IcUserKeeps

(* A client that is being detached is not handed out any more.             *)
IcLeaving == UNION
  ({IcAt(a) : a \in {x \in IcAdapters : ic_pc[x] \in {"tell", "clients"}}}
   \cup {IcBy(d) : d \in {x \in IcDrivers : ic_pc[x] = "detach"}})
IcUseClient(c) ==
  /\ ~ic_oops /\ ic_user.uses = {} /\ c \notin IcLeaving
  /\ ic_dev[c].driver \in IcLegacy
  /\ ic_user' = [ic_user EXCEPT !.uses = {c}]
  /\ IcUserKeeps /\ UNCHANGED <<ic_dev, ic_oops>>

IcReleaseClient ==
  /\ ~ic_oops /\ ic_user.uses # {}
  /\ ic_user' = [ic_user EXCEPT !.uses = {}]
  /\ IcUserKeeps /\ UNCHANGED <<ic_dev, ic_oops>>

-----------------------------------------------------------------------------
(* What a thread does with core_lock held.                                 *)
IcAdapterWorks(a) ==
  IcAddTo(a) \/ IcOffered(a) \/ IcTell(a) \/ IcTellRefused(a) \/ IcTold(a)
  \/ IcClientGoes(a) \/ IcClientRefuses(a) \/ IcAdapterGone(a)
IcDriverWorks(d) == IcAttach(d) \/ IcOffered(d) \/ IcDetach(d) \/ IcDriverGone(d)

IcNext ==
  \/ \E a \in IcAdapters :
       \/ IcAllocate(a) \/ IcRegisterAdapter(a) \/ IcRegisterFails(a)
       \/ IcDelAdapter(a) \/ IcAdapterWorks(a) \/ IcGetAdapter(a)
  \/ \E d \in IcDrivers :
       IcRegisterDriver(d) \/ IcInitDriver(d) \/ IcDelDriver(d) \/ IcDriverWorks(d)
  \/ \E x \in IcAddrs, d \in IcDrivers \ IcLegacy : IcNewDevice(x, d)
  \/ IcPutAdapter \/ IcUnregisterDevice
  \/ \E c \in DOMAIN ic_dev : IcUseClient(c)
  \/ IcReleaseClient

(* A thread that is let run goes on, also when it waits for core_lock,     *)
(* which is free again and again and for good after the last call; and who *)
(* uses a client releases it.                                              *)
IcFairness ==
  /\ \A a \in IcAdapters :
       WF_icVars(IcRegisterAdapter(a) \/ IcRegisterFails(a)) /\ WF_icVars(IcAdapterWorks(a))
  /\ \A d \in IcDrivers : WF_icVars(IcInitDriver(d)) /\ WF_icVars(IcDriverWorks(d))
  /\ WF_icVars(IcReleaseClient)
IcSpec == IcInit /\ [][IcNext]_icVars /\ IcFairness

-----------------------------------------------------------------------------
(* Whichever comes first, a driver and an adapter whose calls have         *)
(* returned have met: the driver was asked for the adapter's devices.      *)
EveryPairOffered ==
  \A a \in ic_class, d \in ic_drv :
    ic_pc[a] = "on" /\ ic_pc[d] = "on" => <<a, d>> \in ic_offered

(* No pointer dangles. A driver's list has the devices that it has         *)
(* detected, each as long as it is registered; no device outlives its      *)
(* adapter; client->driver is a driver on the bus, unless a driver that    *)
(* has left would not let go of the client.                                *)
NothingDangles ==
  /\ ~ ic_oops => \A d \in IcDrivers \ IcLegacy : ic_detected[d] = IcBy(d)
  /\ \A c \in DOMAIN ic_dev :
       /\ ~ ic_oops => c[1] \in ic_class
       /\ ic_dev[c].driver \in ic_drv \cup {IcNone, IcLost}

(* No call waits for core_lock, or for the last user of a client: the core *)
(* comes back to that (CallsReturn).                                       *)
IcCallsOver == ic_oops \/ \A t \in IcThreads : ic_pc[t] \in {"off", "on"}
=============================================================================
