-------------------------------- MODULE MCI2c --------------------------------
(***************************************************************************)
(* The parts of the I2C stack: the driver of a bus, the clock it sets, the *)
(* core that it registers with, the core's SMBus operations, and the       *)
(* drivers of other busses.  Driver and core meet in i2c_transfer only,    *)
(* which the caller of the drivers stands for; they are checked one at a   *)
(* time.                                                                   *)
(***************************************************************************)
EXTENDS MCS3cI2c, I2cBusses, S3cI2cClock, I2cCore, Smbus

VARIABLE part

(* One device that the board declares.                                     *)
OneBoard == [c \in {CHOOSE c \in IcAdapters \X IcAddrs : TRUE} |->
               CHOOSE d \in IcDrivers \ IcLegacy : TRUE]

(* Transfers over the PXA's bus, which knows no other flag.                *)
PW(n)    == [addr |-> 1, rd |-> FALSE, len |-> n, nostart |-> FALSE]
PR(n)    == [PW(n) EXCEPT !.rd = TRUE]
POn(m)   == [m EXCEPT !.nostart = TRUE]
PTo2(m)  == [m EXCEPT !.addr = 2]
PxArrays == {<<PW(0)>>, <<POn(PW(1))>>, <<PR(1)>>, <<PW(1), PTo2(PR(2))>>,
             <<PW(1), POn(PW(0)), POn(PW(1))>>, <<PR(1), PW(1)>>}

(* Over Marvell's, with addresses of ten bits, and over OpenCores'.        *)
MW(n)    == [ten |-> FALSE, rd |-> FALSE, len |-> n, nostart |-> FALSE, rev |-> FALSE]
MR(n)    == [MW(n) EXCEPT !.rd = TRUE]
MTen(m)  == [m EXCEPT !.ten = TRUE]
MvArrays == {<<MW(0)>>, <<MW(2)>>, <<MR(1)>>, <<MTen(MW(1)), MTen(MR(3))>>, <<MR(0), MW(1)>>,
             <<POn(MW(0))>>, <<MW(1), POn(MW(1))>>, <<MR(1), POn(MR(2))>>,
             <<Rev(MW(1)), Rev(MR(1))>>}
OW(n)    == [rd |-> FALSE, len |-> n, nostart |-> FALSE]
ORd(n)   == [OW(n) EXCEPT !.rd = TRUE]
OcArrays == {<<OW(0)>>, <<POn(OW(0))>>, <<OW(2)>>, <<ORd(1)>>, <<OW(1), ORd(3)>>, <<ORd(0), OW(1)>>,
             <<OW(1), POn(OW(1))>>, <<ORd(1), POn(ORd(2))>>}

I2cVars == <<part, vars, ckVars, icVars, pxVars, mvVars, ocVars, smVars>>

I2cInit ==
  /\ part \in {"bus", "clock", "core", "pxa", "mv64", "ocores", "smbus"}
  /\ Init /\ CkInit /\ IcInit /\ PxInit /\ MvInit /\ OcInit /\ SmInit
  /\ part = "clock" \/ ck_in = [clk |-> 50000, bus |-> 100, min |-> 0, max |-> 0]
  /\ part = "core" \/ ic_detaches = {}

I2cNext ==
  /\ UNCHANGED part
  /\ \/ part = "bus" /\ Next /\ UNCHANGED <<ckVars, icVars, pxVars, mvVars, ocVars, smVars>>
     \/ part = "clock" /\ CkNext /\ UNCHANGED <<vars, icVars, pxVars, mvVars, ocVars, smVars>>
     \/ part = "core" /\ IcNext /\ UNCHANGED <<vars, ckVars, pxVars, mvVars, ocVars, smVars>>
     \/ part = "pxa" /\ PxNext /\ UNCHANGED <<vars, ckVars, icVars, mvVars, ocVars, smVars>>
     \/ part = "mv64" /\ MvNext /\ UNCHANGED <<vars, ckVars, icVars, pxVars, ocVars, smVars>>
     \/ part = "ocores" /\ OcNext /\ UNCHANGED <<vars, ckVars, icVars, pxVars, mvVars, smVars>>
     \/ part = "smbus" /\ SmNext /\ UNCHANGED <<vars, ckVars, icVars, pxVars, mvVars, ocVars>>

I2cSpec ==
  /\ I2cInit /\ [][I2cNext]_I2cVars
  /\ WF_vars(Handler) /\ WF_vars(StopSent) /\ WF_vars(Process)
  /\ IcFairness /\ PxFairness

(* Whoever waits, for the bus, for core_lock or for the last user of a     *)
(* client, comes back: always again no call is on.                         *)
CallsReturn == []<>(XferOver /\ IcCallsOver /\ PxOver)
=============================================================================
