------------------------------ MODULE MCCards -------------------------------
(***************************************************************************)
(* Small instances of the two network drivers and of the USB skeleton      *)
(* driver, which share nothing: one of them is loaded.                     *)
(***************************************************************************)
EXTENDS Elp3c505, Cs89x0, MCUsbSkel

VARIABLE card

CardsVars == <<card, elVars, csVars, vars>>

CardsInit ==
  /\ card \in {"3c505", "cs89x0", "usb"}
  /\ ElInit /\ el_running = (card = "3c505")
  /\ CsInit /\ (card # "cs89x0" => cs_dma = CHOOSE d \in CsDmas : TRUE)
  /\ Init

CardsNext ==
  /\ UNCHANGED card
  /\ \/ card = "3c505" /\ ElNext /\ UNCHANGED <<csVars, vars>>
     \/ card = "cs89x0" /\ CsNext /\ UNCHANGED <<elVars, vars>>
     \/ card = "usb" /\ Next /\ UNCHANGED <<elVars, csVars>>

(* Of a driver that is not loaded no call has begun. The strong fairness of *)
(* the 3c505's transmissions and of the hub's down() is stated as one,      *)
(* because only one of them ever has a step (ElFairness, Fairness).         *)
CardsFairness ==
  /\ ElCardFairness /\ CsFairness /\ CallFairness
  /\ SF_<<elVars, vars>>((ElSends /\ UNCHANGED vars) \/ (HubTakesSem /\ UNCHANGED elVars))
CardsSpec == CardsInit /\ [][CardsNext]_CardsVars /\ CardsFairness

(* The frames of both network cards go on, in and out.                     *)
FramesGoOn == ElFramesGoOn /\ CsFramesGoOn
=============================================================================
