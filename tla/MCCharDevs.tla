----------------------------- MODULE MCCharDevs -----------------------------
(***************************************************************************)
(* The character drivers that share nothing but the kernel, one of them    *)
(* loaded at a time: the behaviours are those of each driver's own         *)
(* specification.                                                          *)
(***************************************************************************)
EXTENDS Watchdog, GlobalMem, SecondTimer, TouchScreen, AudioDsp, Rtc

VARIABLE loaded

AllBoots == [atboot : BOOLEAN, nowayout : BOOLEAN, noboot : BOOLEAN]
SomeOffsets == {-1, 1, 10}
TwoOfTwo == <<2, 2>>
ThreeOfOne == {<<3, 1>>}
LastSeconds == {[sec |-> 2, min |-> 1, hour |-> 1], [sec |-> 1, min |-> 1, hour |-> 0]}
SomeFields == {{"sec"}, {"min", "hour"}, {"sec", "min", "hour"}}

DevVars == <<loaded, wtVars, gmVars, secVars, tsVars, auVars, rtVars>>

DevInit ==
  /\ loaded \in {"watchdog", "globalmem", "second", "touchscreen", "audio", "rtc"}
  /\ WtInit /\ GmInit /\ SecInit /\ TsInit /\ AuInit /\ RtInit
  /\ loaded = "watchdog" \/
       (wt_par = [atboot |-> FALSE, nowayout |-> FALSE, noboot |-> FALSE] /\ wtcnt = 0)

DevNext ==
  /\ UNCHANGED loaded
  /\ \/ /\ loaded = "watchdog" /\ WtNext
        /\ UNCHANGED <<gmVars, secVars, tsVars, auVars, rtVars>>
     \/ /\ loaded = "globalmem" /\ GmNext
        /\ UNCHANGED <<wtVars, secVars, tsVars, auVars, rtVars>>
     \/ /\ loaded = "second" /\ SecNext
        /\ UNCHANGED <<wtVars, gmVars, tsVars, auVars, rtVars>>
     \/ /\ loaded = "touchscreen" /\ TsNext
        /\ UNCHANGED <<wtVars, gmVars, secVars, auVars, rtVars>>
     \/ /\ loaded = "audio" /\ AuNext
        /\ UNCHANGED <<wtVars, gmVars, secVars, tsVars, rtVars>>
     \/ /\ loaded = "rtc" /\ RtNext
        /\ UNCHANGED <<wtVars, gmVars, secVars, tsVars, auVars>>

DevSpec == DevInit /\ [][DevNext]_DevVars /\ TsFairness /\ AuFairness

(* Who waits in a driver goes on: HeldPenHeard of the touch screen and     *)
(* AuBlockedGoesOn of the sound driver.                                    *)
WaitersGoOn == HeldPenHeard /\ AuBlockedGoesOn
=============================================================================
