-------------------------------- MODULE Rtc --------------------------------
(***************************************************************************)
(* The S3C2410 real time clock driver (code/10). The calls come one at a   *)
(* time, by ioctl under the big kernel lock, but the clock ticks between   *)
(* any two accesses to its registers. Time is hours, minutes and seconds;  *)
(* the date's registers are read and written like that of the hours.       *)
(* Left out: the conversions to and from BCD, and probe and remove.        *)
(***************************************************************************)
EXTENDS Integers, Sequences

CONSTANTS
  RtSecs, RtMins, RtHours,  \* 60, 60, 24
  RtAsked, RtCompared,      \* times that are set, and sets of fields that an alarm compares
  RtFreqs,                  \* frequencies of the periodic interrupt
  RtMaxCalls                \* bound on the calls

RtFields == {"sec", "min", "hour"}
RtTimes == [sec : 0 .. RtSecs - 1, min : 0 .. RtMins - 1, hour : 0 .. RtHours - 1]

ASSUME RtcAssumption ==
  /\ RtSecs \in Nat \ {0, 1} /\ RtMins \in Nat \ {0, 1} /\ RtHours \in Nat \ {0}
  /\ RtFreqs \subseteq Nat \ {0} /\ 1 \in RtFreqs
  /\ RtAsked \subseteq RtTimes /\ RtCompared \subseteq SUBSET RtFields
  /\ RtMaxCalls \in Nat

VARIABLES
  rt_clock,   \* RTCSEC, RTCMIN, RTCHOUR
  rt_alarm,   \* ALMSEC, ALMMIN, ALMHOUR
  rtcalm,     \* RTCALM: the fields that are compared, and "ALMEN"
  ticnt,      \* TICNT: enable and the frequency it stands for
  ticnt_save, s3c2410_rtc_freq,
  rt_irqs,    \* the interrupts that are requested
  rt_use,     \* "closed", "open", and whether the system sleeps
  rt_pc,      \* "user", or the register that the call is at
  rt_call,    \* the call: its operation and its rtc_time, for an alarm with the fields that are set
  rt_retried, \* have_retried
  rt_shown,   \* history: what the clock has shown since the call began
  rt_want,    \* history: the alarms that were set, before and by the call
  rt_false,   \* history: an alarm came that nobody had set
  rt_calls    \* calls that are left

rtRegs == <<rt_clock, rt_alarm, rtcalm, ticnt>>
rtVars == <<rtRegs, ticnt_save, s3c2410_rtc_freq, rt_irqs, rt_use, rt_pc, rt_call,
            rt_retried, rt_shown, rt_want, rt_false, rt_calls>>

RtZero == [sec |-> 0, min |-> 0, hour |-> 0]
RtNoCall == [op |-> "none", tm |-> RtZero, fields |-> {}]

(* The clock a second later.                                               *)
RtLater(t) ==
  LET min == t.min + (IF t.sec = RtSecs - 1 THEN 1 ELSE 0)
      hour == t.hour + (IF min = RtMins THEN 1 ELSE 0)
  IN  [sec |-> (t.sec + 1) % RtSecs, min |-> min % RtMins, hour |-> hour % RtHours]

(* s3c2410_rtc_probe leaves the clock running; nothing else is set.        *)
RtInit ==
  /\ rt_clock = RtZero /\ rt_alarm = RtZero /\ rtcalm = {}
  /\ s3c2410_rtc_freq = 1 /\ ticnt = [enable |-> FALSE, freq |-> 1] /\ ticnt_save = ticnt
  /\ rt_irqs = {} /\ rt_use = [open |-> FALSE, asleep |-> FALSE]
  /\ rt_pc = "user" /\ rt_call = RtNoCall /\ rt_retried = FALSE
  /\ rt_shown = <<RtZero>> /\ rt_want = {} /\ rt_false = FALSE
  /\ rt_calls = RtMaxCalls

(* External: a second passes, at most one during a call. The alarm comes   *)
(* when the clock reaches what is compared.                                *)
RtMatches(alarm, fields, t) == fields # {} /\ \A f \in fields : alarm[f] = t[f]
RtTick ==
  /\ rt_pc # "user" => Len(rt_shown) = 1
  /\ rt_clock' = RtLater(rt_clock)
  /\ rt_shown' = IF rt_pc = "user" THEN <<rt_clock'>> ELSE Append(rt_shown, rt_clock')
  /\ rt_false' = (rt_false \/ /\ "ALMEN" \in rtcalm
                              /\ RtMatches(rt_alarm, rtcalm \ {"ALMEN"}, rt_clock')
                              /\ \A w \in rt_want : ~ RtMatches(w.tm, w.fields, rt_clock'))
  /\ UNCHANGED <<rt_alarm, rtcalm, ticnt, ticnt_save, s3c2410_rtc_freq, rt_irqs, rt_use,
                 rt_pc, rt_call, rt_retried, rt_want, rt_calls>>

-----------------------------------------------------------------------------
RtIdle == rt_pc = "user" /\ ~ rt_use.asleep /\ rt_calls > 0
RtBegin(call, at) ==
  /\ RtIdle
  /\ rt_pc' = at /\ rt_call' = call
  /\ rt_calls' = rt_calls - 1
  /\ rt_shown' = <<rt_clock>>
  /\ rt_retried' = FALSE

RtGoto(at) ==
  /\ rt_pc' = at
  /\ UNCHANGED <<ticnt, ticnt_save, s3c2410_rtc_freq, rt_irqs, rt_use, rt_calls>>

(* s3c2410_rtc_gettime, from the minutes up, the seconds last.             *)
RtGet ==
  /\ RtBegin([op |-> "get", tm |-> RtZero, fields |-> {}], "min")
  /\ UNCHANGED <<rtRegs, ticnt_save, s3c2410_rtc_freq, rt_irqs, rt_use, rt_want, rt_false>>

RtGetNext == [min |-> "hour", hour |-> "sec"]
RtGetField ==
  /\ rt_call.op = "get" /\ rt_pc \in {"min", "hour"}
  /\ rt_call' = [rt_call EXCEPT !.tm[rt_pc] = rt_clock[rt_pc]]
  /\ RtGoto(RtGetNext[rt_pc])
  /\ UNCHANGED <<rt_clock, rt_alarm, rtcalm, rt_retried, rt_shown, rt_want, rt_false>>

(* Mutant: the entire read is not tried again.                             *)
RtAgain_never(sec) == FALSE
RtAgain(sec) == sec = 0 /\ ~ rt_retried
RtGetSec ==
  /\ rt_call.op = "get" /\ rt_pc = "sec"
  /\ rt_call' = [rt_call EXCEPT !.tm.sec = rt_clock.sec]
  /\ rt_retried' = (rt_retried \/ RtAgain(rt_clock.sec))
  /\ RtGoto(IF RtAgain(rt_clock.sec) THEN "min" ELSE "done")
  /\ UNCHANGED <<rt_clock, rt_alarm, rtcalm, rt_shown, rt_want, rt_false>>

(* s3c2410_rtc_settime, from the seconds up.                               *)
RtSet(t) ==
  /\ RtBegin([op |-> "set", tm |-> t, fields |-> {}], "sec")
  /\ UNCHANGED <<rtRegs, ticnt_save, s3c2410_rtc_freq, rt_irqs, rt_use, rt_want, rt_false>>

RtSetNext == [sec |-> "min", min |-> "hour", hour |-> "done"]
RtSetField ==
  /\ rt_call.op = "set" /\ rt_pc \in RtFields
  /\ rt_clock' = [rt_clock EXCEPT ![rt_pc] = rt_call.tm[rt_pc]]
  /\ RtGoto(RtSetNext[rt_pc])
  /\ UNCHANGED <<rt_alarm, rtcalm, rt_call, rt_retried, rt_shown, rt_want, rt_false>>

(* s3c2410_rtc_setalarm: nothing is compared while the registers change;   *)
(* a field out of range is not compared.                                   *)
RtSetAlarm(t, fields) ==
  /\ RtBegin([op |-> "alarm", tm |-> t, fields |-> fields \cup (rtcalm \cap {"ALMEN"})], "sec")
  /\ rtcalm' = {}
  /\ rt_want' = rt_want \cup {[tm |-> t, fields |-> fields]}
  /\ UNCHANGED <<rt_clock, rt_alarm, ticnt, ticnt_save, s3c2410_rtc_freq, rt_irqs, rt_use, rt_false>>

RtAlarmField ==
  /\ rt_call.op = "alarm" /\ rt_pc \in RtFields
  /\ rt_alarm' = IF rt_pc \in rt_call.fields
                 THEN [rt_alarm EXCEPT ![rt_pc] = rt_call.tm[rt_pc]] ELSE rt_alarm
  /\ RtGoto(IF rt_pc = "hour" THEN "enable" ELSE RtSetNext[rt_pc])
  /\ UNCHANGED <<rt_clock, rtcalm, rt_call, rt_retried, rt_shown, rt_want, rt_false>>

RtAlarmOn ==
  /\ rt_call.op = "alarm" /\ rt_pc = "enable"
  /\ rtcalm' = rt_call.fields
  /\ rt_want' = {[tm |-> rt_call.tm, fields |-> rt_call.fields \ {"ALMEN"}]}
  /\ RtGoto("done")
  /\ UNCHANGED <<rt_clock, rt_alarm, rt_call, rt_retried, rt_shown, rt_false>>

(* The call returns.                                                       *)
RtReturn ==
  /\ rt_pc = "done"
  /\ RtGoto("user")
  /\ rt_call' = RtNoCall /\ rt_retried' = FALSE /\ rt_shown' = <<rt_clock>>
  /\ UNCHANGED <<rt_clock, rt_alarm, rtcalm, rt_want, rt_false>>

-----------------------------------------------------------------------------
(* The other calls change a register at a time, and are a step each.       *)
RtShort ==
  /\ RtIdle
  /\ rt_calls' = rt_calls - 1
  /\ UNCHANGED <<rt_clock, rt_alarm, rt_pc, rt_call, rt_retried, rt_shown, rt_want, rt_false>>

(* s3c2410_rtc_setaie *)
RtSetAie(to) ==
  /\ RtShort /\ rt_use.open
  /\ rtcalm' = IF to THEN rtcalm \cup {"ALMEN"} ELSE rtcalm \ {"ALMEN"}
  /\ UNCHANGED <<ticnt, ticnt_save, s3c2410_rtc_freq, rt_irqs, rt_use>>

(* s3c2410_rtc_setpie and s3c2410_rtc_setfreq *)
RtPie(to) == [ticnt EXCEPT !.enable = to]
RtSetPie(to) ==
  /\ RtShort /\ rt_use.open
  /\ ticnt' = RtPie(to)
  /\ UNCHANGED <<rtcalm, ticnt_save, s3c2410_rtc_freq, rt_irqs, rt_use>>
RtSetFreq(freq) ==
  /\ RtShort /\ rt_use.open
  /\ s3c2410_rtc_freq' = freq
  /\ ticnt' = [ticnt EXCEPT !.freq = freq]
  /\ UNCHANGED <<rtcalm, ticnt_save, rt_irqs, rt_use>>

(* s3c2410_rtc_open: only the second request decides.                      *)
RtOpen(alarm, tick) ==
  /\ RtShort /\ ~ rt_use.open
  /\ rt_use' = [rt_use EXCEPT !.open = tick]
  /\ rt_irqs' = IF tick THEN {"tick"} \cup (IF alarm THEN {"alarm"} ELSE {}) ELSE {}
  /\ UNCHANGED <<rtcalm, ticnt, ticnt_save, s3c2410_rtc_freq>>

(* s3c2410_rtc_release; the alarm may be needed for wake.                  *)
RtRelease ==
  /\ RtShort /\ rt_use.open
  /\ rt_use' = [rt_use EXCEPT !.open = FALSE]
  /\ rt_irqs' = {} /\ ticnt' = RtPie(FALSE)
  /\ UNCHANGED <<rtcalm, ticnt_save, s3c2410_rtc_freq>>

(* s3c2410_rtc_suspend and s3c2410_rtc_resume, between the calls; the time *)
(* they read is the kernel's affair.                                       *)
RtSuspend ==
  /\ RtShort
  /\ rt_use' = [rt_use EXCEPT !.asleep = TRUE]
  /\ ticnt_save' = ticnt /\ ticnt' = RtPie(FALSE)
  /\ UNCHANGED <<rtcalm, s3c2410_rtc_freq, rt_irqs>>
RtResume ==
  /\ rt_use.asleep
  /\ rt_use' = [rt_use EXCEPT !.asleep = FALSE]
  /\ ticnt' = ticnt_save
  /\ UNCHANGED <<rt_clock, rt_alarm, rtcalm, ticnt_save, s3c2410_rtc_freq, rt_irqs, rt_pc,
                 rt_call, rt_retried, rt_shown, rt_want, rt_false, rt_calls>>

RtNext ==
  \/ RtTick
  \/ RtGet \/ RtGetField \/ RtGetSec
  \/ \E t \in RtAsked : RtSet(t) \/ \E fields \in RtCompared : RtSetAlarm(t, fields)
  \/ RtSetField \/ RtAlarmField \/ RtAlarmOn \/ RtReturn
  \/ \E to \in BOOLEAN : RtSetAie(to) \/ RtSetPie(to)
  \/ \E freq \in RtFreqs : RtSetFreq(freq)
  \/ \E alarm, tick \in BOOLEAN : RtOpen(alarm, tick)
  \/ RtRelease \/ RtSuspend \/ RtResume
RtSpec == RtInit /\ [][RtNext]_rtVars

-----------------------------------------------------------------------------
(* A read returns a time that the clock showed during the call, whatever   *)
(* carry comes between two registers; a set leaves the clock at that time  *)
(* or a second later - unless the seconds it writes first are the last of  *)
(* a minute, whose carry the minutes that follow may wipe out.             *)
RtTimeTrue ==
  rt_pc = "done" =>
    /\ rt_call.op = "get" => \E i \in DOMAIN rt_shown : rt_call.tm = rt_shown[i]
    /\ rt_call.op = "set" /\ rt_call.tm.sec # RtSecs - 1
         => rt_clock \in {rt_call.tm, RtLater(rt_call.tm)}

(* No alarm comes but at a time that was set, also while another is being  *)
(* set; the periodic interrupt runs only for who has the device open, at   *)
(* the rate that was asked for, before and after a sleep.                  *)
RtcKept ==
  /\ RtTimeTrue
  /\ ~ rt_false
  /\ ~ rt_use.asleep => (ticnt.enable => rt_use.open /\ "tick" \in rt_irqs)
                        /\ ticnt.freq = s3c2410_rtc_freq
=============================================================================
