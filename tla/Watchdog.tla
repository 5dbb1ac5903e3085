------------------------------ MODULE Watchdog ------------------------------
(***************************************************************************)
(* The S3C2410 watchdog driver (code/12): /dev/watchdog, opened by one     *)
(* process at a time, over a timer that resets the machine, or with        *)
(* soft_noboot raises an interrupt, when nobody refreshes it.              *)
(* ioctl runs under the big kernel lock and the other calls do not         *)
(* overlap on one file, so a call is one step, but for a write, which      *)
(* reads its bytes one after the other and may fault on the way.           *)
(***************************************************************************)
EXTENDS Integers

CONSTANTS
  WtWord,     \* values of an unsigned int: 2^32
  WtReg,      \* values of the count registers: 0x10000
  WtDivisors, \* divisors of the prescaler: 0x100
  WtFreq,     \* clk_get_rate(wdt_clock) / 128
  WtTimeouts, \* what WDIOC_SETTIMEOUT is called with
  WtMargin,   \* tmr_margin when the module is loaded
  WtDefault,  \* CONFIG_S3C2410_WATCHDOG_DEFAULT_TIME
  WtBoots     \* tmr_atboot, nowayout and soft_noboot of the module

ASSUME WatchdogAssumption ==
  /\ WtWord \in Nat \ {0} /\ WtReg \in 1 .. WtWord
  /\ WtDivisors \in Nat \ {0} /\ WtFreq \in Nat \ {0}
  /\ WtTimeouts \subseteq Int /\ WtMargin \in Int
  /\ WtDefault \in Nat \ {0} /\ WtDefault * WtFreq < WtReg
  /\ WtBoots \subseteq [atboot : BOOLEAN, nowayout : BOOLEAN, noboot : BOOLEAN]

VARIABLES
  wt_par,    \* the module's parameters
  wt_open,   \* open_lock is held: /dev/watchdog is open
  wt_write,  \* bytes of a write are still to be read
  allow_close, \* allow_close = CLOSE_STATE_ALLOW
  tmr_margin, wdt_count,
  wtcon,     \* WTCON: enable, rsten, inten and the prescaler's divisor
  wtdat, wtcnt,
  wt_saved,  \* wtcon_save and wtdat_save
  wt_power,  \* "on", "sleep", "off" after a shutdown, "reset"
  wt_owed    \* history: started at boot, or open or closed unexpectedly

wtRegs == <<wtcon, wtdat, wtcnt>>
wtVars == <<wt_par, wt_open, wt_write, allow_close, tmr_margin, wdt_count,
            wtRegs, wt_saved, wt_power, wt_owed>>

-----------------------------------------------------------------------------
(* s3c2410wdt_set_heartbeat: the count and the divisor for a timeout, where *)
(* both registers are wide enough.                                         *)

WtCount(timeout) == (timeout * WtFreq) % WtWord
WtFits(timeout) ==
  timeout >= 1 /\ WtCount(timeout) \div WtDivisors < WtReg
WtDivisor(timeout) ==
  CHOOSE d \in 1 .. WtDivisors :
    /\ WtCount(timeout) \div d < WtReg
    /\ \A e \in 1 .. d - 1 : WtCount(timeout) \div e >= WtReg

SetHeartbeat(timeout) ==
  LET d == WtDivisor(timeout)
      n == WtCount(timeout) \div d
  IN  /\ tmr_margin' = timeout
      /\ wdt_count' = n
      /\ wtdat' = n
      /\ wtcon' = [wtcon EXCEPT !.div = d]

(* s3c2410wdt_keepalive, s3c2410wdt_stop and s3c2410wdt_start.             *)
WtKeepalive == wtcnt' = wdt_count
WtStopped(con) == [con EXCEPT !.enable = FALSE, !.rsten = FALSE]
WtStarted(con, noboot) == [con EXCEPT !.enable = TRUE, !.inten = noboot, !.rsten = ~ noboot]

(* s3c2410wdt_probe: the wanted margin, or else the default; a timer that  *)
(* was started at boot runs before anybody opens the device. The counter   *)
(* of one that was not stands where it stood.                              *)
WtInit ==
  /\ wt_par \in WtBoots
  /\ LET margin == IF WtFits(WtMargin) THEN WtMargin ELSE WtDefault
         n == WtCount(margin) \div WtDivisor(margin)
         off == [enable |-> FALSE, rsten |-> FALSE, inten |-> FALSE, div |-> WtDivisor(margin)]
     IN  /\ tmr_margin = margin
         /\ wdt_count = n /\ wtdat = n
         /\ wtcon = IF wt_par.atboot /\ WtFits(WtMargin) THEN WtStarted(off, wt_par.noboot) ELSE off
         /\ wtcnt \in IF wtcon.enable THEN {n} ELSE 0 .. WtReg - 1
         /\ wt_saved = [con |-> off, dat |-> n]
         /\ wt_owed = (wt_par.atboot /\ WtFits(WtMargin))
  /\ wt_open = FALSE /\ wt_write = FALSE /\ allow_close = FALSE
  /\ wt_power = "on"

-----------------------------------------------------------------------------
WtOn == wt_power = "on"

(* s3c2410wdt_open, for the one process that gets open_lock.               *)
WtOpen ==
  /\ WtOn /\ ~ wt_open
  /\ wt_open' = TRUE
  /\ allow_close' = (allow_close \/ ~ wt_par.nowayout)
  /\ wtcon' = WtStarted(wtcon, wt_par.noboot)
  /\ wtdat' = wdt_count /\ wtcnt' = wdt_count
  /\ wt_owed' = TRUE
  /\ UNCHANGED <<wt_par, wt_write, tmr_margin, wdt_count, wt_saved, wt_power>>

(* s3c2410wdt_write: permission to stop is withdrawn, then given by each   *)
(* 'V'; the timer is refreshed when all bytes have been read.              *)
WtWriteBegin ==
  /\ WtOn /\ wt_open /\ ~ wt_write
  /\ wt_write' = TRUE
  /\ allow_close' = (allow_close /\ wt_par.nowayout)
  /\ UNCHANGED <<wt_par, wt_open, tmr_margin, wdt_count, wtRegs, wt_saved, wt_power, wt_owed>>

WtWriteMagic ==
  /\ WtOn /\ wt_write /\ ~ wt_par.nowayout
  /\ allow_close' = TRUE
  /\ UNCHANGED <<wt_par, wt_open, wt_write, tmr_margin, wdt_count, wtRegs, wt_saved, wt_power, wt_owed>>

WtWriteEnd ==
  /\ WtOn /\ wt_write
  /\ wt_write' = FALSE
  /\ \/ WtKeepalive
     \/ ~ wt_par.nowayout /\ UNCHANGED wtcnt  \* -EFAULT
  /\ UNCHANGED <<wt_par, wt_open, allow_close, tmr_margin, wdt_count, wtcon, wtdat,
                 wt_saved, wt_power, wt_owed>>

(* WDIOC_SETTIMEOUT; one that does not fit changes nothing.                *)
WtSetTimeout ==
  /\ WtOn /\ wt_open /\ ~ wt_write
  /\ \E timeout \in WtTimeouts : WtFits(timeout) /\ SetHeartbeat(timeout)
  /\ wtcnt' = wdt_count'
  /\ UNCHANGED <<wt_par, wt_open, wt_write, allow_close, wt_saved, wt_power, wt_owed>>

WtKeepaliveIoctl ==
  /\ WtOn /\ wt_open /\ ~ wt_write
  /\ WtKeepalive
  /\ UNCHANGED <<wt_par, wt_open, wt_write, allow_close, tmr_margin, wdt_count,
                 wtcon, wtdat, wt_saved, wt_power, wt_owed>>

(* s3c2410wdt_release.                                                     *)
WtRelease ==
  /\ WtOn /\ wt_open /\ ~ wt_write
  /\ IF allow_close
       THEN wtcon' = WtStopped(wtcon) /\ wt_owed' = FALSE /\ UNCHANGED wtcnt
       ELSE WtKeepalive /\ UNCHANGED <<wtcon, wt_owed>>
  /\ allow_close' = FALSE
  /\ wt_open' = FALSE
  /\ UNCHANGED <<wt_par, wt_write, tmr_margin, wdt_count, wtdat, wt_saved, wt_power>>

-----------------------------------------------------------------------------
(* The timer counts down; at its end it resets the machine, or is loaded   *)
(* again and interrupts (s3c2410wdt_irq).                                  *)
WtTick ==
  /\ WtOn /\ wtcon.enable
  /\ IF wtcnt > 0 THEN wtcnt' = wtcnt - 1 /\ UNCHANGED wt_power
     ELSE IF wtcon.rsten THEN wt_power' = "reset" /\ UNCHANGED wtcnt
     ELSE /\ wtcnt' = IF wtcon.inten THEN wdt_count ELSE wtdat
          /\ UNCHANGED wt_power
  /\ UNCHANGED <<wt_par, wt_open, wt_write, allow_close, tmr_margin, wdt_count,
                 wtcon, wtdat, wt_saved, wt_owed>>

(* s3c2410wdt_suspend; the processes are frozen first.                     *)
WtSuspend ==
  /\ WtOn
  /\ wt_saved' = [con |-> wtcon, dat |-> wtdat]
  /\ wtcon' = WtStopped(wtcon)
  /\ wt_power' = "sleep"
  /\ UNCHANGED <<wt_par, wt_open, wt_write, allow_close, tmr_margin, wdt_count, wtdat, wtcnt, wt_owed>>

(* Mutant: the control register is not restored.                           *)
WtResume_off ==
  /\ wt_power = "sleep"
  /\ wtdat' = wt_saved.dat /\ wtcnt' = wt_saved.dat
  /\ wt_power' = "on"
  /\ UNCHANGED <<wt_par, wt_open, wt_write, allow_close, tmr_margin, wdt_count, wtcon, wt_saved, wt_owed>>

(* s3c2410wdt_resume.                                                      *)
WtResume ==
  /\ wt_power = "sleep"
  /\ wtdat' = wt_saved.dat /\ wtcnt' = wt_saved.dat
  /\ wtcon' = wt_saved.con
  /\ wt_power' = "on"
  /\ UNCHANGED <<wt_par, wt_open, wt_write, allow_close, tmr_margin, wdt_count, wt_saved, wt_owed>>

(* s3c2410wdt_shutdown, when the system goes down.                         *)
WtShutdown ==
  /\ WtOn
  /\ wtcon' = WtStopped(wtcon)
  /\ wt_power' = "off"
  /\ UNCHANGED <<wt_par, wt_open, wt_write, allow_close, tmr_margin, wdt_count, wtdat, wtcnt, wt_saved, wt_owed>>

WtNext ==
  \/ WtOpen \/ WtWriteBegin \/ WtWriteMagic \/ WtWriteEnd \/ WtSetTimeout
  \/ WtKeepaliveIoctl \/ WtRelease \/ WtTick \/ WtSuspend \/ WtResume \/ WtShutdown
WtSpec == WtInit /\ [][WtNext]_wtVars

-----------------------------------------------------------------------------
(* Once started, by the module or by an open, the timer runs and leads to  *)
(* what soft_noboot asks for - through closes without permission, new      *)
(* timeouts, suspend and resume - until a close with permission stops it;  *)
(* with nowayout none does.                                                *)
WtKeptRunning ==
  WtOn => /\ wtcon.enable = wt_owed
          /\ wtcon.enable => (wtcon.rsten # wtcon.inten) /\ (wtcon.inten = wt_par.noboot)
          /\ wt_par.nowayout /\ wt_open => ~ allow_close

(* What the registers hold is the heartbeat that was asked for: the timer  *)
(* never runs longer than tmr_margin says, nor shorter by as much as one   *)
(* step of the prescaler - as long as the product with the clock rate does *)
(* not overflow an unsigned int.                                           *)
WtKeptInTime ==
  /\ wtdat = wdt_count
  /\ wtcon.enable => wtcnt <= wdt_count
  /\ wt_power # "sleep" => wdt_count = WtCount(tmr_margin) \div wtcon.div
  /\ tmr_margin * WtFreq < WtWord =>
       /\ wdt_count * wtcon.div <= tmr_margin * WtFreq
       /\ (wdt_count + 1) * wtcon.div > tmr_margin * WtFreq

(* The watchdog does what it was told, runs or not, and bites in time.     *)
WatchdogKept == WtKeptRunning /\ WtKeptInTime
=============================================================================
