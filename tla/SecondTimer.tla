----------------------------- MODULE SecondTimer -----------------------------
(***************************************************************************)
(* /dev/second (code/10): a timer that counts seconds while the device is  *)
(* open. The handler runs beside the calls, on another processor, so its   *)
(* two statements are steps of their own; open arms the timer for a second *)
(* later and is one step, as release and read are.                         *)
(***************************************************************************)
EXTENDS Naturals

CONSTANTS
  SecMax,    \* bound on the counter; it starts again at 0
  SecUsers   \* bound on the files that are open at once

ASSUME SecondAssumption == SecMax \in Nat \ {0, 1} /\ SecUsers \in Nat \ {0}

VARIABLES
  sec_users,   \* open files
  s_timer,     \* s_timer is pending
  sec_handler, \* second_timer_handle: "no", before its "mod" or its "inc"
  counter,
  sec_shared,  \* history: open to several files since it was last closed
  sec_late,    \* the last close met the handler before it armed the timer again
  sec_oops     \* a timer was initialised while it was pending

secVars == <<sec_users, s_timer, sec_handler, counter, sec_shared, sec_late, sec_oops>>

SecInit ==
  /\ sec_users = 0 /\ s_timer = FALSE /\ sec_handler = "no" /\ counter = 0
  /\ sec_shared = FALSE /\ sec_late = FALSE /\ sec_oops = FALSE

(* second_open: the timer is set up and the count starts again, also for   *)
(* who has the device open already. A timer that is pending then is        *)
(* initialised and linked a second time, which ends the run.               *)
SecOpen ==
  /\ sec_users < SecUsers
  /\ sec_users' = sec_users + 1
  /\ s_timer' = TRUE
  /\ counter' = 0
  /\ sec_shared' = (sec_users > 0)
  /\ sec_oops' = s_timer
  /\ sec_late' = (sec_late /\ s_timer)
  /\ UNCHANGED sec_handler

(* Mutant: a close that leaves the timer.                                  *)
SecRelease_armed ==
  /\ sec_users > 0
  /\ sec_users' = sec_users - 1
  /\ UNCHANGED <<s_timer, sec_handler, counter, sec_shared, sec_oops, sec_late>>

(* second_release: del_timer does not wait for the handler.                *)
SecRelease ==
  /\ sec_users > 0
  /\ sec_users' = sec_users - 1
  /\ s_timer' = FALSE
  /\ sec_late' = (sec_users = 1 /\ sec_handler = "mod")
  /\ UNCHANGED <<sec_handler, counter, sec_shared, sec_oops>>

(* second_timer_handle, which arms the timer again and counts.             *)
SecExpire ==
  /\ s_timer /\ sec_handler = "no"
  /\ s_timer' = FALSE /\ sec_handler' = "mod"
  /\ UNCHANGED <<sec_users, counter, sec_shared, sec_late, sec_oops>>

SecMod ==
  /\ sec_handler = "mod"
  /\ s_timer' = TRUE /\ sec_handler' = "inc"
  /\ UNCHANGED <<sec_users, counter, sec_shared, sec_late, sec_oops>>

SecInc ==
  /\ sec_handler = "inc"
  /\ sec_handler' = "no"
  /\ counter' = (counter + 1) % SecMax
  /\ UNCHANGED <<sec_users, s_timer, sec_shared, sec_late, sec_oops>>

SecHandler == SecExpire \/ SecMod \/ SecInc
SecNext == ~ sec_oops /\ (SecOpen \/ SecRelease \/ SecHandler)
SecSpec == SecInit /\ [][SecNext]_secVars

-----------------------------------------------------------------------------
(* What a close leaves of the timer, and an open meets. Closed for good,   *)
(* the device has no timer and no handler that would arm one - unless the  *)
(* last close met the handler before it armed the timer again: then the    *)
(* timer runs for ever. Open to one file, the device has its timer. And an *)
(* open finds a timer pending only beside another file or after such a     *)
(* close (second_timer_handle, second_open, second_release).               *)
SecondStops ==
  /\ sec_users = 0 => ((s_timer \/ sec_handler = "mod") <=> sec_late)
  /\ sec_users > 0 /\ ~ sec_shared => s_timer \/ sec_handler = "mod"
  /\ sec_oops => sec_shared \/ sec_late
=============================================================================
