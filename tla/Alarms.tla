-------------------------------- MODULE Alarms --------------------------------
(***************************************************************************)
(* "4_Signals/alarm.c", which prints a dot every second from its handler   *)
(* of SIGALRM, and mysleep.c, which sleeps until the handler has run.      *)
(* The process may be kept from running for any time, so the signal can    *)
(* come between any two of its steps; it is handled before the next one.   *)
(***************************************************************************)
EXTENDS Naturals

VARIABLE clock   \* the program, where it is, its alarm and what it has done

\* at: where the program is; handler: whether SIGALRM has the program's
\* handler; timer: an alarm is set; signal: SIGALRM is pending; dots: printed
\* so far, modulo 2; missed: history, the alarm of mysleep went off before it
\* was in pause.
Starts == [program : {"alarm", "mysleep"}, at : {"start"}, handler : {FALSE},
           timer : {FALSE}, signal : {FALSE}, dots : {0}, missed : {FALSE}]

Init == clock \in Starts

Is(program, label) == clock.program = program /\ clock.at = label

\* signal(SIGALRM, ...)
Start == /\ clock.at = "start"
         /\ clock' = [clock EXCEPT !.at = "arm", !.handler = TRUE]

\* alarm(nsecs)
Arm == /\ clock.at = "arm"
       /\ clock' = [clock EXCEPT !.at = "enter", !.timer = TRUE]

\* The call of pause; a pending signal is handled before it.
Pause == /\ clock.at = "enter"
         /\ clock' = [clock EXCEPT !.at = "pause"]

\* return alarm(0)
Disarm == /\ Is("mysleep", "wake")
          /\ clock' = [clock EXCEPT !.at = "returned", !.timer = FALSE]

Run == ~clock.signal /\ (Start \/ Arm \/ Pause \/ Disarm)

Expire == /\ clock.timer
          /\ clock' = [clock EXCEPT !.timer = FALSE, !.signal = TRUE]

\* Where a handler that interrupts pause goes on.
Back == IF clock.at # "pause" THEN clock.at
        ELSE IF clock.program = "alarm" THEN "enter" ELSE "wake"

\* A faulty Handle: alhandler does not set the next alarm.
HandleOnce == /\ clock.signal
              /\ clock' = [clock EXCEPT
                             !.signal = FALSE,
                             !.at = IF clock.handler THEN Back ELSE "killed",
                             !.dots = IF clock.program = "alarm" THEN 1 - @ ELSE @,
                             !.missed = @ \/ Is("mysleep", "enter")]

\* alhandler sets the next alarm and prints a dot, sigalarm does nothing;
\* without a handler SIGALRM ends the process.
Handle == /\ clock.signal
          /\ clock' = [clock EXCEPT
                         !.signal = FALSE,
                         !.at = IF clock.handler THEN Back ELSE "killed",
                         !.timer = @ \/ clock.program = "alarm",
                         !.dots = IF clock.program = "alarm" THEN 1 - @ ELSE @,
                         !.missed = @ \/ Is("mysleep", "enter")]

Next == Run \/ Expire \/ Handle

Spec == /\ Init /\ [][Next]_clock
        /\ WF_clock(Run) /\ WF_clock(Expire) /\ WF_clock(Handle)
------------------------------------------------------------------------------
(* Properties *)

\* alarm.c prints dots for ever, also when a signal comes while it is between
\* two calls of pause (alarm.c:31-58).  mysleep.c returns, unless its alarm
\* came before it was in pause (mysleep.c:15-16): then nothing wakes it.
Rings == \/ clock.program = "alarm" /\ \A d \in {0, 1} : []<>(clock.dots = d)
         \/ clock.program = "mysleep" /\ <>(clock.at = "returned" \/ clock.missed)
==============================================================================
