------------------------------ MODULE CommandTimer ------------------------------
(***************************************************************************)
(* units/io/io_cmd_fifo_timer.cdl: the timer that holds a command back     *)
(* until its timestamp is reached, beside the system timer it is compared  *)
(* with.  The comparator is a quarter of a timestamp wide: the system      *)
(* timer is presented a quarter at a time, top first, by the two low bits  *)
(* of io_timer (io_egress_control.cdl), and each quarter found equal       *)
(* shifts the stored timestamp up for the comparison of the next.          *)
(*                                                                         *)
(* The register keeps its contents when a comparison is over; here it is   *)
(* zeroed, as nothing reads it before the next load.                       *)
(***************************************************************************)
EXTENDS Integers

CONSTANT Base      \* how many values a quarter of a timestamp takes: 2^6
ASSUME BaseAssumption == Base \in Nat /\ Base % 2 = 0 /\ Base >= 4

VARIABLES clock,     \* the system timer, in ticks of four clocks
          segment,   \* timestamp_segment: the quarter presented
          timer,     \* t_timer_fsm
          value      \* the timestamp loaded, shifted as the comparison goes on

timerVars == <<clock, segment, timer, value>>

Top == Base * Base * Base       \* weight of the top quarter
Times == 0..(Top * Base - 1)

Comparing == {"first_comparison", "second_comparison", "third_comparison",
              "last_comparison"}
TimerStates == Comparing \cup {"idle", "time_passed"}

\* The quarter each state waits for, and the state that follows it on a match.
Compared == [first_comparison |-> 0, second_comparison |-> 1,
             third_comparison |-> 2, last_comparison |-> 3]
Following == [first_comparison |-> "second_comparison",
              second_comparison |-> "third_comparison",
              third_comparison |-> "last_comparison",
              last_comparison |-> "time_passed"]

TimerInit ==
    /\ clock = 0
    /\ segment = 0
    /\ timer = "idle"
    /\ value = 0

Weight == <<Top, Base * Base, Base, 1>>       \* of the quarters, top first

Quarter(t, s) == (t \div Weight[s + 1]) % Base

Presented == Quarter(clock, segment)

\* value_difference: modulo the width of a quarter, so half of the differences
\* are taken for negative.
Difference == (Quarter(value, 0) + Base - Presented) % Base
InPast == Difference >= Base \div 2
InFuture == Difference # 0 /\ ~InPast

\* Fault: a state compares whatever quarter is presented.
FaultyComparesNow == timer \in Comparing

ComparesNow == timer \in Comparing /\ Compared[timer] = segment

Passes == ComparesNow /\ (InPast \/ (timer = "last_comparison" /\ ~InFuture))
Shifts == ComparesNow /\ Difference = 0 /\ timer # "last_comparison"

\* Fault: the timestamp is not shifted for the next comparison.
FaultyShifted(v) == v

Shifted(v) == (v % Top) * Base + (v % Base)

\* Fault: a load without a time to wait for does not wake the timer.
FaultyNextTimer(load, immediate, clear) ==
    IF Passes THEN "time_passed"
    ELSE IF timer = "idle" /\ load /\ ~immediate THEN "first_comparison"
    ELSE IF timer = "time_passed" /\ clear THEN "idle"
    ELSE IF Shifts THEN Following[timer]
    ELSE timer

\* Only the idle state reacts to a load, only time_passed to a clear.
NextTimer(load, immediate, clear) ==
    IF Passes \/ (timer = "idle" /\ load /\ immediate) THEN "time_passed"
    ELSE IF timer = "idle" /\ load THEN "first_comparison"
    ELSE IF timer = "time_passed" /\ clear THEN "idle"
    ELSE IF Shifts THEN Following[timer]
    ELSE timer

\* One clock edge; at is the timestamp on the bus from the SRAM.
TimerClock(load, immediate, at, clear) ==
    /\ segment' = (segment + 1) % 4
    /\ clock' = IF segment = 3 THEN (clock + 1) % (Top * Base) ELSE clock
    /\ timer' = NextTimer(load, immediate, clear)
    /\ value' = IF timer' \notin Comparing THEN 0
                ELSE IF load THEN at ELSE IF Shifts THEN Shifted(value) ELSE value
===============================================================================
