------------------------------- MODULE CommandFsm -------------------------------
(***************************************************************************)
(* units/io/io_egress_control_cmd_fsm.cdl with its timer: how one command  *)
(* FIFO of the I/O block brings its timed commands to the slot they are    *)
(* for, the abort of it all when software empties the FIFO included.       *)
(*                                                                         *)
(* One action is one clock edge.  Its inputs are the acknowledge of        *)
(* io_egress_control, the operation that the postbus side performs on this *)
(* FIFO in the clock (none while the SRAM is busy for the machine itself): *)
(* its target writes and resets, its source reads; and whether the slot    *)
(* takes the command it holds.  The FIFO is the number of its entries, its *)
(* contract being that of CommitFifo; the timestamp read is some Offset    *)
(* from the present.                                                       *)
(***************************************************************************)
EXTENDS CommandTimer

CONSTANTS Offsets,      \* how far, in ticks, from the present commands are timed
          MaxEntries    \* size_m_one of the FIFO

ASSUME OffsetsAssumption == Offsets \subseteq Int
ASSUME EntriesAssumption == MaxEntries \in Nat \ {0}

VARIABLES cmd_state,    \* t_cmd_state
          entries,      \* commands in the FIFO
          overtaken,    \* history: a reset or a read over the postbus came with the
                  \* acknowledge of the machine's own read
          available,    \* cmd_available_bus: the slot was given a command
          until,        \* history: ticks until the command waited for is due
          near          \* history: it is in reach of the comparator

vars == <<timerVars, cmd_state, entries, overtaken, available, until, near>>

Requesting == {"requesting_timer", "requesting_data"}

\* The state after each, once its condition for leaving holds.
Successor == [idle |-> "requesting_timer",
              requesting_timer |-> "time_access",
              time_access |-> "time_ready",
              time_ready |-> "waiting_for_time",
              waiting_for_time |-> "requesting_data",
              requesting_data |-> "data_access",
              data_access |-> "data_ready",
              data_ready |-> "idle"]

Init ==
    /\ TimerInit
    /\ cmd_state = "idle"
    /\ entries = 0
    /\ overtaken = FALSE
    /\ available = FALSE
    /\ until = 0
    /\ near = FALSE

\* Fault: a command is read although the slot still holds the last one.
FaultyMayAdvance(ack) ==
    /\ cmd_state \in Requesting => ack
    /\ cmd_state = "waiting_for_time" => timer = "time_passed"

MayAdvance(ack) ==
    /\ cmd_state \in Requesting => ack
    /\ cmd_state = "waiting_for_time" => timer = "time_passed" /\ ~available

\* Fault: an empty FIFO does not abort a request already made.
FaultyAborts == entries = 0 /\ cmd_state \in {"idle", "waiting_for_time"}

\* "This lets us abort on cmd fifo reset": an empty FIFO stops the machine
\* anywhere but in the two states that read the command.
Aborts == entries = 0 /\ cmd_state \notin {"data_access", "data_ready"}

NextCmdState(ack) ==
    IF Aborts THEN "idle"
    ELSE IF MayAdvance(ack) THEN Successor[cmd_state] ELSE cmd_state

\* Fault: the read of an empty FIFO counts as one.
FaultyNextEntries(op) ==
    IF op = "reset" THEN 0
    ELSE IF op = "write" /\ entries < MaxEntries THEN entries + 1
    ELSE IF cmd_state = "data_access" \/ op = "read" THEN entries - 1
    ELSE entries

\* The read in data_access pops the FIFO, as one over the postbus does; a read of
\* an empty one leaves it.
NextEntries(op) ==
    IF op = "reset" THEN 0
    ELSE IF op = "write" /\ entries < MaxEntries THEN entries + 1
    ELSE IF (cmd_state = "data_access" \/ op = "read") /\ entries > 0 THEN entries - 1
    ELSE entries

\* Offsets that comparisons modulo the width of a quarter get right.
Near == -(Base \div 2 - 1)..(Base \div 2)

\* Follow a command loaded into an idle timer, offset ticks before it is due,
\* while it is waited for; what is overdue by two ticks, or was overdue when it
\* was loaded, is not followed further.
Follow(offset, inReach) ==
    LET to == IF segment = 3 /\ offset > -2 THEN offset - 1 ELSE offset
        waits == cmd_state' = "waiting_for_time"
    IN  /\ until' = IF waits THEN to ELSE 0
        /\ near' = (waits /\ inReach)

\* In time_ready the timestamp is on the bus: immediate, or some time.
Load ==
    \/ /\ TimerClock(TRUE, TRUE, 0, FALSE)
       /\ Follow(0, FALSE)
    \/ \E offset \in Offsets :
          /\ TimerClock(TRUE, FALSE, (clock + offset) % (Top * Base), FALSE)
          /\ Follow(IF timer = "idle" /\ offset > 0 THEN offset ELSE 0,
                    timer = "idle" /\ offset \in Near)

Clock(ack, op, taken) ==
    /\ ack => cmd_state \in Requesting
    /\ cmd_state \in {"time_access", "data_access"} => op = "none"
    /\ taken => available
    /\ cmd_state' = NextCmdState(ack)
    /\ entries' = NextEntries(op)
    /\ overtaken' = (op \in {"reset", "read"} /\ cmd_state' = "data_access")
    /\ available' = (cmd_state = "data_ready" \/ (available /\ ~taken))
    /\ \/ cmd_state = "time_ready" /\ Load
       \/ /\ cmd_state # "time_ready"
          /\ TimerClock(FALSE, FALSE, 0, cmd_state = "idle")
          /\ Follow(until, near)

Ops == {"none", "write", "read", "reset"}

Next == \E ack, taken \in BOOLEAN, op \in Ops : Clock(ack, op, taken)

Spec == Init /\ [][Next]_vars

\* The clock runs, io_egress_control serves what requests, and the slot takes
\* what it was given.
FairSpec ==
    /\ Spec
    /\ WF_vars(Next)
    /\ WF_vars(\E taken \in BOOLEAN, op \in Ops : Clock(TRUE, op, taken))
    /\ WF_vars(\E ack \in BOOLEAN, op \in Ops : Clock(ack, op, TRUE))
-------------------------------------------------------------------------------
(* Properties *)

\* Registers stay in range; in particular a load that meets the timer in the
\* middle of a comparison leaves a value that fits the register.
TypeOK ==
    /\ clock \in Times
    /\ segment \in 0..3
    /\ timer \in TimerStates
    /\ value \in Times
    /\ cmd_state \in DOMAIN Successor
    /\ entries \in 0..MaxEntries
    /\ overtaken \in BOOLEAN
    /\ available \in BOOLEAN
    /\ until \in Int
    /\ near \in BOOLEAN

\* A command timed within half a quarter of the present, and loaded into an
\* idle timer, is not let through before its time.
NearNotBefore ==
    near /\ timer = "time_passed" => until <= 0

\* Such a command is let through at the latest in the tick after its time.
NearOnTime == near /\ until < -1 => timer = "time_passed"

\* The machine reads a command out of an empty FIFO only when the reset, or the
\* postbus's read, that emptied it was performed in the very clock in which the
\* machine's read was acknowledged.
ReadsWhatIsThere ==
    cmd_state = "data_access" /\ entries = 0 => overtaken

\* A slot is never given a command while it holds one.
NoOverrun == cmd_state = "data_ready" => ~available

\* A command in the FIFO is brought to the slot, or flushed, or read over the
\* postbus, even when an abort left the timer in the middle of a comparison.
CommandsFlow == entries > 0 ~> (cmd_state = "data_ready" \/ entries = 0)
===============================================================================
