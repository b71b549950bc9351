------------------------------ MODULE GipScheduler ------------------------------
(***************************************************************************)
(* units/gip/gip_scheduler.cdl: which of the eight hardware threads of the *)
(* GIP processor should run, and the request for it that the scheduler     *)
(* holds out to the instruction decoder.                                   *)
(*                                                                         *)
(* One clock edge is the action Schedule; the decoder's replies            *)
(* (acknowledge, preempt in progress, deschedule) and the writes that the  *)
(* special registers forward are its parameters.  The semaphores and the   *)
(* flag dependencies of a thread are abstracted to what the scheduler      *)
(* makes of them: whether some semaphore the thread depends on is set.     *)
(* A thread outside Threads has no dependencies, as software leaves the    *)
(* threads it does not use.  Program counters and configurations travel    *)
(* with the request and decide nothing, so the request carries the thread. *)
(***************************************************************************)
EXTENDS Naturals, FiniteSets, FiniteSetsExt

CONSTANT Threads            \* the threads software uses
ASSUME ThreadsAssumption == Threads \subseteq 0..7

VARIABLES wanted,           \* a semaphore the thread depends on is set
          thread_running,   \* thread_data[].running: started, maybe preempted
          thread,           \* the thread running; the round robin pointer if none is
          running,          \* a thread is running
          request,          \* thread_to_start, its _valid and its _resuming
          cooperative,      \* special_cooperative
          round_robin       \* special_round_robin

schedVars == <<wanted, thread_running, thread, running, request, cooperative, round_robin>>

Numbers == 0..7
NoThread == 8     \* "no write": not the number of a thread

Request == [valid : BOOLEAN, thread : Numbers, resuming : BOOLEAN]

Level(t) == IF t = 0 THEN 0 ELSE IF t < 4 THEN 1 ELSE 2

SchedInit ==
    /\ wanted \in [Threads -> BOOLEAN]
    /\ thread_running = [t \in Threads |-> FALSE]
    /\ thread = 0
    /\ running = FALSE
    /\ request = [valid |-> FALSE, thread |-> 0, resuming |-> FALSE]
    /\ cooperative \in BOOLEAN
    /\ round_robin \in BOOLEAN
-------------------------------------------------------------------------------
(* determine_scheduling *)

Schedulable == {t \in Threads : wanted[t] /\ ~thread_running[t]}

Started == {t \in Threads : thread_running[t]}

LevelRunning(l) == \E t \in Started : Level(t) = l

\* Fault: a fresh thread of a level may start beside a preempted one.
FaultyMayRun ==
    {t \in Threads :
        /\ \A l \in Level(t)+1..2 : ~LevelRunning(l)
        /\ \/ t \in Schedulable
           \/ Level(t) < 2 /\ ~running /\ thread_running[t]}

\* Fault: preempted threads are not considered again.
FaultyForgetsPreempted ==
    {t \in Threads : /\ \A l \in Level(t)+1..2 : ~LevelRunning(l)
                     /\ t \in Schedulable /\ ~LevelRunning(Level(t))}

\* masked_schedulable: a level whose threads, or those of a higher level, have
\* started offers nothing new; a preempted thread is offered again once nothing
\* runs.
MayRun ==
    {t \in Threads :
        /\ \A l \in Level(t)+1..2 : ~LevelRunning(l)
        /\ \/ t \in Schedulable /\ ~LevelRunning(Level(t))
           \/ Level(t) < 2 /\ ~running /\ thread_running[t]}

\* Fault: the loop over the threads ends with the lowest, not the highest.
FaultyPriorityChoice ==
    IF MayRun = {} \/ (cooperative /\ running) THEN {} ELSE {Min(MayRun)}

\* A choice is the set of the one thread chosen, or empty.
PriorityChoice ==
    IF MayRun = {} \/ (cooperative /\ running) THEN {} ELSE {Max(MayRun)}

\* Fault: the pointer stays where nothing is schedulable.
FaultyRoundRobinPointer(p) ==
    IF running THEN (p + 1) % 8 ELSE p

Odd(p) == IF p % 2 = 1 THEN p ELSE p + 1        \* p | 1

\* The pointer examines two threads a clock, then moves on.
RoundRobinPointer(p) ==
    IF running THEN (p + 1) % 8
    ELSE IF p \in Schedulable THEN p
    ELSE IF Odd(p) \in Schedulable THEN Odd(p)
    ELSE (Odd(p) + 1) % 8

\* Fault: the thread examined is offered whether or not it is schedulable.
FaultyRoundRobinChoice == IF running THEN {} ELSE {RoundRobinPointer(thread)}

RoundRobinChoice ==
    IF running THEN {}
    ELSE {RoundRobinPointer(thread)} \cap {thread, Odd(thread)} \cap Schedulable

Chosen == IF round_robin THEN RoundRobinChoice ELSE PriorityChoice
-------------------------------------------------------------------------------
(* determine_requester and clocked_state *)

\* A request must go idle for a clock before it may name another thread.
NextValid == Chosen # {} /\ (request.valid => Chosen = {request.thread})

Raised == [valid |-> TRUE, thread |-> Max(Chosen),
           resuming |-> Chosen \cap Started # {}]

\* Fault: the request changes its thread without going idle first.
FaultyNextRequest(acknowledge, preempt_in_progress) ==
    IF preempt_in_progress THEN request
    ELSE [ IF Chosen # {} THEN Raised ELSE request
           EXCEPT !.valid = Chosen # {} /\ ~acknowledge ]

NextRequest(acknowledge, preempt_in_progress) ==
    IF preempt_in_progress THEN request
    ELSE [ IF NextValid /\ ~request.valid THEN Raised ELSE request
           EXCEPT !.valid = NextValid /\ ~acknowledge ]

\* Fault: a pc write marks the thread it names as stopped even if it is running.
FaultyNextThreadRunning(acknowledge, deschedule, write) ==
    [t \in Threads |->
        IF t = write THEN FALSE
        ELSE IF deschedule /\ t = thread THEN FALSE
        ELSE thread_running[t] \/ (acknowledge /\ t = request.thread)]

\* The running flags: an acknowledge sets one, a deschedule clears one, and a
\* write of the pc of a thread other than the current one clears that one.
NextThreadRunning(acknowledge, deschedule, write) ==
    [t \in Threads |->
        IF t = write /\ write # thread THEN FALSE
        ELSE IF deschedule /\ t = thread THEN FALSE
        ELSE thread_running[t] \/ (acknowledge /\ t = request.thread)]

\* One clock edge; write is the thread whose pc the special registers write.
Schedule(acknowledge, preempt_in_progress, deschedule, write) ==
    /\ thread' = IF deschedule THEN RoundRobinPointer(thread)
                 ELSE IF acknowledge THEN request.thread
                 ELSE IF ~running THEN RoundRobinPointer(thread)
                 ELSE thread
    /\ running' = IF deschedule THEN FALSE ELSE running \/ acknowledge
    /\ thread_running' = NextThreadRunning(acknowledge, deschedule, write)
    /\ request' = NextRequest(acknowledge, preempt_in_progress)
    /\ UNCHANGED <<cooperative, round_robin>>
===============================================================================
