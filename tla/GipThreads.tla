------------------------------- MODULE GipThreads -------------------------------
(***************************************************************************)
(* The scheduler of GipScheduler joined to the part of the instruction     *)
(* decoder (units/gip/gip_decode.cdl, decode_state_machine) that starts,   *)
(* resumes, preempts and deschedules threads, and to the special registers *)
(* (units/gip/gip_special.cdl) through which software stops a thread by    *)
(* writing its pc and in which a preempted thread's context waits.         *)
(*                                                                         *)
(* A step of Clock is one clock edge: every register moves at once, each   *)
(* block reading what the others held before.  Instructions are abstracted *)
(* to what reaches these blocks: a write of a thread's pc, a tagged        *)
(* instruction that deschedules, whether the pipeline accepts one, and     *)
(* whether the current one may be preempted (atomic windows and the like). *)
(* Semaphores change between clocks: Post by events, Consume by software.  *)
(***************************************************************************)
EXTENDS GipScheduler

CONSTANTS NativeThreads,   \* those configured for native mode, which is not preempted
          Written          \* the threads whose pc software writes while others run

ASSUME ModeAssumption == NativeThreads \subseteq Threads /\ Written \subseteq Threads

VARIABLES op_state,              \* the decoder's state
          decoding,              \* the decoder's thread, meaningless when it is idle
          acknowledge,           \* acknowledge_scheduler
          preempt_in_progress,
          pending,               \* the thread whose pc the special registers write next
          saved                  \* whose pc and flags preempted_*_l and preempted_*_m hold

decVars == <<op_state, decoding, acknowledge, preempt_in_progress, pending, saved>>
vars == <<schedVars, decVars>>

OpStates == {"idle", "native", "emulate", "resume", "preempt_start", "preempt_wait"}

Mode(t) == IF t \in NativeThreads THEN "native" ELSE "emulate"

\* decoding_thread_level: which pair of preempted_* registers a thread uses.
Slot(t) == IF Level(t) = 0 THEN "l" ELSE "m"

Init ==
    /\ SchedInit
    /\ op_state = "idle"
    /\ decoding = 0
    /\ acknowledge = FALSE
    /\ preempt_in_progress = FALSE
    /\ pending = NoThread
    /\ saved = [slot \in {"l", "m"} |-> NoThread]
-------------------------------------------------------------------------------
(* Parts of a clock edge *)

Scheduler(deschedule) ==
    /\ Schedule(acknowledge, preempt_in_progress, deschedule, pending)
    /\ UNCHANGED wanted

\* The decoder moves to state for thread t and tells the scheduler so.
Decoder(state, t, ack, preempt) ==
    /\ op_state' = state
    /\ decoding' = t
    /\ acknowledge' = ack
    /\ preempt_in_progress' = preempt

Holds(state, preempt) == Decoder(state, decoding, FALSE, preempt)

\* An instruction of the thread may reach the special registers' write port.
MayWrite == pending' \in {NoThread} \cup Written
NoWrite == pending' = NoThread

\* Instructions of the thread are executing; the first clock of a thread only
\* fetches.
Executing == op_state \in {"native", "emulate"} /\ ~acknowledge
-------------------------------------------------------------------------------
(* The decoder's clock edges *)

\* Idle with nothing to do, or with a resume the pipeline does not accept yet.
StayIdle ==
    /\ op_state = "idle"
    /\ request.valid => request.resuming
    /\ Holds("idle", FALSE)
    /\ NoWrite
    /\ UNCHANGED saved
    /\ Scheduler(FALSE)

StartThread ==
    /\ op_state = "idle"
    /\ request.valid /\ ~request.resuming
    /\ Decoder(Mode(request.thread), request.thread, TRUE, FALSE)
    /\ NoWrite
    /\ UNCHANGED saved
    /\ Scheduler(FALSE)

\* Issues the move of preempted_pc to the pc; the flags follow a clock later.
ResumeThread ==
    /\ op_state = "idle"
    /\ request.valid /\ request.resuming
    /\ Decoder("resume", request.thread, TRUE, FALSE)
    /\ NoWrite
    /\ UNCHANGED saved
    /\ Scheduler(FALSE)

RestoreFlags ==
    /\ op_state = "resume"
    /\ Holds(Mode(decoding), FALSE)
    /\ NoWrite
    /\ UNCHANGED saved
    /\ Scheduler(FALSE)

Run ==
    /\ op_state \in {"native", "emulate"}
    /\ Holds(op_state, FALSE)
    /\ IF Executing THEN MayWrite ELSE NoWrite
    /\ UNCHANGED saved
    /\ Scheduler(FALSE)

\* Fault: deschedule in the clock in which an earlier instruction writes a pc.
FaultyDescheduleThread ==
    /\ Executing
    /\ Holds("idle", FALSE)
    /\ MayWrite
    /\ UNCHANGED saved
    /\ Scheduler(TRUE)

\* Software lets its writes complete before the tagged instruction executes
\* (the atomic block of regressions/arm/src/scheduler/sched_preempts.c).
DescheduleThread ==
    /\ Executing
    /\ Holds("idle", FALSE)
    /\ NoWrite
    /\ UNCHANGED saved
    /\ Scheduler(TRUE)

\* Fault: the preemption does not wait for the last acknowledge to be seen.
FaultyStartPreempt ==
    /\ op_state = "emulate"
    /\ request.valid
    /\ Holds("preempt_start", TRUE)
    /\ MayWrite
    /\ UNCHANGED saved
    /\ Scheduler(FALSE)

\* The window is open; the request may be withdrawn at this very edge.
StartPreempt ==
    /\ op_state = "emulate"
    /\ request.valid /\ ~acknowledge
    /\ Holds("preempt_start", TRUE)
    /\ MayWrite
    /\ UNCHANGED saved
    /\ Scheduler(FALSE)

\* Inserts the tagged block-all instruction that saves the flags.
InsertBlock ==
    /\ op_state = "preempt_start"
    /\ \E accepted \in BOOLEAN :
          Holds(IF accepted THEN "preempt_wait" ELSE "preempt_start", TRUE)
    /\ MayWrite
    /\ UNCHANGED saved
    /\ Scheduler(FALSE)

WaitForBlock ==
    /\ op_state = "preempt_wait"
    /\ Holds("preempt_wait", TRUE)
    /\ MayWrite
    /\ UNCHANGED saved
    /\ Scheduler(FALSE)

\* The tagged instruction executes, with everything before it complete.
SwitchThread ==
    /\ op_state = "preempt_wait"
    /\ saved' = [saved EXCEPT ![Slot(decoding)] = decoding]
    /\ Decoder(Mode(request.thread), request.thread, TRUE, FALSE)
    /\ NoWrite
    /\ Scheduler(FALSE)

Clock ==
    \/ StayIdle \/ StartThread \/ ResumeThread \/ RestoreFlags
    \/ Run \/ DescheduleThread
    \/ StartPreempt \/ InsertBlock \/ WaitForBlock \/ SwitchThread
-------------------------------------------------------------------------------
(* Semaphores *)

Post(t) ==
    /\ ~wanted[t]
    /\ wanted' = [wanted EXCEPT ![t] = TRUE]
    /\ UNCHANGED <<thread_running, thread, running, request, cooperative, round_robin, decVars>>

Consume(t) ==
    /\ op_state # "idle"
    /\ wanted[t]
    /\ wanted' = [wanted EXCEPT ![t] = FALSE]
    /\ UNCHANGED <<thread_running, thread, running, request, cooperative, round_robin, decVars>>

Next ==
    \/ Clock
    \/ \E t \in Threads : Post(t)
    \/ \E t \in Threads : Consume(t)

Spec == Init /\ [][Next]_vars

\* The clock never stops; every thread comes to its deschedule, the pipeline
\* takes a resume, and the block-all instruction is accepted and executes.
Fairness ==
    /\ WF_vars(Clock)
    /\ WF_vars(ResumeThread)
    /\ WF_vars(DescheduleThread)
    /\ WF_vars(InsertBlock /\ op_state' = "preempt_wait")
    /\ WF_vars(SwitchThread)

FairSpec == Spec /\ Fairness
-------------------------------------------------------------------------------
(* Properties *)

\* Every register of scheduler and decoder stays in range, and a request only
\* ever names a thread that software uses.
TypeOK ==
    /\ wanted \in [Threads -> BOOLEAN]
    /\ thread_running \in [Threads -> BOOLEAN]
    /\ thread \in Numbers
    /\ running \in BOOLEAN
    /\ request \in Request
    /\ request.valid => request.thread \in Threads
    /\ {cooperative, round_robin} \subseteq BOOLEAN
    /\ op_state \in OpStates
    /\ decoding \in Numbers
    /\ op_state # "idle" => decoding \in Threads
    /\ {acknowledge, preempt_in_progress} \subseteq BOOLEAN
    /\ pending \in Threads \cup {NoThread}
    /\ saved \in [{"l", "m"} -> Threads \cup {NoThread}]

\* Started, and not what the decoder is decoding: preempted.
Suspended(t) == thread_running[t] /\ (op_state = "idle" \/ decoding # t)

\* At most one thread of each level has started, and the one decoding is of a
\* higher level than all that wait: never more than one running and two preempted.
ThreadNesting ==
    /\ \A t, u \in Threads :
          thread_running[t] /\ thread_running[u] /\ Level(t) = Level(u) => t = u
    /\ \A t \in Threads :
          Suspended(t) => Level(t) < 2 /\ (op_state # "idle" => Level(t) < Level(decoding))

\* Scheduler and decoder, each with its own registers, agree on which thread
\* runs, but for the one clock in which the acknowledge is on its way.
DecoderAgrees ==
    /\ op_state = "idle" => ~acknowledge /\ ~running /\ ~preempt_in_progress
    /\ op_state # "idle" =>
          IF acknowledge THEN request.thread = decoding
          ELSE running /\ thread = decoding /\ thread_running[decoding]

\* The registers of a preempted thread's level still hold that thread's context,
\* whatever threads of other levels have come and gone since.
ContextKept == \A t \in Threads : Suspended(t) => saved[Slot(t)] = t

\* What the decoder does on a request fits the thread at that clock, although
\* the request was composed clocks earlier: a resume takes up a thread that is
\* still suspended and has not been stopped by a write of its pc, and a fresh
\* start never restarts a suspended thread.
ResumesWhatWaits ==
    [][ /\ op_state = "idle" /\ op_state' = "resume" =>
              thread_running[decoding'] /\ pending # decoding'
        /\ acknowledge' /\ op_state' # "resume" => ~Suspended(decoding') ]_vars

\* A request that stands does not change what it asks for; the decoder reads it
\* over several clocks of a preemption without a copy of its own.
RequestStable ==
    [][ (request.valid /\ request'.valid) \/ preempt_in_progress =>
            request'.thread = request.thread /\ request'.resuming = request.resuming ]_vars

\* In round robin mode every thread whose semaphore is set gets to run, if no
\* one takes the semaphore away.
RoundRobinServes ==
    \A t \in Threads : round_robin /\ wanted[t] ~> ~wanted[t] \/ thread_running[t]

\* In priority mode the same holds of the highest thread, preempting or not.
HighestServed ==
    LET top == Max(Threads)
    IN  wanted[top] ~> ~wanted[top] \/ thread_running[top]

\* A preempted thread is resumed (or stopped by software) once no thread of a
\* higher level wants to run any more.
PreemptedResumes ==
    \A t \in Threads :
        <>[](\A u \in Threads : Level(u) > Level(t) => ~wanted[u])
            => (Suspended(t) ~> ~Suspended(t))
===============================================================================
