--------------------------- MODULE GipThreadsProofs ---------------------------
(***************************************************************************)
(* For any set of threads in use, any of them native and any of them       *)
(* written by software, scheduler and decoder keep the nesting of threads, *)
(* agree on which runs, and lose no preempted thread's context.            *)
(*                                                                         *)
(* None of it is inductive alone: that a thread started is of a higher     *)
(* level than those that wait was decided when its request was raised, so  *)
(* the invariant says of a request, for as long as the decoder may act on  *)
(* it, that the choice still fits the threads that have started.           *)
(***************************************************************************)
EXTENDS GipThreads, TLAPS

\* The thread may start: it has not, and nothing of its level or above has.
Fresh(t) == ~thread_running[t] /\ \A u \in Started : Level(u) < Level(t)

\* The thread may be resumed: of all that have started it is the highest.
Top(t) == thread_running[t] /\ \A u \in Started \ {t} : Level(u) < Level(t)

\* What the decoder's state says of its flags and of the special registers.
DecoderStates ==
    /\ op_state = "idle" \/ acknowledge => pending = NoThread
    /\ op_state = "resume" => acknowledge
    /\ preempt_in_progress <=> op_state \in {"preempt_start", "preempt_wait"}
    /\ acknowledge => ~preempt_in_progress

\* A request the decoder may act on, in the present clock or a later one.
RequestFits ==
    /\ op_state = "idle" /\ request.valid =>
          IF request.resuming THEN Top(request.thread) ELSE Fresh(request.thread)
    /\ op_state # "idle" /\ ~acknowledge /\ (request.valid \/ preempt_in_progress) =>
          request.thread \in Threads /\ ~request.resuming /\ Fresh(request.thread)

\* The thread just started or resumed, before the scheduler sees that.
AcknowledgeFits == acknowledge => Fresh(decoding) \/ Top(decoding)

\* In round robin mode nothing is ever preempted.
NoPreemption ==
    round_robin =>
        /\ ~preempt_in_progress
        /\ \A t \in Threads : ~Suspended(t)
        /\ op_state # "idle" /\ ~acknowledge => ~request.valid

IInv ==
    /\ TypeOK
    /\ ThreadNesting
    /\ DecoderAgrees
    /\ ContextKept
    /\ DecoderStates
    /\ RequestFits
    /\ AcknowledgeFits
    /\ NoPreemption
-------------------------------------------------------------------------------
(* The scheduler *)

LEMMA ThreadNumbers ==
    /\ Threads \subseteq Numbers
    /\ NoThread \notin Numbers
    /\ \A t \in Numbers : Level(t) \in 0..2
BY ThreadsAssumption DEF Numbers, NoThread, Level

LEMMA MaxIsMember ==
    ASSUME NEW S \in SUBSET Numbers, S # {}
    PROVE  Max(S) \in S
<1>1. \E x \in S : \A y \in S : x >= y
  <2>1. CASE 7 \in S
    BY <2>1 DEF Numbers
  <2>2. CASE 7 \notin S /\ 6 \in S
    BY <2>2 DEF Numbers
  <2>3. CASE S \subseteq 0..5 /\ 5 \in S
    BY <2>3
  <2>4. CASE S \subseteq 0..4 /\ 4 \in S
    BY <2>4
  <2>5. CASE S \subseteq 0..3 /\ 3 \in S
    BY <2>5
  <2>6. CASE S \subseteq 0..2 /\ 2 \in S
    BY <2>6
  <2>7. CASE S \subseteq 0..1 /\ 1 \in S
    BY <2>7
  <2>8. CASE S \subseteq 0..0
    <3>1. PICK z \in S : TRUE
      OBVIOUS
    <3> QED
      BY <2>8, <3>1
  <2> QED
    BY <2>1, <2>2, <2>3, <2>4, <2>5, <2>6, <2>7, <2>8 DEF Numbers
<1> QED
  BY <1>1 DEF Max

LEMMA MaxOfOne ==
    ASSUME NEW x \in Numbers
    PROVE  Max({x}) = x
BY MaxIsMember

\* What is chosen is one thread at most: in round robin mode one that has not
\* started, in priority mode one that may run.
LEMMA ChosenSound ==
    ASSUME TypeOK, Chosen # {}
    PROVE  \E t \in Threads :
               /\ Chosen = {t}
               /\ round_robin => ~running /\ t \in Schedulable
               /\ ~round_robin => t \in MayRun
<1>1. CASE round_robin
  <2>1. ~running /\ Chosen \subseteq {RoundRobinPointer(thread)} \cap Schedulable
    BY <1>1 DEF Chosen, RoundRobinChoice
  <2> QED
    BY <1>1, <2>1 DEF Schedulable
<1>2. CASE ~round_robin
  <2>1. MayRun # {} /\ Chosen = {Max(MayRun)}
    BY <1>2 DEF Chosen, PriorityChoice
  <2>2. MayRun \subseteq Threads
    BY DEF MayRun
  <2>3. Max(MayRun) \in MayRun
    BY <2>1, <2>2, ThreadNumbers, MaxIsMember
  <2> QED
    BY <1>2, <2>1, <2>2, <2>3
<1> QED
  BY <1>1, <1>2

\* What a clock edge does to the request.
LEMMA RequestStep ==
    ASSUME TypeOK,
           NEW ack \in BOOLEAN, NEW preempt \in BOOLEAN,
           request' = NextRequest(ack, preempt)
    PROVE  /\ request' \in Request
           /\ request'.valid => request'.thread \in Threads
           /\ preempt => request' = request
           /\ request.valid => /\ request'.thread = request.thread
                               /\ request'.resuming = request.resuming
           /\ ack /\ ~preempt => ~request'.valid
           /\ request'.valid /\ ~request.valid =>
                 \E t \in Threads :
                     /\ request'.thread = t
                     /\ request'.resuming = (t \in Started)
                     /\ round_robin => ~running /\ t \in Schedulable
                     /\ ~round_robin => t \in MayRun
           /\ request'.valid /\ running /\ ~preempt => ~round_robin
<1>1. CASE preempt
  BY <1>1 DEF NextRequest, TypeOK
<1>2. CASE ~preempt /\ NextValid /\ ~request.valid
  <2>1. PICK t \in Threads : /\ Chosen = {t}
                             /\ round_robin => ~running /\ t \in Schedulable
                             /\ ~round_robin => t \in MayRun
    BY <1>2, ChosenSound DEF NextValid
  <2>2. Raised = [valid |-> TRUE, thread |-> t, resuming |-> t \in Started]
    <3>1. Max(Chosen) = t
      BY <2>1, MaxOfOne, ThreadNumbers
    <3>2. (Chosen \cap Started # {}) = (t \in Started)
      BY <2>1
    <3> QED
      BY <3>1, <3>2 DEF Raised
  <2>3. request' = [valid |-> ~ack, thread |-> t, resuming |-> t \in Started]
    BY <1>2, <2>2 DEF NextRequest
  <2> QED
    BY <1>2, <2>1, <2>3, ThreadNumbers DEF Request
<1>3. CASE ~preempt /\ ~(NextValid /\ ~request.valid)
  <2>1. /\ request' = [request EXCEPT !.valid = NextValid /\ ~ack]
        /\ request'.valid => request.valid
    BY <1>3 DEF NextRequest, TypeOK, Request
  <2>2. NextValid => Chosen # {}
    BY DEF NextValid
  <2>3. NextValid /\ running => ~round_robin
    BY <2>2 DEF Chosen, RoundRobinChoice
  <2>4. NextValid \in BOOLEAN
    BY DEF NextValid
  <2> QED
    BY <1>3, <2>1, <2>3, <2>4 DEF TypeOK, Request
<1> QED
  BY <1>1, <1>2, <1>3

\* A request just raised fits the threads that have started.
LEMMA ChoiceFits ==
    ASSUME TypeOK, NEW t \in Threads,
           t \in MayRun
    PROVE  /\ t \notin Started => Fresh(t)
           /\ t \in Started =>
                 /\ ~running
                 /\ \A u \in Started : Level(u) <= Level(t)
<1>1. \A u \in Started : Level(u) <= Level(t)
  BY ThreadNumbers DEF MayRun, LevelRunning, Started
<1>2. ASSUME t \notin Started PROVE \A u \in Started : Level(u) < Level(t)
  <2>1. ~LevelRunning(Level(t))
    BY <1>2 DEF MayRun, Started
  <2> QED
    BY <1>1, <2>1, ThreadNumbers DEF LevelRunning, Started
<1> QED
  BY <1>1, <1>2 DEF MayRun, Fresh, Started, Schedulable

\* The pointer stays among the eight threads.
LEMMA PointerInRange ==
    ASSUME NEW p \in Numbers
    PROVE  RoundRobinPointer(p) \in Numbers
<1>1. Odd(p) \in Numbers
  BY DEF Odd, Numbers
<1> QED
  BY <1>1 DEF RoundRobinPointer, Numbers
-------------------------------------------------------------------------------
(* Steps *)

\* What one clock edge of the scheduler does, as far as the invariant needs.
LEMMA ScheduleStep ==
    ASSUME IInv,
           NEW deschedule \in BOOLEAN,
           Scheduler(deschedule)
    PROVE  /\ wanted' \in [Threads -> BOOLEAN]
           /\ thread_running' \in [Threads -> BOOLEAN]
           /\ thread' \in Numbers
           /\ running' = (~deschedule /\ (running \/ acknowledge))
           /\ ~deschedule /\ acknowledge => thread' = decoding
           /\ ~deschedule /\ ~acknowledge /\ running => thread' = thread
           /\ \A t \in Threads :
                 thread_running'[t] =
                    /\ ~(t = pending /\ pending # thread)
                    /\ ~(deschedule /\ t = thread)
                    /\ thread_running[t] \/ (acknowledge /\ t = decoding)
           /\ request' = NextRequest(acknowledge, preempt_in_progress)
           /\ cooperative' = cooperative
           /\ round_robin' = round_robin
<1>1. acknowledge => request.thread = decoding
  BY DEF IInv, DecoderAgrees
<1>2. /\ thread' = IF deschedule THEN RoundRobinPointer(thread)
                 ELSE IF acknowledge THEN request.thread
                 ELSE IF ~running THEN RoundRobinPointer(thread)
                 ELSE thread
      /\ running' = IF deschedule THEN FALSE ELSE running \/ acknowledge
      /\ thread_running' = NextThreadRunning(acknowledge, deschedule, pending)
      /\ request' = NextRequest(acknowledge, preempt_in_progress)
      /\ UNCHANGED <<cooperative, round_robin, wanted>>
  BY DEF Scheduler, Schedule
<1>3. /\ thread \in Numbers /\ request.thread \in Numbers
      /\ thread_running \in [Threads -> BOOLEAN]
      /\ wanted \in [Threads -> BOOLEAN]
      /\ acknowledge \in BOOLEAN /\ running \in BOOLEAN
  BY DEF IInv, TypeOK, Request
<1>4. thread' \in Numbers
  BY <1>2, <1>3, PointerInRange
<1>5. /\ thread_running' \in [Threads -> BOOLEAN]
      /\ \A t \in Threads :
            thread_running'[t] =
               /\ ~(t = pending /\ pending # thread)
               /\ ~(deschedule /\ t = thread)
               /\ thread_running[t] \/ (acknowledge /\ t = decoding)
  BY <1>1, <1>2, <1>3 DEF NextThreadRunning
<1> QED
  BY <1>1, <1>2, <1>3, <1>4, <1>5

\* Stopping threads leaves a thread that may start fit to start.
LEMMA FreshWithFewer ==
    ASSUME NEW t \in Threads, Fresh(t),
           \A u \in Threads : thread_running'[u] => thread_running[u]
    PROVE  /\ ~thread_running'[t]
           /\ \A u \in Started' : Level(u) < Level(t)
BY DEF Fresh, Started

\* With nothing running, the request kept or raised fits what waits.
LEMMA IdleRequest ==
    ASSUME IInv, op_state = "idle", Scheduler(FALSE)
    PROVE  /\ thread_running' = thread_running
           /\ running' = FALSE
           /\ request' \in Request
           /\ request'.valid => request'.thread \in Threads
           /\ request.valid => request'.thread = request.thread
           /\ request'.valid =>
                 IF request'.resuming THEN Top(request'.thread) ELSE Fresh(request'.thread)
<1>1. /\ ~acknowledge /\ ~running /\ ~preempt_in_progress /\ pending = NoThread
      /\ TypeOK
      /\ acknowledge \in BOOLEAN /\ preempt_in_progress \in BOOLEAN
  BY DEF IInv, DecoderAgrees, DecoderStates, TypeOK
<1>2. thread_running' = thread_running
  <2>1. \A t \in Threads : t # pending
    BY <1>1, ThreadNumbers
  <2>2. \A t \in Threads : thread_running'[t] = thread_running[t]
    BY <1>1, <2>1, ScheduleStep DEF TypeOK
  <2>3. thread_running' \in [Threads -> BOOLEAN] /\ thread_running \in [Threads -> BOOLEAN]
    BY <1>1, ScheduleStep DEF TypeOK
  <2> QED
    BY <2>2, <2>3
<1>3. request' = NextRequest(acknowledge, preempt_in_progress) /\ running' = FALSE
  BY <1>1, ScheduleStep
<1>4. CASE request'.valid /\ request.valid
  <2>1. request'.thread = request.thread /\ request'.resuming = request.resuming
    BY <1>1, <1>3, <1>4, RequestStep
  <2> QED
    BY <1>1, <1>2, <1>3, <1>4, <2>1, RequestStep DEF IInv, RequestFits
<1>5. CASE request'.valid /\ ~request.valid
  <2>1. PICK t \in Threads : /\ request'.thread = t
                             /\ request'.resuming = (t \in Started)
                             /\ round_robin => ~running /\ t \in Schedulable
                             /\ ~round_robin => t \in MayRun
    BY <1>1, <1>3, <1>5, RequestStep
  <2>2. CASE round_robin
    <3>1. Started = {}
      BY <2>2 DEF IInv, NoPreemption, Suspended, Started
    <3> QED
      BY <1>1, <1>2, <1>3, <1>5, <2>1, <2>2, <3>1, RequestStep DEF Fresh, Schedulable
  <2>3. CASE ~round_robin
    <3>1. ASSUME t \in Started PROVE Top(t)
      <4>1. \A u \in Started : Level(u) <= Level(t)
        BY <1>1, <2>1, <2>3, <3>1, ChoiceFits
      <4>2. \A u \in Started \ {t} : Level(u) # Level(t)
        BY <3>1 DEF IInv, ThreadNesting, Started
      <4> QED
        BY <3>1, <4>1, <4>2, ThreadNumbers DEF Top, Started
    <3>2. t \notin Started => Fresh(t)
      BY <1>1, <2>1, <2>3, ChoiceFits
    <3> QED
      BY <1>1, <1>2, <1>3, <1>5, <2>1, <3>1, <3>2, RequestStep
  <2> QED
    BY <2>2, <2>3
<1>6. CASE ~request'.valid
  BY <1>1, <1>2, <1>3, <1>6, RequestStep
<1> QED
  BY <1>4, <1>5, <1>6

\* While a thread runs, a request stands only for a fresh thread of a higher level.
LEMMA RunningRequest ==
    ASSUME IInv, op_state # "idle", ~acknowledge,
           NEW deschedule \in BOOLEAN, Scheduler(deschedule)
    PROVE  /\ \A t \in Threads :
                 thread_running'[t] =
                    /\ thread_running[t]
                    /\ ~(deschedule /\ t = decoding)
                    /\ ~(t = pending /\ t # decoding)
           /\ request' \in Request
           /\ request'.valid => request'.thread \in Threads
           /\ preempt_in_progress => request' = request
           /\ request.valid \/ request'.valid \/ preempt_in_progress =>
                 /\ request'.thread \in Threads
                 /\ ~request'.resuming
                 /\ Fresh(request'.thread)
                 /\ ~thread_running'[request'.thread]
                 /\ \A u \in Started' : Level(u) < Level(request'.thread)
           /\ round_robin => ~request'.valid
<1>1. /\ TypeOK /\ running /\ thread = decoding
      /\ acknowledge \in BOOLEAN /\ preempt_in_progress \in BOOLEAN
  BY DEF IInv, DecoderAgrees, TypeOK
<1>2. \A t \in Threads :
          thread_running'[t] = /\ ~(t = pending /\ pending # thread)
                               /\ ~(deschedule /\ t = thread)
                               /\ thread_running[t] \/ (acknowledge /\ t = decoding)
  BY ScheduleStep
<1>3. \A t \in Threads : thread_running[t] \in BOOLEAN
  BY <1>1 DEF TypeOK
<1>4. request' = NextRequest(acknowledge, preempt_in_progress)
  BY ScheduleStep
<1>5. ASSUME request.valid \/ request'.valid \/ preempt_in_progress
      PROVE  /\ request'.thread \in Threads
             /\ ~request'.resuming
             /\ Fresh(request'.thread)
  <2>1. CASE request.valid \/ preempt_in_progress
    <3>1. request'.thread = request.thread /\ request'.resuming = request.resuming
      BY <1>1, <1>4, <2>1, RequestStep
    <3> QED
      BY <2>1, <3>1 DEF IInv, RequestFits
  <2>2. CASE request'.valid /\ ~request.valid /\ ~preempt_in_progress
    <3>1. PICK t \in Threads : /\ request'.thread = t
                               /\ request'.resuming = (t \in Started)
                               /\ ~round_robin /\ t \in MayRun
      BY <1>1, <1>4, <2>2, RequestStep
    <3> QED
      BY <1>1, <3>1, ChoiceFits
  <2> QED
    BY <1>5, <2>1, <2>2
<1>6. \A u \in Threads : thread_running'[u] => thread_running[u]
  BY <1>2, <1>3, <1>1
<1>7. ASSUME request.valid \/ request'.valid \/ preempt_in_progress
      PROVE  /\ ~thread_running'[request'.thread]
             /\ \A u \in Started' : Level(u) < Level(request'.thread)
  <2>1. PICK t \in Threads : t = request'.thread
    BY <1>5, <1>7
  <2>2. Fresh(t)
    BY <1>5, <1>7, <2>1
  <2> QED
    BY <1>6, <2>1, <2>2, FreshWithFewer
<1>8. round_robin => ~request'.valid
  <2>1. round_robin => ~preempt_in_progress
    BY DEF IInv, NoPreemption
  <2> QED
    BY <1>1, <1>4, <2>1, RequestStep
<1>9. \A t \in Threads :
         thread_running'[t] =
                    /\ thread_running[t]
                    /\ ~(deschedule /\ t = decoding)
                    /\ ~(t = pending /\ t # decoding)
  BY <1>1, <1>2, <1>3
<1> QED
  BY <1>1, <1>4, <1>5, <1>7, <1>8, <1>9, RequestStep
-------------------------------------------------------------------------------
LEMMA InitIInv == Init => IInv
<1> SUFFICES ASSUME Init PROVE IInv
  OBVIOUS
<1>1. TypeOK
  <2>1. /\ request \in Request /\ ~request.valid
        /\ 0 \in Numbers
    BY DEF Init, SchedInit, Request, Numbers
  <2>2. /\ thread_running \in [Threads -> BOOLEAN]
        /\ saved \in [{"l", "m"} -> Threads \cup {NoThread}]
    BY DEF Init, SchedInit
  <2> QED
    BY <2>1, <2>2 DEF Init, SchedInit, TypeOK, OpStates
<1>2. \A t \in Threads : ~Suspended(t)
  BY DEF Init, SchedInit, Suspended
<1>3. ThreadNesting
  BY <1>2 DEF Init, SchedInit, ThreadNesting
<1>4. ContextKept
  BY <1>2 DEF ContextKept
<1> QED
  BY <1>1, <1>2, <1>3, <1>4
     DEF Init, SchedInit, IInv, DecoderAgrees, DecoderStates, RequestFits, AcknowledgeFits,
         NoPreemption

\* Nothing runs and nothing is started.
LEMMA StayIdleIInv == IInv /\ StayIdle => IInv'
<1> SUFFICES ASSUME IInv, StayIdle PROVE IInv'
  OBVIOUS
<1>1. /\ op_state = "idle" /\ Scheduler(FALSE)
      /\ op_state' = "idle" /\ decoding' = decoding
      /\ acknowledge' = FALSE /\ preempt_in_progress' = FALSE
      /\ pending' = NoThread /\ saved' = saved
  BY DEF StayIdle, Holds, Decoder, NoWrite
<1>2. /\ thread_running' = thread_running /\ running' = FALSE
      /\ cooperative' = cooperative /\ round_robin' = round_robin
      /\ wanted' \in [Threads -> BOOLEAN] /\ thread' \in Numbers
  BY <1>1, IdleRequest, ScheduleStep
<1>3. \A t \in Threads : Suspended(t)' <=> Suspended(t)
  BY <1>1, <1>2 DEF Suspended
<1>4. TypeOK'
  BY <1>1, <1>2, IdleRequest DEF IInv, TypeOK
<1>5. ThreadNesting' /\ ContextKept'
  BY <1>1, <1>2, <1>3 DEF IInv, ThreadNesting, ContextKept
<1>6. DecoderAgrees' /\ DecoderStates' /\ AcknowledgeFits'
  BY <1>1, <1>2 DEF DecoderAgrees, DecoderStates, AcknowledgeFits
<1>7. RequestFits'
  BY <1>1, <1>2, IdleRequest DEF RequestFits, Fresh, Top, Started
<1>8. NoPreemption'
  BY <1>1, <1>2, <1>3 DEF IInv, NoPreemption
<1> QED
  BY <1>4, <1>5, <1>6, <1>7, <1>8 DEF IInv

\* The decoder takes up the request, which fits the threads that wait.
LEMMA StartIInv == IInv /\ (StartThread \/ ResumeThread) => IInv'
<1> SUFFICES ASSUME IInv, StartThread \/ ResumeThread PROVE IInv'
  OBVIOUS
<1>1. /\ op_state = "idle" /\ request.valid /\ Scheduler(FALSE)
      /\ op_state' \in {"native", "emulate", "resume"} /\ decoding' = request.thread
      /\ acknowledge' = TRUE /\ preempt_in_progress' = FALSE
      /\ pending' = NoThread /\ saved' = saved
  BY DEF StartThread, ResumeThread, Decoder, NoWrite, Mode
<1>2. /\ thread_running' = thread_running /\ running' = FALSE
      /\ cooperative' = cooperative /\ round_robin' = round_robin
      /\ wanted' \in [Threads -> BOOLEAN] /\ thread' \in Numbers
      /\ request' \in Request /\ (request'.valid => request'.thread \in Threads)
      /\ request'.thread = decoding'
  BY <1>1, IdleRequest, ScheduleStep
<1>3. decoding' \in Threads
  BY <1>1 DEF IInv, TypeOK
<1>4. AcknowledgeFits'
  BY <1>1, <1>2 DEF IInv, RequestFits, AcknowledgeFits, Fresh, Top, Started
<1>5. TypeOK'
  BY <1>1, <1>2, <1>3, ThreadNumbers DEF IInv, TypeOK, OpStates
<1>6. \A t \in Threads : Suspended(t)' => Suspended(t) /\ Level(t) < Level(decoding')
  BY <1>1, <1>2, <1>4 DEF Suspended, AcknowledgeFits, Fresh, Top, Started
<1>7. ThreadNesting' /\ ContextKept'
  BY <1>1, <1>2, <1>6 DEF IInv, ThreadNesting, ContextKept
<1>8. DecoderAgrees' /\ DecoderStates' /\ RequestFits'
  BY <1>1, <1>2 DEF DecoderAgrees, DecoderStates, RequestFits
<1>9. NoPreemption'
  BY <1>1, <1>2, <1>6 DEF IInv, NoPreemption
<1> QED
  BY <1>4, <1>5, <1>7, <1>8, <1>9 DEF IInv

\* The scheduler sees the acknowledge: the thread now counts as started.
LEMMA AcknowledgedIInv == IInv /\ acknowledge /\ (RestoreFlags \/ Run) => IInv'
<1> SUFFICES ASSUME IInv, acknowledge, RestoreFlags \/ Run PROVE IInv'
  OBVIOUS
<1>1. /\ op_state # "idle" /\ Scheduler(FALSE) /\ pending = NoThread
      /\ op_state' \in {"native", "emulate"} /\ decoding' = decoding
      /\ acknowledge' = FALSE /\ preempt_in_progress' = FALSE
      /\ pending' = NoThread /\ saved' = saved
      /\ decoding \in Threads /\ ~preempt_in_progress
  BY DEF RestoreFlags, Run, Holds, Decoder, NoWrite, Mode, Executing, IInv, DecoderStates, TypeOK
<1>2. \A t \in Threads : t # pending
  BY <1>1, ThreadNumbers
<1>3. /\ thread_running' \in [Threads -> BOOLEAN]
      /\ \A t \in Threads : thread_running'[t] = (thread_running[t] \/ t = decoding)
      /\ running' = TRUE /\ thread' = decoding
      /\ cooperative' = cooperative /\ round_robin' = round_robin
      /\ wanted' \in [Threads -> BOOLEAN]
  BY <1>1, <1>2, ScheduleStep
<1>4. request' \in Request /\ ~request'.valid
  <2>1. request' = NextRequest(acknowledge, preempt_in_progress)
    BY <1>1, ScheduleStep
  <2>2. acknowledge \in BOOLEAN /\ preempt_in_progress \in BOOLEAN /\ TypeOK
    BY DEF IInv, TypeOK
  <2> QED
    BY <1>1, <2>1, <2>2, RequestStep
<1>5. \A t \in Threads : Suspended(t)' <=> Suspended(t)
  BY <1>1, <1>3 DEF Suspended
<1>6. TypeOK'
  BY <1>1, <1>3, <1>4, ThreadNumbers DEF IInv, TypeOK, OpStates
<1>7. \A t \in Threads : thread_running[t] /\ t # decoding => Level(t) < Level(decoding)
  BY DEF IInv, AcknowledgeFits, Fresh, Top, Started
<1>8. ThreadNesting'
  <2>1. \A t, u \in Threads :
            thread_running'[t] /\ thread_running'[u] /\ Level(t) = Level(u) => t = u
    BY <1>1, <1>3, <1>7, ThreadNumbers DEF IInv, ThreadNesting
  <2> QED
    BY <1>1, <1>5, <2>1 DEF IInv, ThreadNesting
<1>9. ContextKept' /\ NoPreemption'
  BY <1>1, <1>3, <1>4, <1>5 DEF IInv, ContextKept, NoPreemption
<1>10. DecoderAgrees' /\ DecoderStates' /\ RequestFits' /\ AcknowledgeFits'
  BY <1>1, <1>3, <1>4 DEF DecoderAgrees, DecoderStates, RequestFits, AcknowledgeFits
<1> QED
  BY <1>6, <1>8, <1>9, <1>10 DEF IInv

\* The thread runs on, is asked to make way, or waits for its block-all
\* instruction; a write may stop a thread that waits.
LEMMA RunningIInv ==
    IInv /\ ~acknowledge /\ (Run \/ StartPreempt \/ InsertBlock \/ WaitForBlock) => IInv'
<1> SUFFICES ASSUME IInv, ~acknowledge, Run \/ StartPreempt \/ InsertBlock \/ WaitForBlock
             PROVE  IInv'
  OBVIOUS
<1>1. /\ op_state # "idle" /\ Scheduler(FALSE)
      /\ op_state' \in {"native", "emulate", "preempt_start", "preempt_wait"}
      /\ decoding' = decoding /\ acknowledge' = FALSE
      /\ preempt_in_progress' \in BOOLEAN
      /\ preempt_in_progress' <=> op_state' \in {"preempt_start", "preempt_wait"}
      /\ preempt_in_progress' => preempt_in_progress \/ request.valid
      /\ pending' \in {NoThread} \cup Written /\ saved' = saved
      /\ decoding \in Threads
      /\ running /\ thread = decoding /\ thread_running[decoding]
  BY DEF Run, StartPreempt, InsertBlock, WaitForBlock, Holds, Decoder, NoWrite, MayWrite,
         IInv, DecoderStates, DecoderAgrees, TypeOK
<1>2. \A t \in Threads :
          thread_running'[t] = (thread_running[t] /\ ~(t = pending /\ t # decoding))
  BY <1>1, RunningRequest
<1>3. /\ thread_running' \in [Threads -> BOOLEAN]
      /\ running' = TRUE /\ thread' = decoding
      /\ cooperative' = cooperative /\ round_robin' = round_robin
      /\ wanted' \in [Threads -> BOOLEAN] /\ thread' \in Numbers
  BY <1>1, ScheduleStep
<1>4. /\ request' \in Request /\ (request'.valid => request'.thread \in Threads)
      /\ request.valid \/ request'.valid \/ preempt_in_progress =>
            /\ request'.thread \in Threads
            /\ ~request'.resuming
            /\ ~thread_running'[request'.thread]
            /\ \A u \in Started' : Level(u) < Level(request'.thread)
      /\ round_robin => ~request'.valid
  BY <1>1, RunningRequest
<1>5. \A t \in Threads : Suspended(t)' => Suspended(t)
  BY <1>1, <1>2 DEF Suspended
<1>6. TypeOK'
  BY <1>1, <1>3, <1>4, ThreadNumbers, ModeAssumption DEF IInv, TypeOK, OpStates
<1>7. ThreadNesting'
  BY <1>1, <1>2, <1>5 DEF IInv, ThreadNesting
<1>8. ContextKept'
  BY <1>1, <1>5 DEF IInv, ContextKept
<1>9. NoPreemption'
  BY <1>1, <1>3, <1>4, <1>5 DEF IInv, NoPreemption, RequestFits
<1>10. RequestFits'
  BY <1>1, <1>4 DEF RequestFits, Fresh
<1>11. DecoderAgrees' /\ DecoderStates' /\ AcknowledgeFits'
  BY <1>1, <1>2, <1>3 DEF DecoderAgrees, DecoderStates, AcknowledgeFits
<1> QED
  BY <1>6, <1>7, <1>8, <1>9, <1>10, <1>11 DEF IInv

\* The thread that ran is no longer started; those that wait are of lower levels.
LEMMA DescheduleIInv == IInv /\ DescheduleThread => IInv'
<1> SUFFICES ASSUME IInv, DescheduleThread PROVE IInv'
  OBVIOUS
<1>1. /\ op_state \in {"native", "emulate"} /\ ~acknowledge /\ Scheduler(TRUE)
      /\ op_state' = "idle" /\ decoding' = decoding
      /\ acknowledge' = FALSE /\ preempt_in_progress' = FALSE
      /\ pending' = NoThread /\ saved' = saved
      /\ decoding \in Threads
      /\ thread_running[decoding] /\ ~preempt_in_progress
  BY DEF DescheduleThread, Executing, Holds, Decoder, NoWrite, IInv, DecoderStates,
         DecoderAgrees, TypeOK
<1>2. \A t \in Threads :
          thread_running'[t] = (thread_running[t] /\ t # decoding /\ t # pending)
  <2>1. \A t \in Threads :
            thread_running'[t] =
               /\ thread_running[t]
               /\ ~(TRUE /\ t = decoding)
               /\ ~(t = pending /\ t # decoding)
    BY <1>1, RunningRequest
  <2> QED
    BY <2>1
<1>3. /\ thread_running' \in [Threads -> BOOLEAN]
      /\ running' = FALSE /\ thread' \in Numbers
      /\ cooperative' = cooperative /\ round_robin' = round_robin
      /\ wanted' \in [Threads -> BOOLEAN]
  BY <1>1, ScheduleStep
<1>4. /\ request' \in Request /\ (request'.valid => request'.thread \in Threads)
      /\ request'.valid =>
            /\ ~request'.resuming
            /\ ~thread_running'[request'.thread]
            /\ \A u \in Started' : Level(u) < Level(request'.thread)
      /\ round_robin => ~request'.valid
  BY <1>1, RunningRequest
<1>5. \A t \in Threads : Suspended(t)' => Suspended(t)
  BY <1>1, <1>2 DEF Suspended
<1>6. TypeOK'
  BY <1>1, <1>3, <1>4, ThreadNumbers DEF IInv, TypeOK, OpStates
<1>7. ThreadNesting'
  BY <1>1, <1>2, <1>5 DEF IInv, ThreadNesting
<1>8. ContextKept' /\ NoPreemption'
  BY <1>1, <1>3, <1>5 DEF IInv, ContextKept, NoPreemption
<1>9. RequestFits'
  BY <1>1, <1>4 DEF RequestFits, Fresh
<1>10. DecoderAgrees' /\ DecoderStates' /\ AcknowledgeFits'
  BY <1>1, <1>3 DEF DecoderAgrees, DecoderStates, AcknowledgeFits
<1> QED
  BY <1>6, <1>7, <1>8, <1>9, <1>10 DEF IInv

\* The thread that ran joins those that wait, with its context saved, and one of
\* a higher level takes its place.
LEMMA SwitchIInv == IInv /\ SwitchThread => IInv'
<1> SUFFICES ASSUME IInv, SwitchThread PROVE IInv'
  OBVIOUS
<1>1. /\ op_state = "preempt_wait" /\ preempt_in_progress /\ ~acknowledge
      /\ Scheduler(FALSE)
      /\ op_state' \in {"native", "emulate"} /\ decoding' = request.thread
      /\ acknowledge' = TRUE /\ preempt_in_progress' = FALSE
      /\ pending' = NoThread
      /\ saved' = [saved EXCEPT ![Slot(decoding)] = decoding]
      /\ decoding \in Threads
      /\ running /\ thread = decoding /\ thread_running[decoding]
      /\ ~round_robin
  BY DEF SwitchThread, Decoder, NoWrite, Mode, IInv, DecoderStates, DecoderAgrees, TypeOK,
         NoPreemption
<1>2. /\ \A t \in Threads :
            thread_running'[t] = (thread_running[t] /\ ~(t = pending /\ t # decoding))
      /\ request' = request
      /\ request.thread \in Threads /\ Fresh(request.thread)
      /\ ~thread_running'[request'.thread]
      /\ \A u \in Started' : Level(u) < Level(request'.thread)
  BY <1>1, RunningRequest
<1>3. /\ thread_running' \in [Threads -> BOOLEAN]
      /\ running' = TRUE /\ thread' = decoding
      /\ cooperative' = cooperative /\ round_robin' = round_robin
      /\ wanted' \in [Threads -> BOOLEAN] /\ thread' \in Numbers
  BY <1>1, ScheduleStep
<1>4. AcknowledgeFits'
  BY <1>1, <1>2 DEF AcknowledgeFits, Fresh
<1>5. \A t \in Threads : Suspended(t)' => /\ Suspended(t) \/ t = decoding
                                          /\ Level(t) < Level(decoding')
  BY <1>1, <1>2 DEF Suspended, Started
<1>6. TypeOK'
  BY <1>1, <1>2, <1>3, ThreadNumbers DEF IInv, TypeOK, OpStates, Slot
<1>7. ThreadNesting'
  <2>1. Level(decoding') \in 0..2 /\ \A t \in Threads : Level(t) \in 0..2
    BY <1>1, <1>2, ThreadNumbers
  <2>2. \A t \in Threads : Suspended(t)' => Level(t) < 2
    BY <1>5, <2>1
  <2> QED
    BY <1>1, <1>2, <1>5, <2>2 DEF IInv, ThreadNesting
<1>8. ContextKept'
  <2> SUFFICES ASSUME NEW t \in Threads, Suspended(t)'
               PROVE  saved'[Slot(t)] = t
    BY DEF ContextKept
  <2>1. /\ saved \in [{"l", "m"} -> Threads \cup {NoThread}]
        /\ Slot(decoding) \in {"l", "m"} /\ Slot(t) \in {"l", "m"}
    BY DEF IInv, TypeOK, Slot
  <2>2. CASE t = decoding
    BY <1>1, <2>1, <2>2
  <2>3. CASE t # decoding
    <3>1. Suspended(t) /\ saved[Slot(t)] = t
      BY <1>5, <2>3 DEF IInv, ContextKept
    <3>2. Level(t) < Level(decoding) /\ Level(decoding) < Level(decoding')
      BY <1>1, <1>2, <3>1 DEF IInv, ThreadNesting, Fresh, Started
    <3>3. Slot(t) = "l" /\ Slot(decoding) = "m"
      BY <1>1, <1>2, <3>2, ThreadNumbers DEF Slot
    <3> QED
      BY <1>1, <2>1, <3>1, <3>3
  <2> QED
    BY <2>2, <2>3
<1>9. DecoderAgrees' /\ DecoderStates' /\ RequestFits' /\ NoPreemption'
  BY <1>1, <1>2, <1>3 DEF DecoderAgrees, DecoderStates, RequestFits, NoPreemption
<1> QED
  BY <1>4, <1>6, <1>7, <1>8, <1>9 DEF IInv

\* Semaphores decide only what is chosen next.
LEMMA SemaphoreIInv == IInv /\ (\E t \in Threads : Post(t) \/ Consume(t)) => IInv'
<1> SUFFICES ASSUME IInv, NEW t \in Threads, Post(t) \/ Consume(t) PROVE IInv'
  OBVIOUS
<1>1. /\ UNCHANGED <<thread_running, thread, running, request, cooperative, round_robin>>
      /\ UNCHANGED decVars
      /\ wanted' \in [Threads -> BOOLEAN]
  BY DEF Post, Consume, IInv, TypeOK
<1>2. TypeOK'
  BY <1>1 DEF IInv, TypeOK, decVars
<1>3. ThreadNesting' /\ ContextKept' /\ NoPreemption'
  BY <1>1 DEF IInv, ThreadNesting, ContextKept, NoPreemption, Suspended, decVars
<1>4. DecoderAgrees' /\ DecoderStates' /\ RequestFits' /\ AcknowledgeFits'
  BY <1>1 DEF IInv, DecoderAgrees, DecoderStates, RequestFits, AcknowledgeFits, Fresh, Top,
              Started, decVars
<1> QED
  BY <1>2, <1>3, <1>4 DEF IInv

LEMMA NextIInv == IInv /\ [Next]_vars => IInv'
<1> SUFFICES ASSUME IInv, [Next]_vars PROVE IInv'
  OBVIOUS
<1>1. CASE StayIdle
  BY <1>1, StayIdleIInv
<1>2. CASE StartThread \/ ResumeThread
  BY <1>2, StartIInv
<1>3. CASE RestoreFlags
  <2>1. acknowledge
    BY <1>3 DEF RestoreFlags, IInv, DecoderStates
  <2> QED
    BY <1>3, <2>1, AcknowledgedIInv
<1>4. CASE Run
  BY <1>4, AcknowledgedIInv, RunningIInv
<1>5. CASE DescheduleThread
  BY <1>5, DescheduleIInv
<1>6. CASE StartPreempt \/ InsertBlock \/ WaitForBlock
  <2>1. ~acknowledge
    BY <1>6 DEF StartPreempt, InsertBlock, WaitForBlock, IInv, DecoderStates
  <2> QED
    BY <1>6, <2>1, RunningIInv
<1>7. CASE SwitchThread
  BY <1>7, SwitchIInv
<1>8. CASE \E t \in Threads : Post(t) \/ Consume(t)
  BY <1>8, SemaphoreIInv
<1>9. CASE UNCHANGED vars
  BY <1>9 DEF vars, schedVars, decVars, IInv, TypeOK, ThreadNesting, DecoderAgrees, ContextKept,
              DecoderStates, RequestFits, AcknowledgeFits, NoPreemption, Suspended, Fresh, Top,
              Started
<1> QED
  BY <1>1, <1>2, <1>3, <1>4, <1>5, <1>6, <1>7, <1>8, <1>9 DEF Next, Clock

LEMMA Invariance == Spec => []IInv
BY InitIInv, NextIInv, PTL DEF Spec
-------------------------------------------------------------------------------
\* Registers of scheduler and decoder (gip_scheduler.cdl, gip_decode.cdl) stay in
\* range, whichever threads are used, native and written.
THEOREM ThreadsTypeCorrect == Spec => []TypeOK
<1>1. IInv => TypeOK
  BY DEF IInv
<1> QED
  BY <1>1, Invariance, PTL

\* The scheduler never lets two threads of a level be started at once, nor one run
\* that is not of a higher level than all that wait.
THEOREM ThreadsNest == Spec => []ThreadNesting
<1>1. IInv => ThreadNesting
  BY DEF IInv
<1> QED
  BY <1>1, Invariance, PTL

\* Scheduler and decoder agree on the thread that runs, but for the clock of the
\* acknowledge.
THEOREM SchedulerAndDecoderAgree == Spec => []DecoderAgrees
<1>1. IInv => DecoderAgrees
  BY DEF IInv
<1> QED
  BY <1>1, Invariance, PTL

\* The two pairs of preempted_* registers of gip_special.cdl are enough for the
\* contexts of all the threads that can wait at once.
THEOREM ContextsAreKept == Spec => []ContextKept
<1>1. IInv => ContextKept
  BY DEF IInv
<1> QED
  BY <1>1, Invariance, PTL

\* The decoder may act clocks after a request was composed: a thread resumed is
\* still waiting then, and one started afresh is not.
THEOREM ResumesOnlyWhatWaits == Spec => ResumesWhatWaits
<1> DEFINE Fits ==
       /\ op_state = "idle" /\ op_state' = "resume" =>
             thread_running[decoding'] /\ pending # decoding'
       /\ acknowledge' /\ op_state' # "resume" => ~Suspended(decoding')
<1>1. IInv /\ [Next]_vars => [Fits]_vars
  <2> SUFFICES ASSUME IInv, Next PROVE Fits
    OBVIOUS
  <2>1. CASE StartThread \/ ResumeThread
    <3>1. /\ op_state = "idle" /\ request.valid /\ decoding' = request.thread
          /\ decoding' \in Threads /\ pending # decoding'
      BY <2>1, ThreadNumbers
         DEF StartThread, ResumeThread, Decoder, IInv, TypeOK, DecoderStates
    <3> QED
      BY <2>1, <3>1 DEF StartThread, ResumeThread, Decoder, Mode, IInv, RequestFits, Fresh,
                        Top, Suspended
  <2>2. CASE SwitchThread
    BY <2>2 DEF SwitchThread, Decoder, Mode, IInv, DecoderStates, RequestFits, Fresh, Suspended
  <2>3. CASE StayIdle \/ RestoreFlags \/ Run \/ DescheduleThread \/ StartPreempt
                \/ InsertBlock \/ WaitForBlock
    BY <2>3 DEF StayIdle, RestoreFlags, Run, DescheduleThread, StartPreempt, InsertBlock,
                WaitForBlock, Holds, Decoder, Mode
  <2>4. CASE \E t \in Threads : Post(t) \/ Consume(t)
    BY <2>4 DEF Post, Consume, decVars, IInv, DecoderAgrees, Suspended
  <2> QED
    BY <2>1, <2>2, <2>3, <2>4 DEF Next, Clock
<1> QED
  BY <1>1, Invariance, PTL DEF Spec, ResumesWhatWaits

\* A request that stands, or that the decoder is preempting for, does not change.
THEOREM RequestsAreStable == Spec => RequestStable
<1> DEFINE Stands ==
       (request.valid /\ request'.valid) \/ preempt_in_progress =>
          request'.thread = request.thread /\ request'.resuming = request.resuming
<1>1. IInv /\ [Next]_vars => [Stands]_vars
  <2> SUFFICES ASSUME IInv, Next PROVE Stands
    OBVIOUS
  <2>1. CASE Clock
    <3>1. request' = NextRequest(acknowledge, preempt_in_progress)
      BY <2>1 DEF Clock, StayIdle, StartThread, ResumeThread, RestoreFlags, Run,
                  DescheduleThread, StartPreempt, InsertBlock, WaitForBlock, SwitchThread,
                  Scheduler, Schedule
    <3>2. acknowledge \in BOOLEAN /\ preempt_in_progress \in BOOLEAN /\ TypeOK
      BY DEF IInv, TypeOK
    <3> QED
      BY <3>1, <3>2, RequestStep
  <2>2. CASE \E t \in Threads : Post(t) \/ Consume(t)
    BY <2>2 DEF Post, Consume
  <2> QED
    BY <2>1, <2>2 DEF Next
<1> QED
  BY <1>1, Invariance, PTL DEF Spec, RequestStable
===============================================================================
