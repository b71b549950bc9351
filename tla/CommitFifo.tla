------------------------------ MODULE CommitFifo ------------------------------
(***************************************************************************)
(* What one egress FIFO of the I/O block promises to its two sides: a      *)
(* bounded queue whose reader may read ahead, then either commit what it   *)
(* has read (the words are gone) or revert (the same words come again).    *)
(* A write to a full queue is refused and recorded in lost; a read of a    *)
(* queue with nothing unread is recorded in starved.                       *)
(* This is the contract of units/io/io_egress_fifos.cdl with the SRAM that *)
(* units/io/io_block.cdl puts behind it; it says nothing of pointers.      *)
(***************************************************************************)
EXTENDS Naturals, Sequences

CONSTANTS Words,         \* what an entry can hold
          MaxCapacity    \* largest capacity a configuration can ask for

VARIABLES queue,      \* the uncommitted words, oldest first
          taken,      \* how many of them the reader has already read
          capacity,   \* words the queue may hold
          lost,       \* a write was refused since the last clear
          starved,    \* a read found nothing since the last clear
          answer,     \* the read bus: the word a read returned, valid until the next step
          op          \* the operation this queue was last asked for, or "none"

vars == <<queue, taken, capacity, lost, starved, answer, op>>

Cleared ==
    /\ queue' = <<>>
    /\ taken' = 0
    /\ lost' = FALSE
    /\ starved' = FALSE

Init ==
    /\ queue = <<>>
    /\ taken = 0
    /\ capacity = 0
    /\ lost = FALSE
    /\ starved = FALSE
    /\ answer \in Words
    /\ op = "none"

Configure ==
    /\ op' = "write_cfg"
    /\ Cleared
    /\ capacity' \in 0..MaxCapacity

Clear ==
    /\ op' = "reset"
    /\ Cleared
    /\ UNCHANGED capacity

Write(w) ==
    /\ op' = "inc_write_ptr"
    /\ Len(queue) < capacity
    /\ queue' = Append(queue, w)
    /\ UNCHANGED <<taken, capacity, lost, starved>>

\* A queue that was never configured has no room; the first word sent to it
\* disappears with or without a trace.
Refuse ==
    /\ op' = "inc_write_ptr"
    /\ Len(queue) = capacity
    /\ lost' \in IF capacity = 0 THEN {lost, TRUE} ELSE {TRUE}
    /\ UNCHANGED <<queue, taken, capacity, starved>>

ReadOp(commit) ==
    op' = IF commit THEN "inc_read_ptr" ELSE "inc_read_ptr_without_commit"

Read(commit) ==
    /\ ReadOp(commit)
    /\ taken < Len(queue)
    /\ answer' = queue[taken + 1]
    /\ queue' = IF commit THEN SubSeq(queue, taken + 2, Len(queue)) ELSE queue
    /\ taken' = IF commit THEN 0 ELSE taken + 1
    /\ UNCHANGED <<capacity, lost, starved>>

Starve ==
    /\ \E commit \in BOOLEAN : ReadOp(commit)
    /\ taken = Len(queue)
    /\ starved' = TRUE
    /\ UNCHANGED <<queue, taken, capacity, lost>>

Commit ==
    /\ op' = "commit_read_ptr"
    /\ queue' = SubSeq(queue, taken + 1, Len(queue))
    /\ taken' = 0
    /\ UNCHANGED <<capacity, lost, starved>>

Revert ==
    /\ op' = "revert_read_ptr"
    /\ taken' = 0
    /\ UNCHANGED <<queue, capacity, lost, starved>>

\* Another queue is served, and has the shared read bus.
Elsewhere ==
    /\ op' = "none"
    /\ UNCHANGED <<queue, taken, capacity, lost, starved>>

Operation ==
    \/ Configure
    \/ Clear
    \/ \E w \in Words : Write(w)
    \/ Refuse
    \/ \E commit \in BOOLEAN : Read(commit)
    \/ Starve
    \/ Commit
    \/ Revert
    \/ Elsewhere

Next == answer' \in Words /\ Operation

Spec == Init /\ [][Next]_vars
===============================================================================
