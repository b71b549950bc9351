------------------------------ MODULE EgressFifos ------------------------------
(***************************************************************************)
(* units/io/io_egress_fifos.cdl: the pointers, flags and events of the     *)
(* transmit data FIFOs and command FIFOs of the I/O block, together with   *)
(* the contents their pointers address in the egress SRAM of io_block.cdl. *)
(*                                                                         *)
(* One step is one clock edge at which fifo_op is not io_fifo_op_none.     *)
(* A transmit FIFO (the code's dfifo) keeps a commit pointer and a         *)
(* watermark flag; a command FIFO (sfifo) keeps neither: the code presents *)
(* its read pointer as its commit pointer and a watermark of zero.  Both   *)
(* are one record here, the fields a command FIFO lacks held at the values *)
(* the code reads for them.  An entry of a command FIFO is the pair of     *)
(* words (time, command).  Base addresses are abstracted: each FIFO has    *)
(* its own part of the SRAM, indexed by the pointer, as it does whenever   *)
(* software gives the FIFOs disjoint regions.                              *)
(***************************************************************************)
EXTENDS Naturals, Sequences

CONSTANTS TxFifos,       \* the transmit data FIFOs
          CmdFifos,      \* the command FIFOs
          MaxSizeMOne,   \* largest size_m_one software configures
          Words          \* what one entry of the SRAM can hold

ASSUME FifoAssumption == TxFifos \cap CmdFifos = {} /\ MaxSizeMOne \in Nat

VARIABLES fifo,     \* sfifo_state and dfifo_state
          cfg,      \* sfifo_cfg and dfifo_cfg
          mem,      \* the part of the egress SRAM each FIFO owns
          sram_read_data,   \* the word the last SRAM read brought out
          fifo_op,  \* the operation the last clock edge performed, and on which FIFO
          event     \* the event registers: which FIFO, what changed

vars == <<fifo, cfg, mem, sram_read_data, fifo_op, event>>

Fifos == TxFifos \cup CmdFifos
Ptr == 0..MaxSizeMOne
FifoOps == {"none", "write_cfg", "reset", "inc_write_ptr", "inc_read_ptr",
            "inc_read_ptr_without_commit", "commit_read_ptr", "revert_read_ptr"}

\* The postbus side asks for a level event on the last word of a transaction
\* and for none before; the reads of the slots ask for edge events.
PostbusEvents == {"none", "level"}

FifoState == [read : Ptr, commit : Ptr, write : Ptr,
              empty : BOOLEAN, full : BOOLEAN, watermark : BOOLEAN,
              overflowed : BOOLEAN, underflowed : BOOLEAN]
FifoCfg == [size_m_one : Ptr, watermark : Ptr]
FifoEvent == [event : BOOLEAN, value : BOOLEAN]

Quiet == [event |-> FALSE, value |-> FALSE]

Zeroed == [read |-> 0, commit |-> 0, write |-> 0,
           empty |-> TRUE, full |-> FALSE, watermark |-> FALSE,
           overflowed |-> FALSE, underflowed |-> FALSE]
-------------------------------------------------------------------------------
(* Pointer arithmetic.  Definitions named Faulty... are seeded faults: TLC    *)
(* runs them in place of the definition they precede, to show that the        *)
(* properties below can fail; no part of Spec uses them.                      *)

FaultyNextPtr(p, c) == IF p > c.size_m_one THEN 0 ELSE p + 1

NextPtr(p, c) == IF p = c.size_m_one THEN 0 ELSE p + 1

\* next_entries: how far `to` is ahead of `from` in the ring.
Entries(from, to, c) ==
    IF to < from THEN (to + c.size_m_one + 1) - from ELSE to - from

\* Fault: full measured from the read pointer instead of the commit pointer.
FaultyMoved(s, c, read, commit, write) ==
    [read |-> read, commit |-> commit, write |-> write,
     empty |-> write = read,
     full |-> Entries(read, write, c) = c.size_m_one,
     watermark |-> Entries(commit, write, c) > c.watermark,
     overflowed |-> s.overflowed, underflowed |-> s.underflowed]

\* count_entries: the pointers move to the given values and the flags follow.
Moved(s, c, read, commit, write) ==
    [read |-> read, commit |-> commit, write |-> write,
     empty |-> write = read,
     full |-> Entries(commit, write, c) = c.size_m_one,
     watermark |-> Entries(commit, write, c) > c.watermark,
     overflowed |-> s.overflowed, underflowed |-> s.underflowed]

\* A command FIFO stores neither a commit pointer nor a watermark flag.
Stored(f, s) ==
    IF f \in CmdFifos THEN [s EXCEPT !.commit = s.read, !.watermark = FALSE]
                      ELSE s

\* next_fifo: what each pointer operation makes of the selected FIFO.
IncWrite(s, c) ==
    IF s.full
    THEN [Moved(s, c, s.read, s.commit, s.write) EXCEPT !.overflowed = TRUE]
    ELSE Moved(s, c, s.read, s.commit, NextPtr(s.write, c))

\* Faults: a read of an empty FIFO still advances; a revert that leaves the
\* words it should replay behind.
FaultyIncRead(s, c, commit) ==
    LET next == NextPtr(s.read, c)
    IN  [Moved(s, c, next, IF commit THEN next ELSE s.commit, s.write)
            EXCEPT !.underflowed = s.underflowed \/ s.empty]

FaultyRevertRead(s, c) == Moved(s, c, s.read, s.commit, s.write)

IncRead(s, c, commit) ==
    IF s.empty
    THEN [Moved(s, c, s.read, s.commit, s.write) EXCEPT !.underflowed = TRUE]
    ELSE LET next == NextPtr(s.read, c)
         IN  Moved(s, c, next, IF commit THEN next ELSE s.commit, s.write)

CommitRead(s, c) == Moved(s, c, s.read, s.read, s.write)

RevertRead(s, c) == Moved(s, c, s.commit, s.commit, s.write)
-------------------------------------------------------------------------------
(* Clock edges *)

Init ==
    /\ fifo = [f \in Fifos |-> Zeroed]
    /\ cfg = [f \in Fifos |-> [size_m_one |-> 0, watermark |-> 0]]
    /\ mem \in [Fifos -> [Ptr -> Words]]
    /\ sram_read_data \in Words
    /\ fifo_op \in [op : {"none"}, fifo : Fifos]
    /\ event \in [fifo : Fifos, empty : {Quiet}, watermark : {Quiet}]

Performs(op, f) == fifo_op' = [op |-> op, fifo |-> f]

Silent(e) == [event |-> FALSE, value |-> e.value]

NoEvent == event' = [fifo |-> event.fifo, empty |-> Silent(event.empty),
                     watermark |-> Silent(event.watermark)]

\* set_flags: the flags computed for f replace its old ones and are reported.
SetFlags(f, s, type) ==
    /\ fifo' = [fifo EXCEPT ![f] = Stored(f, s)]
    /\ event' = IF type = "none"
                THEN [fifo |-> f, empty |-> Silent(event.empty),
                      watermark |-> Silent(event.watermark)]
                ELSE [fifo |-> f,
                      empty |-> [event |-> type = "level" \/ s.empty # fifo[f].empty,
                                 value |-> s.empty],
                      watermark |-> [event |-> type = "level"
                                                 \/ s.watermark # fifo[f].watermark,
                                     value |-> s.watermark]]

WriteCfg(f) ==
    /\ Performs("write_cfg", f)
    /\ fifo' = [fifo EXCEPT ![f] = Zeroed]
    /\ \E size, mark \in Ptr :
          cfg' = [cfg EXCEPT ![f] =
                    [size_m_one |-> size,
                     watermark |-> IF f \in CmdFifos THEN 0 ELSE mark]]
    /\ NoEvent
    /\ UNCHANGED <<mem, sram_read_data>>

Reset(f) ==
    /\ Performs("reset", f)
    /\ fifo' = [fifo EXCEPT ![f] = Zeroed]
    /\ NoEvent
    /\ UNCHANGED <<cfg, mem, sram_read_data>>

\* Fault: the SRAM address is taken after the pointer has moved.
FaultyIncWritePtr(f, w, type) ==
    /\ Performs("inc_write_ptr", f)
    /\ SetFlags(f, IncWrite(fifo[f], cfg[f]), type)
    /\ mem' = [mem EXCEPT ![f][NextPtr(fifo[f].write, cfg[f])] = w]
    /\ UNCHANGED <<cfg, sram_read_data>>

\* The SRAM is written at the write pointer whether or not the FIFO is full.
IncWritePtr(f, w, type) ==
    /\ Performs("inc_write_ptr", f)
    /\ SetFlags(f, IncWrite(fifo[f], cfg[f]), type)
    /\ mem' = [mem EXCEPT ![f][fifo[f].write] = w]
    /\ UNCHANGED <<cfg, sram_read_data>>

\* Every operation of the read side also reads the SRAM at the read pointer.
ReadSram(f) == sram_read_data' = mem[f][fifo[f].read]

IncReadPtr(f, type) ==
    /\ Performs("inc_read_ptr", f)
    /\ SetFlags(f, IncRead(fifo[f], cfg[f], TRUE), type)
    /\ ReadSram(f)
    /\ UNCHANGED <<cfg, mem>>

\* Only the transmit side reads ahead, commits and reverts.
IncReadPtrWithoutCommit(f, type) ==
    /\ Performs("inc_read_ptr_without_commit", f)
    /\ SetFlags(f, IncRead(fifo[f], cfg[f], FALSE), type)
    /\ ReadSram(f)
    /\ UNCHANGED <<cfg, mem>>

CommitReadPtr(f, type) ==
    /\ Performs("commit_read_ptr", f)
    /\ SetFlags(f, CommitRead(fifo[f], cfg[f]), type)
    /\ ReadSram(f)
    /\ UNCHANGED <<cfg, mem>>

RevertReadPtr(f, type) ==
    /\ Performs("revert_read_ptr", f)
    /\ SetFlags(f, RevertRead(fifo[f], cfg[f]), type)
    /\ ReadSram(f)
    /\ UNCHANGED <<cfg, mem>>

Operate(f) ==
    \/ WriteCfg(f)
    \/ Reset(f)
    \/ \E w \in Words, type \in PostbusEvents : IncWritePtr(f, w, type)
    \/ \E type \in PostbusEvents \cup {"edge"} : IncReadPtr(f, type)
    \/ /\ f \in TxFifos
       /\ \/ IncReadPtrWithoutCommit(f, "edge")
          \/ CommitReadPtr(f, "edge")
          \/ RevertReadPtr(f, "edge")

Next == \E f \in Fifos : Operate(f)

Spec == Init /\ [][Next]_vars
-------------------------------------------------------------------------------
(* Properties *)

\* Every register of the module stays in its range: in particular no pointer
\* leaves the configured ring, whatever order operations arrive in.
TypeOK ==
    /\ fifo \in [Fifos -> FifoState]
    /\ cfg \in [Fifos -> FifoCfg]
    /\ mem \in [Fifos -> [Ptr -> Words]]
    /\ sram_read_data \in Words
    /\ fifo_op \in [op : FifoOps, fifo : Fifos]
    /\ event \in [fifo : Fifos, empty : FifoEvent, watermark : FifoEvent]

Uncommitted(f) == Entries(fifo[f].commit, fifo[f].write, cfg[f])
ReadAhead(f) == Entries(fifo[f].commit, fifo[f].read, cfg[f])
Unread(f) == Entries(fifo[f].read, fifo[f].write, cfg[f])

\* Around the ring the read pointer always lies between the commit pointer and
\* the write pointer, so the words read ahead and the words still unread make
\* up the words uncommitted; a FIFO never holds more than size_m_one of them.
PointersInOrder ==
    \A f \in Fifos :
        /\ fifo[f].read <= cfg[f].size_m_one
        /\ fifo[f].commit <= cfg[f].size_m_one
        /\ fifo[f].write <= cfg[f].size_m_one
        /\ ReadAhead(f) + Unread(f) = Uncommitted(f)

\* The registered flags, which other blocks act on a cycle later, agree with
\* the registered pointers.  A FIFO that was never given a size reports itself
\* both empty and full once it is written to.
FlagsAgree ==
    \A f \in Fifos :
        /\ fifo[f].empty <=> fifo[f].read = fifo[f].write
        /\ fifo[f].full => Uncommitted(f) = cfg[f].size_m_one
        /\ Uncommitted(f) = cfg[f].size_m_one /\ cfg[f].size_m_one > 0 => fifo[f].full
        /\ f \in TxFifos => (fifo[f].watermark <=> Uncommitted(f) > cfg[f].watermark)

At(f, i) ==
    LET p == fifo[f].commit + i
    IN  IF p > cfg[f].size_m_one THEN p - (cfg[f].size_m_one + 1) ELSE p

\* The words between commit and write pointer, oldest first.
Window(f) == [i \in 1..Uncommitted(f) |-> mem[f][At(f, i - 1)]]

\* No write, not even one that overflows, touches a word that is not yet
\* committed: the overflowing word lands in the entry the ring keeps spare.
UncommittedNeverOverwritten ==
    [][\A f \in Fifos : \A i \in 0..(Uncommitted(f) - 1) :
          mem'[f][At(f, i)] = mem[f][At(f, i)]]_vars

\* Each FIFO implements the contract of CommitFifo: words come out once, in
\* order, a revert replays exactly the uncommitted ones, and every refused
\* write and every read of nothing is recorded.
Contract(f) ==
    INSTANCE CommitFifo WITH
        MaxCapacity <- MaxSizeMOne,
        queue <- Window(f),
        taken <- ReadAhead(f),
        capacity <- cfg[f].size_m_one,
        lost <- fifo[f].overflowed,
        starved <- fifo[f].underflowed,
        answer <- sram_read_data,
        op <- IF fifo_op.fifo = f THEN fifo_op.op ELSE "none"

ImplementsCommitFifo ==
    /\ \A f \in Fifos : Contract(f)!Init
    /\ [][\A f \in Fifos : [Contract(f)!Next]_(Contract(f)!vars)]_vars
===============================================================================
