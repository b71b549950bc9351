# Formal models of the GIP chip

The repository is the hardware of a multithreaded processor (the GIP), its
postbus interconnect and its I/O blocks, written in CDL (`units/`), with C++
models of the processor, drivers, regressions, FPGA builds and documentation
around it. The modules here model the parts whose correctness depends on the
order of clock edges, replies, writes and resets: the processor's pipeline, the
scheduler of its threads, the driver whose threads share the Ethernet's buffers,
the buffers between software and devices, the postbus fabrics and the timed
commands. Paths below
are relative to `design/repository/`.

Conventions. One step is normally one clock edge of a block, at which all its
registers move at once and every block reads what the others held before; a few
models let inputs (a semaphore, a word put out by a source) change between
edges. Data is abstracted to what the properties tell apart. A definition named
`Faulty...` is a seeded fault: it stands in for the definition it precedes to
show that a property can fail, and no specification uses it.

## Inventory

| component | state | operations | interacts with |
|---|---|---|---|
| egress FIFOs `units/io/io_egress_fifos.cdl` | per FIFO: read, commit, write pointer, flags; event registers | configure, reset, write, read, read ahead, commit, revert | egress control gives the operation; the SRAM is addressed by the pointers; events go to the event manager |
| egress control `io_egress_control.cdl` | arbiter state, FIFO to access, last operation | serve command timer > command data > transmit data > postbus | the four command machines, slots, postbus target, egress FIFOs |
| command machine and timer `io_egress_control_cmd_fsm.cdl`, `io_cmd_fifo_timer.cdl` | machine, timer, timestamp register | read time, wait, read command, give to slot, abort | egress control, system timer, slot head |
| I/O block `io_block.cdl` | SRAMs, `cmd_available_bus`, transmit requests, registers | routes all of the above | everything under `units/io` |
| slot head `io_slot_head.cdl` | toggle synchronisers, command and data registers, pending flags | command written/taken, data requests, receive and status requests | a device on one side, I/O block on the other |
| ingress FIFOs and control `io_ingress_fifos.cdl`, `io_ingress_control.cdl` | pointers, flags, arbiter | status > receive data > postbus | slots, postbus source |
| I/O postbus `io_postbus*.cdl` | target machine with holding register, source machine, arbiter, event table | write packets to FIFOs, read FIFOs into packets, react to events | postbus fabric, both FIFO controls |
| thread scheduler `units/gip/gip_scheduler.cdl` | running flags, thread, pending request | choose, request, acknowledge, deschedule, write pc | decoder, special registers |
| instruction decoder `gip_decode.cdl` | op state, decoded thread, preempted pc and flags | start, resume, preempt, deschedule, decode | scheduler, pipeline |
| special registers `gip_special.cdl` | semaphores and mask, thread selection, local events, preempted state | reads and writes by software, sets by hardware | scheduler, postbus |
| GIP postbus interface `gip_postbus.cdl` | receive and transmit FIFOs and machines | send packet, receive packet or signal | fabric, register file, semaphores |
| postbus router `units/postbus/postbus_simple_router.cdl` | connected source, target, first-word flag | arbitrate, route, acknowledge | 4 sources, 4 targets |
| input multiplexer `postbus_input_mux.cdl` | connected source, first-word flag | arbitrate, forward | sources, one fabric |
| register demultiplexer `postbus_register_demux.cdl` | two word buffers, their state, target | buffer, present, acknowledge | multiplexer, 4 targets |
| cycle-accurate processor `models/gip_cyc/src/c_gip_full.cpp` | decoder state, instruction and operands per stage, results to be written, accumulator, condition bit | each clock: decode, read with forwarding, execute, access memory, write back, flush | scheduler; memory |
| unpipelined processor `models/gip/c_gip_pipeline_single.cpp` | registers, accumulator, flags, memory | execute an instruction | - |
| Ethernet driver `regressions/arm/src/drivers/gipeth*` | two rings of buffers with ready and done, each thread's place in them, buffers in hand | transmit, interrupt handler, hardware thread: status, soft interrupt, transmit data | semaphores, event manager, Ethernet FIFOs, network |
| processor in CDL: pipeline, ALU, instruction decoders, memories `units/gip` | pipeline registers | data path | - |
| devices: UART, baud generator, serial, parallel, Ethernet, Utopia `units/io` | bit and frame machines | - | slots |
| APB peripherals `units/apb`, DDR `units/ddr`, analyzer | registers, sequencers | - | processor, postbus |
| other C++ models `models/`, regressions, test benches, emulation, `tools/serial_console` | - | simulation, builds, loading | - |

What is hard about them: nearly every handshake has a clock or more between a
decision and its effect (request and acknowledge in the scheduler, acknowledge
and operation in egress control, operation and flag in the FIFOs); sources and
targets pause at will; three stages of a pipeline write one register file; a
thread preempts another between any two stores; software may reset a FIFO or rewrite a thread's pc in any
clock; fixed priorities and shared buses raise the question who may starve.
`PROJECT.json` lists these hazards at their lines with the properties for them.

## What is modelled

**EgressFifos** (io_egress_fifos, with the SRAM of io_block). One action per
FIFO operation; a command FIFO is the same record with the commit pointer and
watermark it lacks held at the values the code reads. **CommitFifo** is the
abstract specification: a bounded queue whose reader reads ahead and commits or
reverts, with no pointers. `ImplementsCommitFifo` is the refinement, with the
ring between commit and write pointer as the queue.

**GipScheduler** is the scheduler as one parametrised clock edge; **GipThreads**
joins it with the thread control of the decoder (op states idle, resume,
native, emulate, preempt_start, preempt_wait) and with the special registers'
pc writes, which arrive a clock late. Semaphores are `wanted`: whether one that
the thread depends on is set. Instructions are what reaches these blocks.

**PostbusSources** is the bus protocol seen from the sources and the arbiter the
two fabrics share; **PostbusRouter** the combinatorial fabric; **PostbusMux**
and **PostbusDemux** the registered one, composed in **PostbusTree**.
**PostbusFabric** is the abstract specification of both: packets taken whole,
every word given once, in order, to its target, at most `Depth` words held.
The router implements it with depth 0, the tree with depth 2. A GIP source holds
each word out until it is acknowledged. An I/O source (`IoSources`) does so with all
but a last word that it shows from its output register
(io_postbus_source.cdl:403-411): `Refused` withdraws it after a clock without
acknowledge, and the next acknowledge drops it. `LateTargets` says whether targets
may keep such a word waiting beyond its second clock.

**GipIsa** executes an internal instruction as the unpipelined model does, on
abstract words: what a program means. **GipPipeline** is the back end of the
cycle-accurate model, one step a clock, with the calls of `comb`, `preclock` and
`clock` in their order and the decoder free to offer any instruction or none.
**GipCore** puts the native decoder in front and runs programs; an address names an
opcode, two share a word. Two history machines say what should happen: `isa`
executes each instruction as the ALU completes it, `seq` decodes one opcode at a
time. What is kept of the data is what moves and combines values (move, add,
subtract, load, store, compare, branch); what is kept of the control is every
wait, forwarding path, flush, blocked result and decoder bit they involve.

**GipEth** is the Ethernet driver. Its atomic steps are the stores of thread 0,
between any two of which the hardware thread may come in, and the handlers of the
hardware thread, which nothing preempts but the hardware it talks to: the MAC, its
FIFOs, the event manager and the postbus source are the environment. Buffers carry
sizes, not data. An event is pending until it is presented (`Present`); the event
manager's place is free again as soon as the postbus source takes the command
(`TakeCommand`), and the source's header waits with up to `Headers` - 1 others until
the postbus takes it and the semaphore is set (`SetSemaphore`). In the code these
are the pending request, three stages and the output register, five places. The
commands of the thread's own transfers share them and flush what went before, so
the model has more events under way than the code may.

**CommandTimer** is the quarter-at-a-time comparator, **CommandFsm** the command
machine around it with the FIFO as its number of entries (its contract is
CommitFifo's) and the slot as `available`. `until`, `near` and `overtaken` are
history variables that decide nothing. Resets, writes and reads over the postbus
(io_postbus_source.cdl:527-551 with `cmd_status`) may come in any clock but those in
which the SRAM serves the machine itself, as the egress controller performs one
operation a clock.

## Runs, and what they show

| run | instance | shows |
|---|---|---|
| egress_fifos | a transmit FIFO and a command FIFO, every size up to 4 entries and every watermark, 2 words | pointers stay in order around the ring, registered flags agree with them, no write reaches an uncommitted word, the queue contract holds, for both kinds |
| gip_threads | threads {0,2,3,5,6}, one native, pc of any rewritten, all four modes | at most one thread started per level, scheduler and decoder agree on who runs, preempted context is never overwritten, a resume finds its thread, a standing request does not change |
| gip_threads_live | threads {0,1,5} | round robin serves everyone, priority serves the highest, preempted threads resume |
| postbus_router | 3 sources, 2 targets, packets of 2 and 3 words, pauses, I/O sources whose last words are taken in time | routes held, fabric implemented, every packet taken |
| postbus_tree | 2 sources, 2 targets, packets of 1 to 3 words, no pauses, I/O sources whose last words are taken in time | fabric with two words of storage, target right for each word, every packet taken |
| command_timer | base 4, offsets -1, 2, 9 and immediate, FIFO of 1, resets and postbus reads in any clock | commands in reach of the comparator are neither early nor late, an empty FIFO is read by the machine only in one known window, no slot is overrun, nothing is stuck |
| gip_pipeline | 2 registers, words of 1 bit, 14 instructions in any order with any gaps | operands, registers and memory are those of one instruction at a time; a blocked result waits once |
| gip_core | 2 registers, words of 0 to 7, 8 addresses: four free opcodes of two sets of six and eight, then a fixed loop | nothing is executed behind a jump, left out or marked by what was flushed; the pc is written into an empty pipeline; never 7 clocks without an instruction |
| gipeth | rings of 2, packets of 1 and 4 units, frames of 1 and 2 blocks, bursts of 2, watermark 1, 2 statuses, 1 header queued | each ring keeps what is in it in order, no buffer is lost, no status goes unread, the transmit FIFO never holds more than Headers + 3 bursts past its watermark |

Four FIFO entries are enough for the read pointer, commit pointer and write
pointer to be all distinct, wrapped or not, with the spare entry; five threads
give a competing pair on both levels that can compete; a third source makes the
cyclic arbitration different from a toggle; base 4 is the smallest in which a
quarter has both a past and a future, and all 1024 phases of clock and segment
occur. 1-bit words tell a stale operand from a fresh one, as
all values of both registers occur with all instructions, and two registers a
dependence from none; four free opcodes are one more than the distance at which
an instruction of this pipeline can affect another. Rings of two wrap, fill and
empty; a packet of two bursts and one of less than a burst, a frame of two blocks
and one of one, let neighbours in a ring differ, so that an exchange or a mixture of
their contents is seen. A watermark below a burst lets an announcement be made while
a burst is being written, and grow stale: the bound of 9 units is reached in this
instance, and 10 are not. Its state space is bounded by the constraint
`InBounds`: until the first frame comes the client sends all it can; after that
there are two packets and frames at a time, any mix of them, and no step is taken
from a state with the FIFO above its watermark. `View` tells apart no two states that
differ only in what a free buffer was last used for. SYMMETRY is over FIFO words only.

The command FIFO is the record of a transmit FIFO without what it lacks, and
the run takes the one its operations are for, so one run covers both.

Three runs end in a violation, each of a statement of the repository:

- **gip_delay_slot**: the delay slot of a conditional branch is flushed when the
  branch is taken. The bit that would spare it is never set. gip_core therefore
  has no delayed branch in the shadow of a comparison.
- **gipeth_starved**: the hardware thread sleeps with a packet in hand and without
  the watermark semaphore among those that wake it, if its last wake was for a
  status or for a packet posted while it had one in hand.
- **demux_pause**: a word following a pause is acknowledged and lost by the
  demultiplexer. The tree is therefore checked with sources that do not pause.

The passing runs state the conditions under which each part works, and the
violations show them needed. Met while modelling and seen in earlier runs, but
without a run of their own now:

- the scheduler's request bus may change in a clock in which its valid bit does
  not rise, against the comment in gip_scheduler.cdl:95; harmless as the decoder
  uses the bus;
- after a one-word packet whose target is slow the router misroutes the source's
  next packet (`MultiWord` in the proofs; the router's run has packets of several
  words);
- an I/O source withdraws the last word of a packet that is not acknowledged in its
  second clock (`postbus_active` is cleared when the word is shown, acknowledged or
  not, and the word is only shown while it is set, io_postbus_source.cdl:403-411),
  where line 93 has the source keep "funnenling the data out through the postbus". The
  word is lost, the router stays connected, other sources wait, and this one's next
  packet goes down the old route. The fabrics' runs have `LateTargets` =
  FALSE; with TRUE in MCPostbusRouter.cfg TLC finds ImplementsFabric violated. The receiver of
  gip_postbus.cdl can keep a word waiting that long;
- a timestamp half a quarter (32 ticks) ahead within the same upper quarters
  counts as past, and a reset leaves the timer comparing, so that the next
  command is compared from the middle: `NearNotBefore` and `NearOnTime` are about
  commands loaded into an idle timer, in reach of the comparator; resets may come
  at any time in that run too, and `CommandsFlow` covers what they leave;
- in the C++ decoder: after a flush, until the new pc arrives, the last word
  fetched is decoded on, and a prefix or a delayed branch in its low half marks the
  opcode at the target (gip_core separates the two kinds of program);
  the command prefix never takes effect, as it does not set `extending`; a store
  whose base is the accumulator writes the pc, as a jump that flushes; a wait for every write
  (`block_all`) does not see a load in the memory stage; special and postbus registers are crossed in the read multiplexers of `rf_comb`;
- in the driver: a frame longer than a buffer leaves its buffer neither free nor
  full, and reception stops there (gipeth_asm.S:455); a bad status ends in
  `mkt_unknown_trap`, where the comment says the data is discarded;
  the room a watermark promises may already have been used by a burst that began
  on it: `RoomInFifo` bounds by how much.

Of the Ethernet's environment two things are left out. A status that finds its FIFO
full is dropped by the hardware (io_ingress_fifos.cdl:281-286); the model's MAC keeps
to the rule of io_ethernet_rx.cdl:96 that the FIFO must not overrun (guards of
`Arrives` and `MacSends`). And `SEM_ETH_POSTBUS`, which a reception waits on for its
data, can be left set when the wait is over (gipeth_asm.S:472-475), so that the next
wait does not wait: postbus transfers are complete in the model when the handler goes
on. The comments of ports io_egress_fifos.cdl:83-90 word empty the other way round
from the code, which EgressFifos follows.

`ReadsWhatIsThere` also documents a window that is left open: a reset, or a read of
the same FIFO over the postbus, performed in the clock in which the machine's read is
acknowledged is not aborted, and the slot is given a stale command word while the
FIFO records an underflow. A postbus read in any other clock empties the FIFO under
the machine, which aborts as for a reset, or, if more commands follow, takes away the
one waited for: the next is then given at the time of the one taken.
`CommandsFlow` says only that nothing is stuck afterwards, not when.

## Fairness

- gip_threads_live: the clock runs; threads reach their deschedule instruction;
  the pipeline takes the decoder's instructions, the block of a preemption
  included (weak fairness on those actions). No fairness is assumed of
  semaphores. The scheduling mode is fixed in a behaviour: switching to round
  robin while threads are preempted strands them, as that mode never resumes.
- Postbus: every target acknowledges again and again (`WF` of the clock with all
  ready) and no source pauses for ever. The bus protocol has no timeouts, so
  nothing less would do. An I/O source's last words are taken by their second clock:
  behind one that is withdrawn (above) the others wait for ever.
- Commands: the clock runs, the egress controller serves the machine, the slot
  takes what it holds. The second is justified for the lowest FIFO number,
  as commands precede data and postbus and low numbers precede high ones; for
  the others it is an assumption on the load.
- gipeth_starved: an awake hardware thread runs to its end, MAC, event manager,
  postbus source and semaphores go on, and thread 0 runs again and again (strong fairness, as it is
  preempted in between). Nothing makes the client send or frames arrive: a packet
  already posted must not depend on either.

The progress of the pipeline is an invariant, `KeepsCompleting`: its clock needs no
fairness, and a bound on the clocks without an instruction says more.

## Proofs

**EgressFifosProofs**, for any number of FIFOs of both kinds and any size:
`TypeCorrect`, `PointersStayInOrder`, `FlagsAlwaysAgree`, and the action property
`UncommittedWordsSurvive`. The inductive invariant is `TypeOK /\ FifosSound`.
PointersInOrder alone is not inductive: an increment is sound only if the
full and empty flags that guard it agree with the pointers, so flags and order are
carried together for each FIFO (`Sound`). Lemmas `EntriesGrow` and `EntriesShrink`
say how a pointer step changes a distance around the ring; `MovedSound` that
any legal choice of pointers leaves flags that agree; then one lemma per
operation. UncommittedWordsSurvive follows as the write pointer is the one
entry of the ring outside the uncommitted window. `FifosImplementCommitFifo` maps
every operation to one of CommitFifo: advancing the write pointer appends to the
window (`WinAppend`), advancing the commit pointer drops its head (`WinDrop`), and
the read pointer addresses the first word not yet taken (`WinRead`).

**PostbusRouterProofs**, for any sources, targets and packet lengths other than
one (`MultiWord`, as a shorter packet can be misrouted), if an I/O source's last
words are taken by their second clock (`LastsHeld`; true without I/O sources, or
without `LateTargets`): `RouteIsHeld` and
`RouterImplementsFabric`, the latter with every router step mapped to a
fabric step or a stutter. The invariant adds to RouteHeld that each source's
word fits its place in the packet (`InStep`) and that a connected source that
has not begun presents its start to the selected target (`StartConnected`);
without these, a second source could be in mid packet when the arbiter moves.
`RouterTypeCorrect` holds without either, as `TreeTypeCorrect` below does without
its conditions: lost routes and lost words leave every register in its range.

**CommandFsmProofs**, for any width of the timestamps, depth and offsets:
`TypeCorrect`, `SlotNeverOverrun` and `OnlyThePostbusOvertakes`, whose invariant extends
"free when given" back over the three states since availability was checked;
and `NearCommandsNotEarly` and `NearCommandsOnTime`. The timer compares a timestamp
of four quarters one quarter at a time, from the top, while the clock moves on
and presents its own quarters one in a clock; a carry may change quarters already
compared. The invariant (`Awaits`) says that those found equal are still equal to
the quarters of the time waited for, that the register shows the rest of them,
and how far the comparison has come by the quarter presented (`Reach`): once
the time has come the comparison keeps step with the quarters and ends before the
clock ticks again. The lemmas it rests on say when adding a to a number
changes what stands above one of its quarters, for any even base from 4 up.

**PostbusTreeProofs**, for any sources, targets and packet lengths, if sources
do not pause (`NoPauses`; demux_pause shows what becomes of a word after a pause)
and their last words are taken in time (`LastsHeld` again):
`TargetAlwaysFollows` and `TreeImplementsFabric`. The invariant says what the two
buffers may hold in each state of the demultiplexer and that, empty, it is between
packets; the multiplexer's first-word flag and the packet's place on the bus say the
same. What the two fabrics share is in **PostbusSourcesProofs**: the cyclic
arbitration finds a source when there is one, and sources keep the words they may.

**GipThreadsProofs**, for any set of threads, in every mode and with the pc of
any thread rewritten at any time: all six properties of gip_threads.
The invariant adds what a request or an acknowledge on its way implies of the
other side (`RequestFits`, `AcknowledgeFits`), which threads the states of the
decoder go with (`DecoderStates`), and that nothing waits preempted where nothing
preempts (`NoPreemption`).

**GipCoreProofs**, first for the back end, any registers, word size and set of
offered instructions: `PipelineTypeCorrect`, `OperandsAreFresh`, `RegistersBecomeIsa`,
`MemoryBecomesIsa` and `BlocksOneClock`. The invariant is the type invariant with
the run's four properties and what they need of each other: a load in the memory
stage excludes a blocked result (`BlockedOnce`), which makes the order of the
writes under way (`Settled`) the order of the program; the register file's read then
equals the settled register whenever the instruction is not held, and that is
the operand of the next clock. Then every step of the core is a step
of the back end (`CoreImplementsBackEnd`), as what the decoder makes of an opcode is
an instruction (`DecoderTypeCorrect`); so the same agreement holds of every program
(`CoreAgreesWithIsa`).

`PcIsWrittenWhenEmpty` holds of every program: whatever is decoded to an
instruction that writes the pc flushes (`DecodedJump`), stores whose base is the
accumulator and prefixes that name the pc included. Its invariant,
`PcPhase`, counts the writes of the pc under way: one, in an empty pipeline, while
the decoder's pc is not valid, and none while it is. Which instructions complete
is proved under a condition on the jumps: `ExecutesInOrder` proves
`InOrder` while executed jumps are `Orderly`: the program has no
prefix or delayed branch, which found behind a jump would mark its target (see
above). `InOrder` alone speaks of the ALU only. The inductive invariant `OrderInv`
says what every stage and the decoder hold, in terms of `seq`:

- `Chain`: ALU, register file and decoder hold consecutive opcodes of the machine
  without a pipeline, the oldest being the next to execute. A prefix the decoder
  takes moves it on in the row without an instruction (`PastOnePrefix`).
- `Waiting`: a jump has flushed, and each place the new pc passes through (memory
  stage, load result, ALU result) holds the address `seq` is at.
- `MarkedTarget`: the address has arrived, but a comparison behind the jump has left
  its shadow on it. The opcode at the target is then decoded as conditional, which
  changes nothing, as a jump leaves the condition bit set (`SameEffect`).
- `MarkedJump`: unless that opcode is a branch: it was decoded as an instruction
  that jumps in the ALU, not in the decoder, and everything decoded behind it is
  wrong. It goes to the same address (`BranchEffect`) and flushes all of it.

`ProgramsExecuteInOrder` gives the two kinds of program that are always orderly:
those without prefixes and delay slots (`Plain`), and those in
which only branches outside a comparison's shadow jump (`BranchesOnly`), where
prefixes may stand anywhere. `CoreImplementsProgram` restates it as a refinement: a
core that runs one of them implements `ProgramSpec`, which executes an instruction
in a step. The programs of gip_core are of the first kind in one half and
orderly in the other; gip_delay_slot runs ones that are not.

`InstructionsKeepCompleting` needs no order: for programs whose runs of
prefixes are shorter than n (`PrefixesEnd`, n = 0 for none) it bounds the clocks
between two completions by n + 4. `Waits` is the measure: one clock for a blocked
result, one for a held operand, one for each prefix in front of the decoder, a
delay slot's included, two for the stages, and one or two for an address on its
way; it falls in every clock in which nothing completes, so no two of the waits
wait for each other. The run's 6 clocks exceed the bound of its programs with
jumps, which have no prefixes (4), and hold of its programs with up to four
prefixes as those have no jumps to wait for besides.

**GipEthProofs**, for rings, packets, frames and bursts of any size:
`RingsInOrder`, `StatusesAnnounced`, `TransmitFifoBounded`, `EthTypeCorrect`, and
`BuffersKept` if every frame fits a buffer (`FramesFit`; otherwise one is lost, see
above). The invariant has a part for each hazard. `TxRing` and `RxRing` say of
every buffer, by its place in the ring, whose it is: that is what replaces a lock.
`TxHand` ties the buffer in hand to the first packet posted. `StatusOnce`: of the
semaphore, its event pending, presented or among the headers, and the wake that acts
on it there is exactly one while there are statuses. `RoomAnnounced` counts a burst
for each announcement of room under way (`RoomFor`), every header included; the
bound of `RoomInFifo` follows as there are Headers + 3 places for one. `Stream` says that the blocks in the buffer in
hand, in the status queue and on the line make whole frames in order; without it a
block could be appended to a frame it is no part of.

The assumptions used are those named in the modules (`FifoAssumption`,
`ThreadsAssumption`, `ModeAssumption`, `PostbusAssumption`, `BaseAssumption`,
`OffsetsAssumption`, `EntriesAssumption`, `IsaAssumption`, `OfferedAssumption`,
`EthAssumption`).

Every invariant, action property and refinement of the runs is stated by one of these
theorems. Only model-checked are the liveness properties, which need fairness and
ENABLED and are out of the prover's reach: `RoundRobinServes`, `HighestServed`,
`PreemptedResumes`, `PacketsTaken` and `CommandsFlow`. What the theorems ask beyond
the assumptions of the modules is in their statements: `MultiWord`, `NoPauses` and `LastsHeld` for
the fabrics, `FramesFit` for the driver, `Orderly` and `PrefixesEnd` for
programs; the findings and notes above show what happens without them. Prefixes
and delayed branches behind a jump executed by the ALU are not covered by
the proofs of order, as the code does not keep it there.

## Plan

1. *Proofs*: order in programs that mix prefixes and executed jumps, up to the mark
   a flushed prefix leaves; what the tree delivers when sources pause.
2. *Egress side complete*: EgressControl with the four command machines,
   transmit data and postbus as clients of one arbiter, over EgressFifos; slot
   data requests of io_block.
3. *IoPostbusTarget*: packet to FIFO writes with the holding register (a word
   acknowledged while the bus holds is written twice, io_postbus_target.cdl:190).
4. *Ingress side*: IngressFifos (entry count decided by a full flag; overflow
   overwrites the oldest word, against headers/cdl/io.h:39), ingress control,
   slot toggles and postbus source.
5. *Special registers*: semaphore mask, set/clear races, local events, preempted
   registers; GIP postbus receive and transmit over PostbusFabric.

Runs are kept to one per question; a composition replaces the runs of the
parts it subsumes.

## Not modelled

Of the processor: the shifter, flags, multiply and divide steps, special and postbus
registers, indexed accesses and the ARM decoder, which are data path or further
decodings of the same stages; the CDL of the pipeline, whose stages are those of
the cycle-accurate model; scheduling inside that C++ model, which never
deschedules or preempts. Devices are behind the slot interface; DDR and APB blocks
are sequencers with no concurrent partner in the core. Of the driver: error
statuses, oversized frames (above) and the network's own queues.
Base addresses and sizes that overlap in SRAM are software errors and
are excluded. A clock domain crossing's metastability is one more clock of delay.
`units/io/io_cmd_fifo.cdl`, the other `models/` and `regressions/`, `test_benches/`, `emulation/`
and `tools/` are listed in PROJECT.json with the reason for each.
