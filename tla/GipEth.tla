-------------------------------- MODULE GipEth --------------------------------
(***************************************************************************)
(* The Ethernet driver of the GIP, regressions/arm/src/drivers/gipeth.c    *)
(* and gipeth_asm.S: two rings of buffers shared, without a lock, by the   *)
(* client and its interrupt handler (thread 0) and by a hardware thread    *)
(* (thread 6), which semaphores wake.                                      *)
(*                                                                         *)
(* Thread 6 preempts thread 0 between any two stores of it, and thread 0   *)
(* does not run until thread 6 has gone to sleep again.  Around both, the  *)
(* hardware goes on: the MAC with its FIFOs, and the events that set the   *)
(* semaphores.                                                             *)
(*                                                                         *)
(* Data is counted, not carried.  A packet is its number of units, a unit  *)
(* what one command writes to the transmit FIFO; a frame is its number of  *)
(* blocks, one status each, and every frame is a good one.  A status and   *)
(* its data are read in one step.                                          *)
(***************************************************************************)
EXTENDS Integers, Sequences

CONSTANTS
    NumTx, NumRx,   \* buffers in the rings
    Packets,        \* sizes of packets, in units
    Frames,         \* sizes of frames, in blocks
    Burst,          \* units written for one wake at the most
    Watermark,      \* units in the transmit FIFO that still leave room
    BufferBlocks,   \* blocks that fit a buffer
    StatusDepth,    \* statuses in the status FIFO at the most
    Headers         \* events that the postbus source holds on their way

ASSUME EthAssumption ==
    /\ {NumTx, NumRx, Burst, BufferBlocks, StatusDepth, Headers} \subseteq Nat \ {0}
    /\ Packets \subseteq Nat \ {0}
    /\ Frames \subseteq Nat \ {0}
    /\ Watermark \in Nat

Tx == 0 .. NumTx - 1
Rx == 0 .. NumRx - 1
FaultyNextTx(b) == b + 1    \* mutant: the ring is not closed
NextTx(b) == (b + 1) % NumTx
NextRx(b) == (b + 1) % NumRx

VARIABLES
    tx, rx,                     \* the rings
    xmit, tx_next_buffer_done,  \* the client
    isr, rx_next_buffer_rxed,   \* the interrupt handler
    pc, r12, r13, deps,         \* thread 6: what it asks for, the semaphores
                                \* it woke with, those it sleeps on
    rx_hand,                    \* thread 6: buffer being received into
    tx_hand,                    \* thread 6: buffer being sent
    sem, irq,                   \* semaphores, interrupt to the microkernel
    pending, presented,         \* event manager
    headers,                    \* postbus source: the events' headers
    fill,                       \* units in the transmit FIFO
    mac, line, status,          \* MAC: packets to send, frame arriving, statuses
    owed, posted                \* history: frames complete, packets ready

client == <<xmit, tx_next_buffer_done, isr, rx_next_buffer_rxed>>
thread == <<pc, r12, r13, deps, rx_hand, tx_hand>>
hardware == <<pending, presented, headers, fill, mac, line, status>>
vars == <<tx, rx, client, thread, sem, irq, hardware, owed, posted>>

Semaphores == {"status_vne", "tx_data_vwm", "soft_irq"}
Events == {"status_vne", "tx_data_vwm"}
NoEvent == "none"

Units == 0 .. Burst
Status == [kind : {"tx", "rx"}, first : BOOLEAN, last : BOOLEAN, frame : Frames \cup {0}]

TypeOK ==
    /\ tx \in [Tx -> [ready : BOOLEAN, done : BOOLEAN, packet : Packets \cup {0}]]
    /\ rx \in [Rx -> [ready : BOOLEAN, done : BOOLEAN, frame : Frames \cup {0}]]
    /\ xmit \in {"idle", "set_ready", "signal"}
    /\ tx_next_buffer_done \in Tx
    /\ isr \in {"off", "check", "set_done"}
    /\ rx_next_buffer_rxed \in Rx
    /\ pc \in {"asleep", "status", "soft_irq", "tx_data", "send", "sent", "exit"}
    /\ r12 \subseteq {"irq", "more"}
    /\ {r13, deps, sem} \subseteq SUBSET Semaphores
    /\ rx_hand \in [next : Rx, held : BOOLEAN, length : 0 .. BufferBlocks]
    /\ tx_hand \in [next : Tx, held : BOOLEAN, left : Nat, burst : Units, started : BOOLEAN]
    /\ irq \in BOOLEAN
    /\ pending \subseteq Events
    /\ presented \in Events \cup {NoEvent}
    /\ headers \in Seq(Events) /\ Len(headers) <= Headers
    /\ fill \in Nat
    /\ mac \in Seq(Nat \ {0})
    /\ line \in [frame : Frames \cup {0}, left : Nat]
    /\ status \in Seq(Status) /\ Len(status) <= StatusDepth
    /\ owed \in Seq(Frames) /\ Len(owed) <= NumRx
    /\ posted \in Seq(Packets) /\ Len(posted) <= NumTx

(* gipdrv_ethernet_init: every buffer free, and room in the FIFO.          *)
Init ==
    /\ tx = [b \in Tx |-> [ready |-> FALSE, done |-> TRUE, packet |-> 0]]
    /\ rx = [b \in Rx |-> [ready |-> FALSE, done |-> TRUE, frame |-> 0]]
    /\ xmit = "idle" /\ tx_next_buffer_done = 0
    /\ isr = "off" /\ rx_next_buffer_rxed = 0
    /\ pc = "asleep" /\ r12 = {} /\ r13 = {} /\ deps = {"status_vne", "soft_irq"}
    /\ rx_hand = [next |-> 0, held |-> FALSE, length |-> 0]
    /\ tx_hand = [next |-> 0, held |-> FALSE, left |-> 0, burst |-> 0, started |-> FALSE]
    /\ sem = {"tx_data_vwm"} /\ irq = FALSE
    /\ pending = {} /\ presented = NoEvent /\ headers = <<>>
    /\ fill = 0
    /\ mac = <<>> /\ line = [frame |-> 0, left |-> 0] /\ status = <<>>
    /\ owed = <<>> /\ posted = <<>>

-----------------------------------------------------------------------------
(* Thread 0: the client, and the interrupt handler which interrupts it.    *)

Client == pc = "asleep" /\ isr = "off"
Handler == pc = "asleep" /\ isr # "off"

(* Mutant: the client does not wait for the buffer.                        *)
FaultyXmitFill(p) ==
    /\ Client /\ xmit = "idle"
    /\ tx' = [tx EXCEPT ![tx_next_buffer_done].packet = p,
                        ![tx_next_buffer_done].done = FALSE]
    /\ xmit' = "set_ready"
    /\ UNCHANGED <<rx, tx_next_buffer_done, isr, rx_next_buffer_rxed, thread,
                   sem, irq, hardware, owed, posted>>

(* gipeth_xmit.  Thread 6 does not look at what is written before ready is *)
(* set, nor at the client's place in the ring.                             *)
XmitFill(p) ==
    /\ Client /\ xmit = "idle"
    /\ tx[tx_next_buffer_done].done
    /\ tx' = [tx EXCEPT ![tx_next_buffer_done].packet = p,
                        ![tx_next_buffer_done].done = FALSE]
    /\ xmit' = "set_ready"
    /\ UNCHANGED <<rx, tx_next_buffer_done, isr, rx_next_buffer_rxed, thread,
                   sem, irq, hardware, owed, posted>>

XmitSetReady ==
    /\ Client /\ xmit = "set_ready"
    /\ tx' = [tx EXCEPT ![tx_next_buffer_done].ready = TRUE]
    /\ posted' = Append(posted, tx[tx_next_buffer_done].packet)
    /\ tx_next_buffer_done' = NextTx(tx_next_buffer_done)
    /\ xmit' = "signal"
    /\ UNCHANGED <<rx, isr, rx_next_buffer_rxed, thread, sem, irq, hardware, owed>>

XmitSignal ==
    /\ Client /\ xmit = "signal"
    /\ sem' = sem \cup {"soft_irq"}
    /\ xmit' = "idle"
    /\ UNCHANGED <<tx, rx, tx_next_buffer_done, isr, rx_next_buffer_rxed, thread,
                   irq, hardware, owed, posted>>

IsrEnter ==
    /\ Client /\ irq
    /\ irq' = FALSE
    /\ isr' = "check"
    /\ UNCHANGED <<tx, rx, xmit, tx_next_buffer_done, rx_next_buffer_rxed, thread,
                   sem, hardware, owed, posted>>

(* gipeth_isr.  The frame is handed to the network, the handler moves on   *)
(* and clears ready, which thread 6 never looks at; then the buffer is     *)
(* released.                                                               *)
IsrTake ==
    /\ Handler /\ isr = "check"
    /\ rx[rx_next_buffer_rxed].ready
    /\ owed' = Tail(owed)
    /\ rx_next_buffer_rxed' = NextRx(rx_next_buffer_rxed)
    /\ rx' = [rx EXCEPT ![rx_next_buffer_rxed].ready = FALSE]
    /\ isr' = "set_done"
    /\ UNCHANGED <<tx, xmit, tx_next_buffer_done, thread, sem, irq, hardware, posted>>

IsrExit ==
    /\ Handler /\ isr = "check"
    /\ ~rx[rx_next_buffer_rxed].ready
    /\ isr' = "off"
    /\ UNCHANGED <<tx, rx, xmit, tx_next_buffer_done, rx_next_buffer_rxed, thread,
                   sem, irq, hardware, owed, posted>>

Taken == CHOOSE b \in Rx : NextRx(b) = rx_next_buffer_rxed

(* Mutant: the handler releases the buffer it has moved on to.             *)
FaultyIsrSetDone ==
    /\ Handler /\ isr = "set_done"
    /\ rx' = [rx EXCEPT ![rx_next_buffer_rxed].done = TRUE]
    /\ isr' = "check"
    /\ UNCHANGED <<tx, xmit, tx_next_buffer_done, rx_next_buffer_rxed, thread, sem,
                   irq, hardware, owed, posted>>

IsrSetDone ==
    /\ Handler /\ isr = "set_done"
    /\ rx' = [rx EXCEPT ![Taken].done = TRUE]
    /\ isr' = "check"
    /\ UNCHANGED <<tx, xmit, tx_next_buffer_done, rx_next_buffer_rxed, thread, sem,
                   irq, hardware, owed, posted>>

-----------------------------------------------------------------------------
(* Thread 6.                                                               *)

Wake ==
    /\ pc = "asleep" /\ sem \cap deps # {}
    /\ r12' = {} /\ r13' = sem
    /\ sem' = sem \ {"status_vne", "soft_irq"}
    /\ pc' = "status"
    /\ UNCHANGED <<tx, rx, client, deps, rx_hand, tx_hand, irq, hardware, owed, posted>>

NoStatus ==
    /\ pc = "status" /\ "status_vne" \notin r13
    /\ pc' = "soft_irq"
    /\ UNCHANGED <<tx, rx, client, r12, r13, deps, rx_hand, tx_hand, sem, irq,
                   hardware, owed, posted>>

(* Mutant: statuses behind the one read are not announced.                 *)
FaultyReadStatus ==
    /\ pc = "status" /\ "status_vne" \in r13
    /\ status' = Tail(status)
    /\ pc' = "soft_irq"
    /\ UNCHANGED <<tx, client, r13, deps, tx_hand, sem, irq, pending, presented,
                   headers, fill, mac, line, posted>>

(* Reading a status tells the event manager if there are more.             *)
ReadStatus ==
    /\ pc = "status" /\ "status_vne" \in r13
    /\ status' = Tail(status)
    /\ pending' = IF Len(status) > 1 THEN pending \cup {"status_vne"} ELSE pending
    /\ pc' = "soft_irq"
    /\ UNCHANGED <<tx, client, r13, deps, tx_hand, sem, irq, presented, headers,
                   fill, mac, line, posted>>

TxStatus ==
    /\ ReadStatus
    /\ Head(status).kind = "tx"
    /\ UNCHANGED <<rx, r12, rx_hand, owed>>

(* A first block goes to the buffer in hand or else to the next buffer, if *)
(* it is free; a later one to the buffer in hand, if it has room.          *)
Keeps(s) ==
    IF s.first THEN rx_hand.held \/ rx[rx_hand.next].done
    ELSE rx_hand.held /\ rx_hand.length < BufferBlocks

ReceiveBlock ==
    LET s == Head(status)
        b == rx_hand.next
    IN  /\ ReadStatus
        /\ s.kind = "rx" /\ Keeps(s)
        /\ rx' = [rx EXCEPT ![b].done = FALSE, ![b].ready = @ \/ s.last,
                            ![b].frame = IF s.first THEN s.frame ELSE @]
        /\ rx_hand' = [next |-> IF s.last THEN NextRx(b) ELSE b,
                       held |-> ~s.last,
                       length |-> IF s.last THEN 0
                                  ELSE IF s.first THEN 1 ELSE rx_hand.length + 1]
        /\ r12' = IF s.last THEN r12 \cup {"irq"} ELSE r12
        /\ owed' = IF s.last THEN Append(owed, s.frame) ELSE owed

(* The buffer in hand, if any, is given up but neither released nor reused.*)
DiscardBlock ==
    /\ ReadStatus
    /\ Head(status).kind = "rx" /\ ~Keeps(Head(status))
    /\ rx_hand' = [rx_hand EXCEPT !.held = FALSE, !.length = 0]
    /\ UNCHANGED <<rx, r12, owed>>

(* The next buffer to send, taken in hand if it is ready.                  *)
TakeTx(ring, b) ==
    tx_hand' = [next |-> b, held |-> ring[b].ready,
                left |-> IF ring[b].ready THEN ring[b].packet ELSE 0,
                burst |-> 0, started |-> FALSE]

HandleSoftIrq ==
    /\ pc = "soft_irq"
    /\ IF "soft_irq" \in r13 /\ ~tx_hand.held /\ tx[tx_hand.next].ready
       THEN TakeTx(tx, tx_hand.next) /\ r12' = r12 \cup {"more"}
       ELSE UNCHANGED <<tx_hand, r12>>
    /\ pc' = "tx_data"
    /\ UNCHANGED <<tx, rx, client, r13, deps, rx_hand, sem, irq, hardware, owed, posted>>

HandleTxData ==
    /\ pc = "tx_data"
    /\ IF "tx_data_vwm" \in r13 /\ tx_hand.held
       THEN /\ tx_hand' = [tx_hand EXCEPT !.burst = IF tx_hand.left > Burst
                                                    THEN Burst ELSE tx_hand.left]
            /\ pc' = "send"
       ELSE pc' = "exit" /\ UNCHANGED tx_hand
    /\ UNCHANGED <<tx, rx, client, r12, r13, deps, rx_hand, sem, irq, hardware, owed, posted>>

(* Mutant: the watermark semaphore is not cleared.                         *)
FaultySendUnit ==
    /\ pc = "send"
    /\ fill' = fill + 1
    /\ pending' = IF fill + 1 <= Watermark THEN pending \cup {"tx_data_vwm"} ELSE pending
    /\ tx_hand' = [tx_hand EXCEPT !.burst = @ - 1, !.left = @ - 1]
    /\ pc' = IF tx_hand.burst = 1 THEN "sent" ELSE "send"
    /\ UNCHANGED <<tx, rx, client, r12, r13, deps, rx_hand, sem, irq, presented,
                   headers, mac, line, status, owed, posted>>

(* A unit is written to the transmit FIFO, the watermark semaphore cleared *)
(* before, and the event manager hears whether room is left.               *)
SendUnit ==
    /\ pc = "send"
    /\ sem' = sem \ {"tx_data_vwm"}
    /\ fill' = fill + 1
    /\ pending' = IF fill + 1 <= Watermark THEN pending \cup {"tx_data_vwm"} ELSE pending
    /\ tx_hand' = [tx_hand EXCEPT !.burst = @ - 1, !.left = @ - 1]
    /\ pc' = IF tx_hand.burst = 1 THEN "sent" ELSE "send"
    /\ UNCHANGED <<tx, rx, client, r12, r13, deps, rx_hand, irq, presented, headers,
                   mac, line, status, owed, posted>>

(* The end of a burst: the packet's transmit command follows its first     *)
(* burst; after its last the buffer is done and the next one is taken.     *)
BurstSent ==
    LET b == tx_hand.next
    IN  /\ pc = "sent"
        /\ mac' = IF tx_hand.started THEN mac ELSE Append(mac, tx[b].packet)
        /\ IF tx_hand.left = 0
           THEN /\ tx' = [tx EXCEPT ![b].ready = FALSE, ![b].done = TRUE]
                /\ TakeTx(tx', NextTx(b))
                /\ posted' = Tail(posted)
           ELSE /\ tx_hand' = [tx_hand EXCEPT !.started = TRUE]
                /\ UNCHANGED <<tx, posted>>
        /\ r12' = IF tx_hand'.held THEN r12 \cup {"more"} ELSE r12
        /\ pc' = "exit"
        /\ UNCHANGED <<rx, client, r13, deps, rx_hand, sem, irq, pending, presented,
                       headers, fill, line, status, owed>>

Deschedule ==
    /\ pc = "exit"
    /\ deps' = IF "more" \in r12 THEN Semaphores ELSE {"status_vne", "soft_irq"}
    /\ irq' = (irq \/ "irq" \in r12)
    /\ pc' = "asleep" /\ r12' = {} /\ r13' = {}
    /\ UNCHANGED <<tx, rx, client, rx_hand, tx_hand, sem, hardware, owed, posted>>

-----------------------------------------------------------------------------
(* The hardware.  It stands still in the steps of thread 6 that touch      *)
(* nothing of it.                                                          *)

Goes == pc \notin {"soft_irq", "tx_data", "sent", "exit"}

(* The MAC reads a unit, or finds none there: it sends on regardless.      *)
MacSends(n) ==
    LET low == IF n = 1 /\ fill = Watermark + 1 THEN {"tx_data_vwm"} ELSE {}
        left == Head(mac) - 1
        new == IF status = <<>> THEN {"status_vne"} ELSE {}
    IN  /\ Goes /\ mac # <<>>
        /\ left = 0 => Len(status) < StatusDepth
        /\ fill' = fill - n
        /\ mac' = IF left = 0 THEN Tail(mac) ELSE <<left>> \o Tail(mac)
        /\ status' = IF left > 0 THEN status
                     ELSE Append(status, [kind |-> "tx", first |-> FALSE,
                                          last |-> FALSE, frame |-> 0])
        /\ pending' = pending \cup low \cup (IF left = 0 THEN new ELSE {})
        /\ UNCHANGED <<tx, rx, client, thread, sem, irq, presented, headers, line,
                       owed, posted>>

MacReads == fill > 0 /\ MacSends(1)

(* The events that have yet to set their semaphores.                       *)
UnderWay ==
    pending \cup ({presented} \ {NoEvent}) \cup {headers[i] : i \in 1 .. Len(headers)}

(* The driver is fast enough for the line: the FIFO runs empty in a packet *)
(* only if thread 6 sleeps and nothing is on its way to wake it.           *)
Quiet == pc = "asleep" /\ sem \cap deps = {} /\ UnderWay = {}

MacUnderruns == fill = 0 /\ Quiet /\ MacSends(0)

(* A status that finds the FIFO full is lost in the hardware: the MAC is   *)
(* taken to keep to its own rule, that the FIFO must not overrun.          *)
Arrives(s) ==
    /\ Goes /\ Len(status) < StatusDepth
    /\ status' = Append(status, s)
    /\ pending' = IF status = <<>> THEN pending \cup {"status_vne"} ELSE pending
    /\ UNCHANGED <<tx, rx, client, thread, sem, irq, presented, headers, fill,
                   mac, owed, posted>>

FrameStarts(n) ==
    /\ line.left = 0
    /\ line' = [frame |-> n, left |-> n - 1]
    /\ Arrives([kind |-> "rx", first |-> TRUE, last |-> n = 1, frame |-> n])

FrameContinues ==
    /\ line.left > 0
    /\ line' = [line EXCEPT !.left = @ - 1]
    /\ Arrives([kind |-> "rx", first |-> FALSE, last |-> line.left = 1, frame |-> line.frame])

(* One event at a time, that of the higher number first.                   *)
Present ==
    /\ Goes /\ presented = NoEvent /\ pending # {}
    /\ presented' = IF "tx_data_vwm" \in pending THEN "tx_data_vwm" ELSE "status_vne"
    /\ pending' = pending \ {presented'}
    /\ UNCHANGED <<tx, rx, client, thread, sem, irq, headers, fill, mac, line,
                   status, owed, posted>>

(* The postbus source takes it, which frees the event manager, and holds   *)
(* its header until the postbus does.                                      *)
TakeCommand ==
    /\ Goes /\ presented # NoEvent /\ Len(headers) < Headers
    /\ headers' = Append(headers, presented)
    /\ presented' = NoEvent
    /\ UNCHANGED <<tx, rx, client, thread, sem, irq, pending, fill, mac, line,
                   status, owed, posted>>

SetSemaphore ==
    /\ Goes /\ headers # <<>>
    /\ sem' = sem \cup {Head(headers)}
    /\ headers' = Tail(headers)
    /\ UNCHANGED <<tx, rx, client, thread, irq, pending, presented, fill, mac,
                   line, status, owed, posted>>

-----------------------------------------------------------------------------
XmitGoesOn == XmitSetReady \/ XmitSignal

IsrGoesOn == IsrTake \/ IsrExit \/ IsrSetDone

Thread6 ==
    \/ Wake \/ NoStatus \/ TxStatus \/ ReceiveBlock \/ DiscardBlock
    \/ HandleSoftIrq \/ HandleTxData \/ SendUnit \/ BurstSent
    \/ Deschedule

Hardware == MacReads \/ MacUnderruns \/ Present \/ TakeCommand \/ SetSemaphore

Next ==
    \/ \E p \in Packets : XmitFill(p)
    \/ XmitGoesOn
    \/ IsrEnter
    \/ IsrGoesOn
    \/ Thread6
    \/ Hardware
    \/ \E n \in Frames : FrameStarts(n)
    \/ FrameContinues

Spec == Init /\ [][Next]_vars

(* Thread 6, once awake, runs to its end; the hardware's parts each go on; *)
(* thread 6 leaves thread 0 time to run now and then.  Nothing makes the   *)
(* client send or frames arrive.                                           *)
Fairness ==
    /\ WF_vars(Thread6)
    /\ WF_vars(MacReads) /\ WF_vars(MacUnderruns)
    /\ WF_vars(Present) /\ WF_vars(TakeCommand) /\ WF_vars(SetSemaphore)
    /\ SF_vars(XmitGoesOn) /\ SF_vars(IsrEnter) /\ SF_vars(IsrGoesOn)

FairSpec == Spec /\ Fairness

-----------------------------------------------------------------------------
(* Properties.                                                             *)

(* "There is room in the FIFO for at least 512 bytes": watermark events    *)
(* that came during earlier bursts, and say nothing any more, have thread  *)
(* 6 write a burst each, but no more of them than there are places for on  *)
(* their way.                                                              *)
RoomInFifo == fill <= Watermark + (Headers + 3) * Burst

(* The buffers hold what was put into them, in order, until it has been    *)
(* used: the frames not yet given to the network from the handler's place  *)
(* on, the packets not yet sent from thread 6's place on.  Neither thread  *)
(* ever touches a buffer that is the other's.                              *)
QueuesKept ==
    /\ \A i \in 1 .. Len(owed) :
          LET b == (rx_next_buffer_rxed + i - 1) % NumRx
          IN  rx[b].ready /\ ~rx[b].done /\ rx[b].frame = owed[i]
    /\ \A i \in 1 .. Len(posted) :
          LET b == (tx_hand.next + i - 1) % NumTx
          IN  tx[b].ready /\ ~tx[b].done /\ tx[b].packet = posted[i]

(* Every buffer is with someone who will pass it on: free, full, or in the *)
(* hands of the thread that is just using it.                              *)
NoBufferLost ==
    /\ \A b \in Rx :
          \/ rx[b].done # rx[b].ready
          \/ ~rx[b].done /\ rx_hand.held /\ rx_hand.next = b
          \/ ~rx[b].done /\ isr = "set_done" /\ Taken = b
    /\ \A b \in Tx :
          \/ tx[b].done # tx[b].ready
          \/ ~tx[b].done /\ xmit = "set_ready" /\ tx_next_buffer_done = b

(* The status semaphore tells the truth: when thread 6 acts on it, however *)
(* late, there is a status to read; and no status waits without a          *)
(* semaphore or an event that will have it read.                           *)
StatusAnnounced ==
    /\ pc = "status" /\ "status_vne" \in r13 => status # <<>>
    /\ status # <<>> =>
          \/ "status_vne" \in sem \cup UnderWay
          \/ pc = "status" /\ "status_vne" \in r13

(* "ready: ... buffer is full and length set, driver to transmit and set   *)
(* done": a packet the client has posted is sent.                          *)
PacketsSent == \A b \in Tx : tx[b].ready ~> ~tx[b].ready
=============================================================================
