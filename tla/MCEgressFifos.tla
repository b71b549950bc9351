----------------------------- MODULE MCEgressFifos -----------------------------
(* A finite instance of EgressFifos for TLC: a transmit and a command FIFO, of *)
(* which one is in use.  Each has its own pointers and its own part of the     *)
(* SRAM, so that the other's state adds nothing; the properties are checked of *)
(* both.  The contents of the entries are only ever copied, so they may be     *)
(* permuted.                                                                   *)
EXTENDS EgressFifos, TLC

MCInit ==
    /\ Init
    /\ event.fifo = fifo_op.fifo
    /\ \A f \in Fifos \ {fifo_op.fifo} : mem[f] = [p \in Ptr |-> sram_read_data]

MCSpec == MCInit /\ [][Operate(fifo_op.fifo)]_vars

WordSymmetry == Permutations(Words)
===============================================================================
