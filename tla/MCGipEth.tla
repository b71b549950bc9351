------------------------------- MODULE MCGipEth -------------------------------
(***************************************************************************)
(* The Ethernet driver for TLC: packets of one burst and of several,       *)
(* frames of one block and of two, so that no two neighbours in a ring     *)
(* need be alike.                                                          *)
(***************************************************************************)
EXTENDS GipEth

(* Bounds.  Until the first frame comes the client sends all it can.  From *)
(* then on there are two packets and frames at a time, of which any may be *)
(* packets, and the FIFO is filled no further once it is above its         *)
(* watermark.                                                              *)
FramesUnderWay ==
    Len(owed) + Len(SelectSeq(status, LAMBDA s : s.kind = "rx"))
    + (IF line.left > 0 THEN 1 ELSE 0)

InBounds ==
    \/ line.frame = 0
    \/ /\ Len(posted) + Len(mac) + FramesUnderWay <= 2
       /\ fill <= Watermark

(* Two states are one if they differ in what a free buffer was last used   *)
(* for, which is overwritten before it is read.                            *)
View ==
    <<[b \in Tx |-> IF tx[b].done THEN [tx[b] EXCEPT !.packet = 0] ELSE tx[b]],
      [b \in Rx |-> IF rx[b].done THEN [rx[b] EXCEPT !.frame = 0] ELSE rx[b]],
      client, thread, sem, irq, hardware, owed, posted>>
===============================================================================
