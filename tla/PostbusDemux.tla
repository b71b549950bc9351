------------------------------ MODULE PostbusDemux ------------------------------
(***************************************************************************)
(* units/postbus/postbus_register_demux.cdl: one source to four targets,   *)
(* through two word buffers that are filled and emptied alternately.       *)
(* DemuxClock(offered, word, ready) is its clock edge: whether the source  *)
(* offers a word, which, and the targets that acknowledge.  Only the dest  *)
(* of a first word is looked at; the other words carry theirs for the      *)
(* properties alone.                                                       *)
(***************************************************************************)
EXTENDS Naturals

VARIABLES buf_state, buffer, last_target, given

demuxVars == <<buf_state, buffer, last_target, given>>

Empty == [target |-> 4, word |-> 4]       \* nothing given: 4 is no port

DemuxInit(words) ==
    /\ buf_state = "idle"
    /\ buffer \in [{0, 1} -> words]
    /\ last_target = 0
    /\ given = Empty

\* src_ack: at least one buffer is free.
SrcAck == buf_state \in {"idle", "0_rdy", "1_rdy"}

\* buffer_read, the buffer presented, and the other one.
Current == IF buf_state \in {"1_rdy", "1_rdy_0_pend"} THEN 1 ELSE 0
Other == 1 - Current

First(word) == word.index = 0

\* Fault: the target register alone selects, one word too late.
FaultySelectedTarget == last_target

\* A first word selects its target; the words after it follow.
SelectedTarget ==
    IF First(buffer[Current]) THEN buffer[Current].dest ELSE last_target

Presents == buf_state # "idle"

Ready(b) == IF b = 0 THEN "0_rdy" ELSE "1_rdy"
Pend(b) == IF b = 0 THEN "0_rdy_1_pend" ELSE "1_rdy_0_pend"

\* Fault: a word that arrives as the presented one leaves goes unnoticed.
FaultyNextBufState(offered, word, ack) ==
    CASE buf_state = "idle" -> IF offered /\ First(word) THEN "0_rdy" ELSE "idle"
      [] ~SrcAck            -> IF ack THEN Ready(Other) ELSE buf_state
      [] OTHER              -> IF ack THEN "idle"
                               ELSE IF offered THEN Pend(Current) ELSE buf_state

\* Out of idle, only the start of a packet is buffered.
NextBufState(offered, word, ack) ==
    CASE buf_state = "idle" -> IF offered /\ First(word) THEN "0_rdy" ELSE "idle"
      [] ~SrcAck            -> IF ack THEN Ready(Other) ELSE buf_state
      [] OTHER              -> IF offered
                               THEN IF ack THEN Ready(Other) ELSE Pend(Current)
                               ELSE IF ack THEN "idle" ELSE buf_state

\* The buffer an offered word goes into.
Filled == IF buf_state = "idle" THEN 0 ELSE Other

Stores(offered, word) == offered /\ SrcAck /\ (Presents \/ First(word))

DemuxClock(offered, word, ready) ==
    LET ack == SelectedTarget \in ready
    IN  /\ buf_state' = NextBufState(offered, word, ack)
        /\ buffer' = IF Stores(offered, word) THEN [buffer EXCEPT ![Filled] = word]
                                              ELSE buffer
        /\ last_target' = SelectedTarget
        /\ given' = IF Presents /\ ack
                    THEN [target |-> SelectedTarget, word |-> buffer[Current]]
                    ELSE Empty
===============================================================================
