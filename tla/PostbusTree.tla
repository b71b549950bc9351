------------------------------ MODULE PostbusTree ------------------------------
(***************************************************************************)
(* The registered fabric: postbus_input_mux feeding postbus_register_demux *)
(* ("It should be driven by an n-to-1 multiplexer").  One clock edge of    *)
(* both; the demultiplexer's acknowledge is the multiplexer's target's.    *)
(***************************************************************************)
EXTENDS PostbusMux, PostbusDemux, Sequences

vars == <<muxVars, demuxVars>>

\* Before the first word the buffers hold zeros, not marked as a first word.
Blank == [source |-> Idle, dest |-> 0, index |-> 1, last |-> FALSE]

Init ==
    /\ MuxInit
    /\ DemuxInit({Blank})

\* The target takes the word that stands in the way of a last word on the bus, which
\* then finds a buffer free the second time it is shown.
MakesRoom(ready) ==
    ~SrcAck /\ state # Idle /\ src[state].type = "last" => SelectedTarget \in ready

Clock(ready) ==
    /\ ~LateTargets => MakesRoom(ready)
    /\ MuxClock(SrcAck)
    /\ DemuxClock(Forwards, IF Forwards THEN WordOf(state) ELSE Blank, ready)

Offer(s) ==
    /\ MuxOffer(s)
    /\ UNCHANGED demuxVars

Next ==
    \/ \E ready \in SUBSET Targets : Clock(ready)
    \/ \E s \in Sources : Offer(s)

Spec == Init /\ [][Next]_vars

\* Every target takes words again and again, and no source pauses for ever.
FairSpec ==
    /\ Spec
    /\ WF_vars(Clock(Targets))
    /\ \A s \in Sources : WF_vars(Proceed(s) /\ Offer(s))
-------------------------------------------------------------------------------
(* Properties *)

Words == [source : Sources, dest : Targets, index : Places, last : BOOLEAN]

\* Registers stay in range: buffers hold words that sources presented, sources
\* are within their packets, and only targets in use are given words.
TypeOK ==
    /\ src \in [Sources -> Presented \cup {Quiet}]
    /\ state \in Sources \cup {Idle}
    /\ src_first_word \in BOOLEAN
    /\ buf_state \in {"idle", "0_rdy", "1_rdy", "0_rdy_1_pend", "1_rdy_0_pend"}
    /\ buffer \in [{0, 1} -> Words \cup {Blank}]
    /\ last_target \in 0..3
    /\ given = Empty \/ (given.target \in Targets /\ given.word \in Words)

\* The buffered words, oldest first.
Buffered ==
    IF buf_state = "idle" THEN <<>>
    ELSE IF SrcAck THEN <<buffer[Current]>>
    ELSE <<buffer[Current], buffer[Other]>>

\* Both blocks together are a fabric with two words of storage: no word that a
\* source was told is taken gets lost, repeated, overtaken or misdirected.
Fabric == INSTANCE PostbusFabric WITH flight <- Buffered, Depth <- 2

ImplementsFabric == Fabric!Spec

\* Every packet a source starts to present is taken in the end.
PacketsTaken == \A s \in Sources : src[s].type = "start" ~> src[s].type # "start"

\* The target register, set a clock after a first word is presented, is right for
\* every later word of the packet even when another packet's start is already
\* waiting in the other buffer.
TargetFollows == Presents => SelectedTarget = buffer[Current].dest

\* "Will take presented data" is what the documentation says a target's
\* acknowledge means: a word the demultiplexer acknowledges is in a buffer at the
\* next clock.
AcknowledgedIsKept ==
    [][ \A s \in Sources :
            Shown(src[s]) /\ src'[s].type = "hold" =>
                \E i \in 1..Len(Buffered') : Buffered'[i] = WordOf(s) ]_vars
===============================================================================
