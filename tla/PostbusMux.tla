------------------------------- MODULE PostbusMux -------------------------------
(***************************************************************************)
(* units/postbus/postbus_input_mux.cdl: four sources into one target.      *)
(* MuxClock is its clock edge; tgt_ack is the target's acknowledge.        *)
(***************************************************************************)
EXTENDS PostbusSources

VARIABLES state,             \* the source connected, or Idle
          src_first_word     \* the source is giving the first word of its packet

muxVars == <<src, state, src_first_word>>

MuxInit ==
    /\ SrcInit
    /\ state = Idle
    /\ src_first_word = FALSE

\* Fault: the flag falls after one clock, as it does in the simple router.
FaultyNextFirst(next, busy) == next \notin {state, Idle}

\* The first word stays the first until it is taken.
NextFirst(next, busy) == next \notin {state, Idle} \/ (busy /\ src_first_word)

Forwards == state # Idle /\ Shown(src[state])

MuxClock(tgt_ack) ==
    LET busy == state # Idle /\ ~tgt_ack
        next == NextState(state, src_first_word, busy)
    IN  /\ Presenting
        /\ state' = next
        /\ src_first_word' = NextFirst(next, busy)
        /\ SourcesClock(IF state # Idle /\ tgt_ack THEN {state} ELSE {})

MuxOffer(s) ==
    /\ Start(s) \/ Proceed(s)
    /\ UNCHANGED <<state, src_first_word>>
===============================================================================
