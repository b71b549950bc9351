----------------------------- MODULE PostbusRouter -----------------------------
(***************************************************************************)
(* units/postbus/postbus_simple_router.cdl: a fabric without storage.  Its *)
(* arbiter connects one source to the target that source addresses; word   *)
(* and acknowledge pass between the two in one clock.  Clock is one clock  *)
(* edge, ready the targets that acknowledge in it; the sources put their   *)
(* words out between clocks.                                               *)
(***************************************************************************)
EXTENDS PostbusSources

VARIABLES state,             \* the source connected, or Idle
          selected_target,
          xfr_first_word,    \* the source is thought to give the first word of its packet
          given              \* what the last clock edge gave to a target

vars == <<src, state, selected_target, xfr_first_word, given>>

Nothing == [target |-> Idle, word |-> Idle]

Init ==
    /\ SrcInit
    /\ state = Idle
    /\ selected_target \in Targets
    /\ xfr_first_word = FALSE
    /\ given = Nothing

\* Fault: the arbiter moves on although the target has not taken the word.
FaultyBusy(ready) == FALSE

Busy(ready) == state # Idle /\ selected_target \notin ready

\* Fault: the target chosen when the router last left idle is kept.
FaultyNextTargets(next) ==
    IF next # Idle /\ state # Idle THEN {selected_target}
    ELSE IF next = Idle THEN Targets ELSE {src[next].dest}

\* A router that falls idle selects whatever the data bus of source 0 holds, but
\* gives nothing to the target so selected.
NextTargets(next) ==
    IF next = state THEN {selected_target}
    ELSE IF next = Idle THEN Targets ELSE {src[next].dest}

\* The target takes a last word at the latest when it is shown again.
InTime(ready) ==
    state # Idle /\ src[state].type = "again" => selected_target \in ready

Clock(ready) ==
    LET next == NextState(state, xfr_first_word, Busy(ready))
        passes == state # Idle /\ selected_target \in ready
    IN  /\ Presenting
        /\ ~LateTargets => InTime(ready)
        /\ state' = next
        /\ xfr_first_word' = (next # state)
        /\ selected_target' \in NextTargets(next)
        /\ SourcesClock(IF passes THEN {state} ELSE {})
        /\ given' = IF passes /\ Shown(src[state])
                    THEN [target |-> selected_target, word |-> WordOf(state)]
                    ELSE Nothing

Offer(s) ==
    /\ Start(s) \/ Proceed(s)
    /\ UNCHANGED <<state, selected_target, xfr_first_word, given>>

Next ==
    \/ \E ready \in SUBSET Targets : Clock(ready)
    \/ \E s \in Sources : Offer(s)

Spec == Init /\ [][Next]_vars

\* Every target takes words again and again, and no source pauses for ever.
FairSpec ==
    /\ Spec
    /\ WF_vars(Clock(Targets))
    /\ \A s \in Sources : WF_vars(Proceed(s) /\ Offer(s))
-------------------------------------------------------------------------------
(* Properties *)

\* Registers stay in range; in particular no source is ever further in its packet
\* than the packet is long.
TypeOK ==
    /\ src \in [Sources -> Presented \cup {Quiet}]
    /\ state \in Sources \cup {Idle}
    /\ selected_target \in Targets
    /\ xfr_first_word \in BOOLEAN
    /\ given = Nothing \/ given.target \in Targets

\* A source in the middle of a packet is the one connected, to the target it
\* addressed: the route is held for the whole packet.
RouteHeld ==
    \A s \in Sources : MidPacket(s) => state = s /\ selected_target = src[s].dest

\* The router is a fabric without storage: every word taken from a source goes,
\* in that clock, to the target its packet addresses, packets never mixing.
Fabric == INSTANCE PostbusFabric WITH flight <- <<>>, Depth <- 0

ImplementsFabric == Fabric!Spec

\* Every packet that a source starts to present is taken in the end, whatever
\* the other sources send.
PacketsTaken == \A s \in Sources : src[s].type = "start" ~> src[s].type # "start"
===============================================================================
