---------------------------- MODULE PostbusSources ----------------------------
(***************************************************************************)
(* What the sources of a postbus present to its fabric, in the protocol of *)
(* headers/cdl/postbus.h: a packet is one start word whose bit 0 says it   *)
(* is the whole packet, or a start word, data words and a last word, with  *)
(* pauses (the hold type, which is also idle) between them.  The sources   *)
(* of the repository are units/gip/gip_postbus.cdl, which holds each word  *)
(* out until it is acknowledged, and units/io/io_postbus_source.cdl, which *)
(* does so with all but the last word of a packet of several: that is      *)
(* withdrawn when it is not acknowledged in the second clock, and dropped  *)
(* at the next acknowledge.                                                *)
(*                                                                         *)
(* Also the choice both routing fabrics of units/postbus make between      *)
(* sources: the one that follows the last one served.                      *)
(***************************************************************************)
EXTENDS Naturals, FiniteSets, FiniteSetsExt

CONSTANTS Sources,     \* the sources in use, numbered as the ports are
          Targets,     \* the targets they address
          Lengths,     \* the lengths of their packets
          Pauses,      \* whether a source may pause in the middle of a packet
          IoSources,   \* the sources that are I/O blocks
          LateTargets  \* whether a last word of theirs may wait for a second clock and
                       \* not be taken in it either

ASSUME PostbusAssumption ==
    /\ Sources \subseteq 0..3
    /\ Targets \subseteq 0..3 /\ Targets # {}
    /\ Lengths \subseteq Nat \ {0} /\ Lengths # {}
    /\ Pauses \in BOOLEAN
    /\ IoSources \subseteq Sources
    /\ LateTargets \in BOOLEAN

VARIABLE src     \* the word each source presents, and how far it is in its packet

Idle == 4        \* no source: the fabric's arbiter is idle

\* An I/O source shows a last word "again" from its output register when it was not
\* taken straight from its FIFO; the word is "lost" when it is still in the register
\* but not shown any more.
Types == {"start", "hold", "data", "last", "again", "lost"}

Places == UNION {0..(n - 1) : n \in Lengths}

\* index is how many words of the packet have been taken.
Presented == {p \in [type : Types, dest : Targets, length : Lengths, index : Places] :
                 p.index < p.length}

\* Between packets nothing else is of interest.
Quiet == [type |-> "hold", dest |-> 0, length |-> 1, index |-> 0]

SrcInit == src = [s \in Sources |-> Quiet]

MidPacket(s) == src[s].index > 0

\* There is a word on the bus, neither hold nor idle.
Shown(p) == p.type \notin {"hold", "lost"}

\* The source puts its next word out: a start of any packet, or the word due.
Start(s) ==
    /\ ~MidPacket(s) /\ src[s].type = "hold"
    /\ \E d \in Targets, n \in Lengths :
          src' = [src EXCEPT ![s] = [type |-> "start", dest |-> d, length |-> n, index |-> 0]]

Proceed(s) ==
    /\ MidPacket(s) /\ src[s].type = "hold"
    /\ src' = [src EXCEPT ![s].type =
                  IF src[s].index + 1 = src[s].length THEN "last" ELSE "data"]

\* Bit 0 of a start word.
LastBit(p) == p.length = 1

\* Fault: the words left are counted one too many.
FaultyTaken(p) ==
    IF p.type = "hold" THEN p
    ELSE IF p.index < p.length THEN [p EXCEPT !.type = "hold", !.index = @ + 1]
    ELSE Quiet

\* What the source holds once its word is acknowledged.
Taken(p) ==
    IF p.type = "hold" THEN p
    ELSE IF p.index + 1 < p.length THEN [p EXCEPT !.type = "hold", !.index = @ + 1]
    ELSE Quiet

\* What the source holds once its word is not acknowledged.
Refused(s, p) ==
    IF s \notin IoSources THEN p
    ELSE IF p.type = "last" THEN [p EXCEPT !.type = "again"]
    ELSE IF p.type = "again" THEN [p EXCEPT !.type = "lost"]
    ELSE p

\* A clock edge of the sources, with an acknowledge to one or none of them.
SourcesClock(acked) ==
    src' = [s \in Sources |-> IF s \in acked THEN Taken(src[s]) ELSE Refused(s, src[s])]

\* A source that does not pause has its next word out by the next clock.
Presenting == Pauses \/ \A s \in Sources : MidPacket(s) => src[s].type # "hold"

\* The word a source has out, as the fabric carries it.
WordOf(s) == [source |-> s, dest |-> src[s].dest, index |-> src[s].index,
              last |-> src[s].index + 1 = src[s].length]
-------------------------------------------------------------------------------
(* The arbiter, the same in postbus_simple_router.cdl and postbus_input_mux.cdl *)

Starting == {s \in Sources : src[s].type = "start"}

\* Fault: always the lowest source, whoever was served last.
FaultyGrant(state) ==
    IF Starting \ {state} = {} THEN Idle ELSE Min(Starting \ {state})

\* The next source in cyclic order that has a packet to start; from idle, the
\* lowest.  The source just served is not considered.
Grant(state) ==
    IF Starting \ {state} = {} THEN Idle
    ELSE CHOOSE s \in Starting \ {state} :
            \A u \in Starting \ {state} : (s + 4 - state) % 4 <= (u + 4 - state) % 4

\* The last word of the packet is on the bus: a last word, or a start word with
\* bit 0 set.  The arbiter looks at bit 0 only while it thinks the word is the first.
Ends(s, first) == src[s].type \in {"last", "again"} \/ (first /\ LastBit(src[s]))

NextState(state, first, busy) ==
    IF state = Idle THEN Grant(state)
    ELSE IF busy \/ ~Ends(state, first) THEN state
    ELSE Grant(state)
===============================================================================
