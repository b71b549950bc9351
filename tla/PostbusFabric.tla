----------------------------- MODULE PostbusFabric -----------------------------
(***************************************************************************)
(* What a postbus fabric promises: it takes packets one at a time, whole,  *)
(* in the order of their words, and gives every word it has taken to the   *)
(* target the packet is addressed to, once, in the order it took them.     *)
(* It may hold at most Depth words; with none it passes a word in the very *)
(* clock in which it takes it.  It leaves no word waiting for so long that *)
(* its source drops it.                                                    *)
(***************************************************************************)
EXTENDS PostbusSources, Sequences

CONSTANT Depth

VARIABLES flight,    \* the words taken and not yet given
          given      \* the word given at the last clock edge, and the target it went to

vars == <<src, flight, given>>

Nothing == [target |-> Idle, word |-> Idle]

Init ==
    /\ SrcInit
    /\ flight = <<>>
    /\ given = Nothing

\* A first word is taken only when no packet is half taken.
MayTake(s) ==
    /\ Shown(src[s])
    /\ MidPacket(s) \/ \A u \in Sources : ~MidPacket(u)

Give(words) ==
    \/ /\ words # <<>>
       /\ given' = [target |-> Head(words).dest, word |-> Head(words)]
       /\ flight' = Tail(words)
    \/ /\ given' = Nothing
       /\ flight' = words

Take(s) ==
    /\ MayTake(s)
    /\ SourcesClock({s})
    /\ Give(Append(flight, WordOf(s)))

TakeNone ==
    /\ Give(flight)
    /\ SourcesClock({})

Offer(s) ==
    /\ Start(s) \/ Proceed(s)
    /\ UNCHANGED <<flight, given>>

Next ==
    /\ \/ \E s \in Sources : Take(s)
       \/ TakeNone
       \/ \E s \in Sources : Offer(s)
    /\ Len(flight') <= Depth
    /\ \A s \in Sources : src'[s].type # "lost"

Spec == Init /\ [][Next]_vars
===============================================================================
