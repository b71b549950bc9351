-------------------------- MODULE PostbusSourcesProofs --------------------------
(***************************************************************************)
(* What holds of the sources of a postbus and of the arbiter, whichever    *)
(* fabric connects them.                                                   *)
(***************************************************************************)
EXTENDS PostbusSources, TLAPS

Word == [type : Types, dest : Nat, length : Nat, index : Nat]

\* Where a source is in its packet and what it presents go together.
InStep(p) ==
    /\ p.index < p.length
    /\ p.type = "hold" /\ p.index = 0 => p = Quiet
    /\ p # Quiet => p.dest \in Targets /\ p.length \in Lengths
    /\ p.type = "start" => p.index = 0
    /\ p.type \in {"data", "last", "again", "lost"} =>
          p.index > 0 /\ (p.type # "data" <=> p.index + 1 = p.length)

SourcesInStep == src \in [Sources -> Word] /\ \A s \in Sources : InStep(src[s])

\* No source withdraws a word, or targets are in time for those that would.
LastsHeld == IoSources = {} \/ ~LateTargets

NoneLost == \A s \in Sources : src[s].type # "lost"
-------------------------------------------------------------------------------
LEMMA IdleIsNoSource == Idle \notin Sources /\ Idle \in Nat /\ Targets \subseteq Nat
BY PostbusAssumption DEF Idle

\* Of the sources that wait, one is nearest in the cyclic order.
LEMMA NearestExists ==
    ASSUME NEW S \in SUBSET Sources, S # {}, NEW from \in Sources \cup {Idle}
    PROVE  \E s \in S : \A u \in S : (s + 4 - from) % 4 <= (u + 4 - from) % 4
<1> DEFINE near(s) == (s + 4 - from) % 4
<1>1. \A s \in S : near(s) \in 0..3
  BY PostbusAssumption DEF Idle
<1> HIDE DEF near
<1>2. \E s \in S : \A u \in S : near(s) <= near(u)
  <2>1. CASE \E s \in S : near(s) = 0
    BY <1>1, <2>1
  <2>2. CASE (\E s \in S : near(s) = 1) /\ ~(\E s \in S : near(s) = 0)
    BY <1>1, <2>2
  <2>3. CASE (\E s \in S : near(s) = 2) /\ ~(\E s \in S : near(s) \in 0..1)
    BY <1>1, <2>3
  <2>4. CASE ~(\E s \in S : near(s) \in 0..2)
    BY <1>1, <2>4
  <2> QED
    BY <1>1, <2>1, <2>2, <2>3, <2>4
<1> QED
  BY <1>2 DEF near

LEMMA GrantIsStarting ==
    ASSUME NEW from \in Sources \cup {Idle}
    PROVE  Grant(from) \in (Starting \ {from}) \cup {Idle}
<1>1. CASE Starting \ {from} = {}
  BY <1>1 DEF Grant
<1>2. CASE Starting \ {from} # {}
  <2>1. Starting \ {from} \in SUBSET Sources
    BY DEF Starting
  <2>2. \E s \in Starting \ {from} :
           \A u \in Starting \ {from} : (s + 4 - from) % 4 <= (u + 4 - from) % 4
    BY <1>2, <2>1, NearestExists
  <2> QED
    BY <1>2, <2>2 DEF Grant
<1> QED
  BY <1>1, <1>2

\* A source's step to its next word keeps it in step.
LEMMA TakenInStep ==
    ASSUME NEW p \in Word, InStep(p), p.type # "hold"
    PROVE  /\ Taken(p) \in Word
           /\ InStep(Taken(p))
           /\ Taken(p).type = "hold"
           /\ Taken(p).index > 0 <=> p.index + 1 < p.length
           /\ Taken(p).index > 0 => Taken(p).dest = p.dest
<1>1. CASE p.index + 1 < p.length
  <2>1. Taken(p) = [type |-> "hold", dest |-> p.dest, length |-> p.length,
                    index |-> p.index + 1]
    BY <1>1 DEF Taken, Word
  <2>2. p # Quiet
    BY DEF Quiet
  <2> QED
    BY <1>1, <2>1, <2>2 DEF InStep, Word, Quiet, Types
<1>2. CASE ~(p.index + 1 < p.length)
  BY <1>2 DEF Taken, InStep, Word, Quiet, Types
<1> QED
  BY <1>1, <1>2

\* A word that is refused is still the one due, if it has not been lost.
LEMMA RefusedInStep ==
    ASSUME NEW p \in Word, InStep(p), NEW s
    PROVE  /\ Refused(s, p) \in Word
           /\ InStep(Refused(s, p))
           /\ Refused(s, p).index = p.index
           /\ Refused(s, p).dest = p.dest
           /\ Refused(s, p).length = p.length
           /\ p.index = 0 => Refused(s, p) = p
           /\ s \notin IoSources \/ p.type \notin {"last", "again"} => Refused(s, p) = p
           /\ Refused(s, p).type = "lost" =>
                 p.type = "lost" \/ (s \in IoSources /\ p.type = "again")
           /\ Refused(s, p).type = "hold" <=> p.type = "hold"
<1>1. p = [type |-> p.type, dest |-> p.dest, length |-> p.length, index |-> p.index]
  BY DEF Word
<1>2. CASE s \in IoSources /\ p.type = "last"
  <2>1. Refused(s, p) = [type |-> "again", dest |-> p.dest, length |-> p.length,
                         index |-> p.index]
    BY <1>2 DEF Refused, Word
  <2> QED
    BY <1>2, <2>1 DEF InStep, Word, Quiet, Types
<1>3. CASE s \in IoSources /\ p.type = "again"
  <2>1. Refused(s, p) = [type |-> "lost", dest |-> p.dest, length |-> p.length,
                         index |-> p.index]
    BY <1>3 DEF Refused, Word
  <2> QED
    BY <1>3, <2>1 DEF InStep, Word, Quiet, Types
<1>4. CASE s \notin IoSources \/ p.type \notin {"last", "again"}
  <2>1. Refused(s, p) = p
    BY <1>4 DEF Refused
  <2> QED
    BY <1>4, <2>1
<1> QED
  BY <1>2, <1>3, <1>4

LEMMA QuietInStep ==
    SrcInit => SourcesInStep /\ NoneLost /\ \A s \in Sources : ~MidPacket(s)
BY DEF SrcInit, SourcesInStep, NoneLost, Quiet, Word, Types, InStep, MidPacket

\* Putting the next word out is no progress in the packet.
LEMMA OfferInStep ==
    ASSUME SourcesInStep, NEW s \in Sources, Start(s) \/ Proceed(s)
    PROVE  /\ SourcesInStep'
           /\ src[s].type = "hold" /\ src'[s].type \in {"start", "data", "last"}
           /\ \A u \in Sources \ {s} : src'[u] = src[u]
           /\ src'[s].index = src[s].index
           /\ MidPacket(s) => src'[s].dest = src[s].dest
<1>1. src[s] \in Word /\ InStep(src[s]) /\ src[s].type = "hold"
  BY DEF SourcesInStep, Start, Proceed
<1>2. /\ src' = [src EXCEPT ![s] = src'[s]]
      /\ src'[s] \in Word /\ InStep(src'[s])
      /\ src'[s].index = src[s].index
      /\ MidPacket(s) => src'[s].dest = src[s].dest
      /\ src'[s].type \in {"start", "data", "last"}
  <2>1. CASE Start(s)
    BY <1>1, <2>1, PostbusAssumption
       DEF Start, SourcesInStep, Word, Types, InStep, MidPacket, Quiet
  <2>2. CASE Proceed(s)
    <3>1. src'[s] = [src[s] EXCEPT !.type =
                        IF src[s].index + 1 = src[s].length THEN "last" ELSE "data"]
      BY <2>2 DEF Proceed, SourcesInStep
    <3>2. src[s] # Quiet
      BY <2>2 DEF Proceed, MidPacket, Quiet
    <3> QED
      BY <1>1, <2>2, <3>1, <3>2
         DEF Proceed, SourcesInStep, Word, Types, InStep, MidPacket, Quiet
  <2> QED
    BY <2>1, <2>2
<1> QED
  BY <1>1, <1>2 DEF SourcesInStep

\* A clock edge keeps every source in step, whichever are acknowledged and whether
\* or not they have a word out.
LEMMA ClockInStep ==
    ASSUME SourcesInStep, NEW acked, SourcesClock(acked)
    PROVE  SourcesInStep'
<1>1. ASSUME NEW s \in Sources PROVE src'[s] \in Word /\ InStep(src'[s])
  <2>1. src[s] \in Word /\ InStep(src[s])
    BY DEF SourcesInStep
  <2>2. src'[s] = IF s \in acked THEN Taken(src[s]) ELSE Refused(s, src[s])
    BY DEF SourcesClock
  <2>3. CASE s \in acked /\ src[s].type = "hold"
    BY <2>1, <2>2, <2>3 DEF Taken
  <2>4. CASE s \in acked /\ src[s].type # "hold"
    BY <2>1, <2>2, <2>4, TakenInStep
  <2>5. CASE s \notin acked
    BY <2>1, <2>2, <2>5, RefusedInStep
  <2> QED
    BY <2>3, <2>4, <2>5
<1>2. src' \in [Sources -> Word]
  BY <1>1 DEF SourcesClock
<1> QED
  BY <1>1, <1>2 DEF SourcesInStep

\* Between packets a source only waits: when one at most is in a packet, the clock
\* edge is that of one source.
LEMMA ClockOfOne ==
    ASSUME SourcesInStep, NEW s \in Sources, NEW acked \in SUBSET {s}, SourcesClock(acked),
           \A u \in Sources \ {s} : ~MidPacket(u)
    PROVE  /\ s \in acked => src' = [src EXCEPT ![s] = Taken(@)]
           /\ s \notin acked => src' = [src EXCEPT ![s] = Refused(s, @)]
<1>1. \A u \in Sources \ {s} : src'[u] = src[u]
  <2> TAKE u \in Sources \ {s}
  <2>1. src[u] \in Word /\ InStep(src[u]) /\ src[u].index = 0
    BY DEF SourcesInStep, MidPacket, Word
  <2> QED
    BY <2>1, RefusedInStep DEF SourcesClock
<1> QED
  BY <1>1 DEF SourcesClock, SourcesInStep

LEMMA ClockOfNone ==
    ASSUME SourcesInStep, SourcesClock({}), \A u \in Sources : ~MidPacket(u)
    PROVE  src' = src
<1>1. \A u \in Sources : src'[u] = src[u]
  <2> TAKE u \in Sources
  <2>1. src[u] \in Word /\ InStep(src[u]) /\ src[u].index = 0
    BY DEF SourcesInStep, MidPacket, Word
  <2> QED
    BY <2>1, RefusedInStep DEF SourcesClock
<1> QED
  BY <1>1 DEF SourcesClock, SourcesInStep

\* What a source has out fits the types the specification gives it.
LEMMA InStepIsPresented ==
    ASSUME NEW p \in Word, InStep(p)
    PROVE  /\ p \in Presented \cup {Quiet}
           /\ p.type # "hold" => p \in Presented
<1>1. CASE p = Quiet
  BY <1>1 DEF Quiet
<1>2. CASE p # Quiet
  <2>1. p.dest \in Targets /\ p.length \in Lengths /\ p.index < p.length /\ p.index \in Nat
    BY <1>2 DEF InStep, Word
  <2>2. p.length \in Nat
    BY DEF Word
  <2>3. p.index \in 0..(p.length - 1)
    BY <2>1, <2>2
  <2>4. p.index \in Places
    BY <2>1, <2>3 DEF Places
  <2> QED
    BY <2>1, <2>4 DEF Presented, Word
<1> QED
  BY <1>1, <1>2

LEMMA ArbiterTypes ==
    ASSUME NEW from \in Sources \cup {Idle}, NEW first, NEW busy
    PROVE  /\ NextState(from, first, busy) \in Sources \cup {Idle}
           /\ NextState(from, first, busy) \notin {from, Idle} =>
                 NextState(from, first, busy) \in Starting
<1>1. Grant(from) \in (Starting \ {from}) \cup {Idle}
  BY GrantIsStarting
<1>2. Starting \subseteq Sources
  BY DEF Starting
<1> QED
  BY <1>1, <1>2 DEF NextState
===============================================================================
