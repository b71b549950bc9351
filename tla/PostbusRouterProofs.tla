-------------------------- MODULE PostbusRouterProofs --------------------------
(***************************************************************************)
(* For any sources, targets and packet lengths other than one, the simple  *)
(* router of PostbusRouter holds its route for a whole packet and is a     *)
(* postbus fabric without storage.  The hypothesis MultiWord is needed:    *)
(* with packets of one word the router breaks the promise, as its          *)
(* first-word flag no longer marks the first word of a packet.  So is      *)
(* LastsHeld: if an I/O source withdraws the last word of a packet the     *)
(* router waits for it, and sends the next packet down the old route.      *)
(***************************************************************************)
EXTENDS PostbusRouter, PostbusSourcesProofs, Sequences

MultiWord == 1 \notin Lengths

\* A connected source that is not yet in its packet presents its start, to the
\* target selected; nothing else changes who is connected.
StartConnected ==
    state # Idle /\ ~MidPacket(state) =>
        src[state].type = "start" /\ selected_target = src[state].dest

TypeInv ==
    /\ src \in [Sources -> Word]
    /\ state \in Sources \cup {Idle}
    /\ selected_target \in Targets
    /\ xfr_first_word \in BOOLEAN

IInv ==
    /\ TypeInv
    /\ \A s \in Sources : InStep(src[s])
    /\ StartConnected
    /\ RouteHeld
    /\ NoneLost
-------------------------------------------------------------------------------
LEMMA InitIInv == Init => IInv
<1> SUFFICES ASSUME Init PROVE IInv
  OBVIOUS
<1>1. Quiet \in Word /\ InStep(Quiet) /\ Quiet.index = 0
  BY DEF Quiet, Word, Types, InStep
<1>5. NoneLost
  BY QuietInStep DEF Init
<1>2. src = [s \in Sources |-> Quiet] /\ state = Idle
  BY DEF Init, SrcInit
<1>3. TypeInv
  BY <1>1, <1>2 DEF Init, TypeInv
<1>4. \A s \in Sources : InStep(src[s]) /\ ~MidPacket(s)
  BY <1>1, <1>2 DEF MidPacket
<1> QED
  BY <1>2, <1>3, <1>4, <1>5 DEF IInv, StartConnected, RouteHeld

LEMMA OfferKeepsIInv ==
    ASSUME IInv, NEW s \in Sources, Offer(s)
    PROVE  IInv'
<1> USE IdleIsNoSource
<1>1. src[s].type = "hold"
  BY DEF Offer, Start, Proceed
<1>2. /\ SourcesInStep'
      /\ src'[s].type # "lost"
      /\ \A u \in Sources \ {s} : src'[u] = src[u]
      /\ src'[s].index = src[s].index
      /\ MidPacket(s) => src'[s].dest = src[s].dest
  BY OfferInStep DEF IInv, TypeInv, Offer, SourcesInStep
<1>3. UNCHANGED <<state, selected_target, xfr_first_word>>
  BY DEF Offer
<1>4. TypeInv'
  BY <1>2, <1>3 DEF IInv, TypeInv, SourcesInStep
<1>5. \A u \in Sources : InStep(src'[u])
  BY <1>2 DEF SourcesInStep
<1>6. StartConnected'
  \* a source that may put a word out is not connected unless it is in its packet
  BY <1>1, <1>2, <1>3 DEF IInv, TypeInv, StartConnected, MidPacket
<1>7. RouteHeld'
  BY <1>2, <1>3 DEF IInv, TypeInv, RouteHeld, MidPacket
<1>8. NoneLost'
  BY <1>2 DEF IInv, NoneLost
<1> QED
  BY <1>4, <1>5, <1>6, <1>7, <1>8 DEF IInv

\* The sources' clock edge: only the one connected can be in a packet.  A target in
\* time leaves no last word to be lost.
LEMMA ConnectedMoves ==
    ASSUME LastsHeld, IInv, NEW ready \in SUBSET Targets, Clock(ready)
    PROVE  LET passes == state # Idle /\ selected_target \in ready
           IN  /\ passes => src' = [src EXCEPT ![state] = Taken(@)]
               /\ state = Idle => src' = src
               /\ state # Idle /\ ~passes =>
                     /\ src' = [src EXCEPT ![state] = Refused(state, @)]
                     /\ Refused(state, src[state]).type # "lost"
<1> DEFINE passes == state # Idle /\ selected_target \in ready
<1>1. SourcesClock(IF passes THEN {state} ELSE {}) /\ (~LateTargets => InTime(ready))
  BY DEF Clock
<1>2. SourcesInStep /\ \A s \in Sources : MidPacket(s) => s = state
  BY DEF IInv, TypeInv, SourcesInStep, RouteHeld
<1>3. CASE state = Idle
  <2>1. \A s \in Sources : ~MidPacket(s)
    BY <1>2, <1>3, IdleIsNoSource
  <2> QED
    BY <1>1, <1>2, <1>3, <2>1, ClockOfNone
<1>4. CASE state # Idle
  <2>1. state \in Sources /\ \A u \in Sources \ {state} : ~MidPacket(u)
    BY <1>2, <1>4 DEF IInv, TypeInv
  <2>2. /\ passes => src' = [src EXCEPT ![state] = Taken(@)]
        /\ ~passes => src' = [src EXCEPT ![state] = Refused(state, @)]
    <3> HIDE DEF passes
    <3>1. CASE passes
      <4>1. SourcesClock({state})
        BY <1>1, <3>1
      <4> QED
        BY <1>2, <2>1, <3>1, <4>1, ClockOfOne
    <3>2. CASE ~passes
      <4>1. SourcesClock({})
        BY <1>1, <3>2
      <4> QED
        BY <1>2, <2>1, <3>2, <4>1, ClockOfOne
    <3> QED
      BY <3>1, <3>2
  <2>3. ASSUME ~passes PROVE Refused(state, src[state]).type # "lost"
    <3>1. src[state] \in Word /\ InStep(src[state]) /\ src[state].type # "lost"
      BY <2>1 DEF IInv, TypeInv, NoneLost
    <3>2. state \notin IoSources \/ src[state].type # "again"
      BY <1>1, <1>4, <2>3 DEF InTime, LastsHeld
    <3> QED
      BY <3>1, <3>2, RefusedInStep
  <2> QED
    BY <1>4, <2>2, <2>3
<1> QED
  BY <1>3, <1>4

LEMMA ClockKeepsIInv ==
    ASSUME MultiWord, LastsHeld, IInv, NEW ready \in SUBSET Targets, Clock(ready)
    PROVE  IInv'
<1> DEFINE passes == state # Idle /\ selected_target \in ready
<1> USE IdleIsNoSource
<1>1. /\ state' = NextState(state, xfr_first_word, Busy(ready))
      /\ xfr_first_word' \in BOOLEAN
      /\ selected_target' \in NextTargets(state')
      /\ passes => src' = [src EXCEPT ![state] = Taken(@)]
  BY ConnectedMoves DEF Clock
<1>2. \A s \in Starting : s \in Sources /\ src[s].dest \in Targets /\ src[s].type = "start"
                          /\ ~MidPacket(s)
  BY DEF Starting, IInv, TypeInv, InStep, Word, Quiet, MidPacket
<1>3. Grant(state) \in (Starting \ {state}) \cup {Idle}
  BY GrantIsStarting DEF IInv, TypeInv
<1>4. state' = state \/ state' \in (Starting \ {state}) \cup {Idle}
  BY <1>1, <1>3 DEF NextState
<1>5. /\ selected_target' \in Targets
      /\ state' = state => selected_target' = selected_target
      /\ state' \notin {state, Idle} => selected_target' = src[state'].dest
  BY <1>1, <1>2, <1>4 DEF NextTargets, IInv, TypeInv
<1>6. CASE state = Idle
  <2>1. src' = src
    BY <1>6, ConnectedMoves
  <2>2. TypeInv'
    BY <1>1, <1>2, <1>4, <1>5, <2>1 DEF IInv, TypeInv
  <2>3. StartConnected' /\ RouteHeld'
    BY <1>2, <1>4, <1>5, <1>6, <2>1
       DEF IInv, TypeInv, StartConnected, RouteHeld, MidPacket
  <2> QED
    BY <2>1, <2>2, <2>3 DEF IInv, NoneLost
<1>9. CASE state # Idle /\ ~passes
  <2>1. /\ src' = [src EXCEPT ![state] = Refused(state, @)]
        /\ Refused(state, src[state]).type # "lost"
    BY <1>9, ConnectedMoves
  <2>2. /\ state \in Sources /\ src[state] \in Word /\ InStep(src[state])
        /\ selected_target' = selected_target /\ state' = state
    BY <1>1, <1>5, <1>9 DEF IInv, TypeInv, NextState, Busy
  <2>3. /\ Refused(state, src[state]) \in Word
        /\ InStep(Refused(state, src[state]))
        /\ Refused(state, src[state]).index = src[state].index
        /\ Refused(state, src[state]).dest = src[state].dest
        /\ src[state].index = 0 => Refused(state, src[state]) = src[state]
    BY <2>2, RefusedInStep
  <2>4. TypeInv'
    BY <1>1, <2>1, <2>2, <2>3 DEF IInv, TypeInv
  <2>5. (\A s \in Sources : InStep(src[s]))' /\ NoneLost'
    BY <2>1, <2>2, <2>3 DEF IInv, TypeInv, NoneLost
  <2>6. StartConnected'
    BY <2>1, <2>2, <2>3, IdleIsNoSource DEF IInv, TypeInv, StartConnected, MidPacket, Word
  <2>7. RouteHeld'
    BY <2>1, <2>2, <2>3 DEF IInv, TypeInv, RouteHeld, MidPacket
  <2> QED
    BY <2>4, <2>5, <2>6, <2>7 DEF IInv
<1>7. CASE passes /\ src[state].type = "hold"
  <2>1. src' = src
    BY <1>1, <1>7 DEF Taken, IInv, TypeInv
  <2>2. MidPacket(state) /\ src[state].length # 1 /\ src[state] \in Word
    BY <1>7 DEF IInv, TypeInv, StartConnected, InStep, MidPacket, Word
  <2>3. state' = state
    BY <1>1, <1>7, <2>2 DEF NextState, Ends, LastBit
  <2> QED
    BY <1>1, <1>5, <2>1, <2>3
       DEF IInv, TypeInv, StartConnected, RouteHeld, MidPacket, NoneLost
<1>8. CASE passes /\ src[state].type # "hold"
  <2>1. /\ state \in Sources /\ src[state] \in Word /\ InStep(src[state])
        /\ src[state] # Quiet /\ src[state].length # 1
    BY <1>8 DEF IInv, TypeInv, InStep, Quiet, MultiWord
  <2>2. /\ Taken(src[state]) \in Word
        /\ InStep(Taken(src[state]))
        /\ Taken(src[state]).type = "hold"
        /\ Taken(src[state]).index > 0 <=> src[state].index + 1 < src[state].length
        /\ Taken(src[state]).index > 0 => Taken(src[state]).dest = src[state].dest
    BY <1>8, <2>1, TakenInStep
  <2>3. src' = [src EXCEPT ![state] = Taken(src[state])]
    BY <1>1, <1>8
  <2>4. TypeInv'
    BY <1>1, <1>2, <1>4, <1>5, <2>1, <2>2, <2>3 DEF IInv, TypeInv
  <2>5. \A s \in Sources : InStep(src'[s])
    BY <2>1, <2>2, <2>3 DEF IInv, TypeInv
  <2>9. NoneLost'
    BY <2>1, <2>2, <2>3 DEF IInv, TypeInv, NoneLost
  <2>6. selected_target = src[state].dest /\ \A s \in Sources \ {state} : ~MidPacket(s)
    BY <1>8, <2>1 DEF IInv, StartConnected, RouteHeld
  <2>7. CASE src[state].index + 1 < src[state].length
    <3>1. src[state].type \notin {"last", "again"}
      BY <2>1, <2>7 DEF InStep, Word
    <3>2. state' = state
      BY <1>1, <2>1, <3>1 DEF NextState, Ends, LastBit
    <3>3. selected_target' = selected_target /\ MidPacket(state)'
      BY <1>5, <2>1, <2>2, <2>3, <2>7, <3>2 DEF MidPacket, IInv, TypeInv
    <3> QED
      BY <2>1, <2>2, <2>3, <2>4, <2>5, <2>6, <2>7, <2>9, <3>2, <3>3
         DEF IInv, TypeInv, StartConnected, RouteHeld, MidPacket
  <2>8. CASE ~(src[state].index + 1 < src[state].length)
    <3>1. src[state].type \in {"last", "again"}
      BY <1>8, <2>1, <2>8 DEF InStep, Word, Types, IInv, NoneLost
    <3>2. state' \in (Starting \ {state}) \cup {Idle}
      BY <1>1, <1>3, <1>8, <3>1, <2>1 DEF NextState, Ends, Busy
    <3>3. \A s \in Sources : ~MidPacket(s)'
      BY <2>1, <2>2, <2>3, <2>6, <2>8 DEF MidPacket, IInv, TypeInv, Word
    <3> QED
      BY <1>2, <1>5, <2>1, <2>3, <2>4, <2>5, <2>9, <3>2, <3>3
         DEF IInv, TypeInv, StartConnected, RouteHeld, MidPacket
  <2> QED
    BY <2>7, <2>8
<1> QED
  BY <1>6, <1>7, <1>8, <1>9

LEMMA StutterKeepsIInv == IInv /\ UNCHANGED vars => IInv'
BY DEF IInv, TypeInv, StartConnected, RouteHeld, NoneLost, MidPacket, vars

LEMMA IInvHolds == MultiWord /\ LastsHeld => (Spec => []IInv)
<1>1. SUFFICES ASSUME MultiWord, LastsHeld PROVE Spec => []IInv
  OBVIOUS
<1>2. IInv /\ [Next]_vars => IInv'
  BY <1>1, ClockKeepsIInv, OfferKeepsIInv, StutterKeepsIInv DEF Next
<1> QED
  BY InitIInv, <1>2, PTL DEF Spec

\* With packets of several words the route is held for the whole packet, for any
\* number of sources and targets and any behaviour of the targets that does not make
\* an I/O source drop the last word (simple_router; io_postbus_source, store_type_last).
THEOREM RouteIsHeld == MultiWord /\ LastsHeld => (Spec => []RouteHeld)
<1>1. IInv => RouteHeld
  BY DEF IInv
<1> QED
  BY IInvHolds, <1>1, PTL
-------------------------------------------------------------------------------
(* Types, with packets of any length *)

Registers ==
    /\ SourcesInStep
    /\ state \in Sources \cup {Idle}
    /\ selected_target \in Targets
    /\ xfr_first_word \in BOOLEAN
    /\ given = Nothing \/ given.target \in Targets

LEMMA RegistersClock ==
    ASSUME Registers, NEW ready \in SUBSET Targets, Clock(ready)
    PROVE  Registers'
<1> DEFINE passes == state # Idle /\ selected_target \in ready
<1>1. /\ state' = NextState(state, xfr_first_word, Busy(ready))
      /\ xfr_first_word' = (state' # state)
      /\ selected_target' \in NextTargets(state')
      /\ SourcesClock(IF passes THEN {state} ELSE {})
      /\ given' = Nothing \/ given'.target = selected_target
  BY DEF Clock
<1>2. /\ state' \in Sources \cup {Idle}
      /\ state' \notin {state, Idle} => state' \in Starting
  BY <1>1, ArbiterTypes DEF Registers
<1>3. \A s \in Starting : src[s].dest \in Targets
  BY DEF Starting, Registers, SourcesInStep, InStep, Quiet
<1>4. selected_target' \in Targets
  BY <1>1, <1>2, <1>3 DEF NextTargets, Registers
<1>5. SourcesInStep'
  BY <1>1, ClockInStep DEF Registers
<1>6. (given = Nothing \/ given.target \in Targets)'
  BY <1>1 DEF Registers, Nothing
<1> QED
  BY <1>1, <1>2, <1>4, <1>5, <1>6 DEF Registers

\* The router's registers stay in range and no source is ever further in its
\* packet than the packet is long, one-word packets included: a route lost in
\* the middle of a packet upsets no source (simple_router, the arbiter and the
\* acknowledge to the sources).
THEOREM RouterTypeCorrect == Spec => []TypeOK
<1>1. Init => Registers
  BY QuietInStep DEF Init, Registers
<1>2. Registers /\ [Next]_vars => Registers'
  <2>1. ASSUME Registers, NEW s \in Sources, Offer(s) PROVE Registers'
    BY <2>1, OfferInStep DEF Registers, Offer, Nothing
  <2>2. Registers /\ UNCHANGED vars => Registers'
    BY DEF Registers, SourcesInStep, vars, Nothing
  <2> QED
    BY <2>1, <2>2, RegistersClock DEF Next
<1>3. Registers => TypeOK
  BY InStepIsPresented DEF Registers, SourcesInStep, TypeOK
<1> QED
  BY <1>1, <1>2, <1>3, PTL DEF Spec
-------------------------------------------------------------------------------
(* The router implements PostbusFabric *)

\* A word on the connected source is on its way to the target it is meant for,
\* and no other source is in the middle of a packet.
LEMMA ConnectedIsRouted ==
    ASSUME IInv, state # Idle, Shown(src[state])
    PROVE  /\ state \in Sources
           /\ selected_target = src[state].dest
           /\ \A u \in Sources \ {state} : ~MidPacket(u)
BY DEF IInv, TypeInv, StartConnected, RouteHeld

\* The sources' edge as the fabric sees it, and its last conjunct.
LEMMA FabricClock ==
    ASSUME NEW acked, SourcesClock(acked), NoneLost'
    PROVE  Fabric!SourcesClock(acked) /\ \A s \in Sources : src'[s].type # "lost"
BY DEF SourcesClock, Fabric!SourcesClock, Taken, Fabric!Taken, Quiet, Fabric!Quiet,
       Refused, Fabric!Refused, NoneLost

LEMMA ClockIsFabricStep ==
    ASSUME IInv, NoneLost', NEW ready \in SUBSET Targets, Clock(ready)
    PROVE  [Fabric!Next]_(Fabric!vars)
<1> DEFINE passes == state # Idle /\ selected_target \in ready
<1>1. SourcesClock(IF passes THEN {state} ELSE {})
  BY DEF Clock
<1>2. CASE passes /\ Shown(src[state])
  <2>1. /\ state \in Sources
        /\ selected_target = src[state].dest
        /\ \A u \in Sources \ {state} : ~MidPacket(u)
    BY <1>2, ConnectedIsRouted
  <2>2. Fabric!MayTake(state)
    BY <1>2, <2>1 DEF Fabric!MayTake, Fabric!MidPacket, MidPacket, Shown, Fabric!Shown
  <2>3. Fabric!SourcesClock({state}) /\ \A s \in Sources : src'[s].type # "lost"
    BY <1>1, <1>2, FabricClock
  <2>4. given' = [target |-> WordOf(state).dest, word |-> WordOf(state)]
    BY <1>2, <2>1 DEF Clock, WordOf
  <2>5. Fabric!WordOf(state) = WordOf(state)
    BY DEF WordOf, Fabric!WordOf
  <2>6. Fabric!Give(Append(<<>>, Fabric!WordOf(state)))
    BY <2>4, <2>5 DEF Fabric!Give
  <2>7. Fabric!Take(state)
    BY <2>2, <2>3, <2>6 DEF Fabric!Take
  <2> QED
    BY <2>1, <2>3, <2>7 DEF Fabric!Next
<1>3. CASE ~(passes /\ Shown(src[state]))
  <2>1. Fabric!SourcesClock({}) /\ \A s \in Sources : src'[s].type # "lost"
    <3>1. CASE ~passes
      BY <1>1, <3>1, FabricClock
    <3>2. CASE passes /\ src[state].type = "hold"
      <4>1. Taken(src[state]) = src[state] /\ Refused(state, src[state]) = src[state]
        BY <3>2 DEF Taken, Refused
      <4>2. SourcesClock({})
        BY <1>1, <3>2, <4>1 DEF SourcesClock
      <4> QED
        BY <4>2, FabricClock
    <3> QED
      BY <1>3, <3>1, <3>2 DEF Shown, IInv, NoneLost, TypeInv
  <2>2. given' = Fabric!Nothing
    BY <1>3 DEF Clock, Nothing, Fabric!Nothing, Idle, Fabric!Idle
  <2>3. Fabric!TakeNone
    BY <2>1, <2>2 DEF Fabric!TakeNone, Fabric!Give
  <2> QED
    BY <2>1, <2>3 DEF Fabric!Next
<1> QED
  BY <1>2, <1>3

LEMMA OfferIsFabricStep ==
    ASSUME NoneLost', NEW s \in Sources, Offer(s)
    PROVE  [Fabric!Next]_(Fabric!vars)
<1>1. Fabric!Start(s) \/ Fabric!Proceed(s)
  BY DEF Offer, Start, Proceed, MidPacket,
         Fabric!Start, Fabric!Proceed, Fabric!MidPacket
<1>2. Fabric!Offer(s)
  BY <1>1 DEF Offer, Fabric!Offer
<1> QED
  BY <1>2 DEF Fabric!Next, NoneLost

\* With packets of several words the router refines the fabric without storage:
\* every word it takes goes in that clock to the target the packet addresses, packets
\* never mix, and no word is dropped by its source while it waits.
THEOREM RouterImplementsFabric == MultiWord /\ LastsHeld => (Spec => ImplementsFabric)
<1>1. SUFFICES ASSUME MultiWord, LastsHeld PROVE Spec => Fabric!Spec
  BY DEF ImplementsFabric
<1>2. Init => Fabric!Init
  BY DEF Init, SrcInit, Fabric!Init, Fabric!SrcInit, Quiet, Fabric!Quiet,
         Nothing, Fabric!Nothing, Idle, Fabric!Idle
<1>3. IInv /\ IInv' /\ [Next]_vars => [Fabric!Next]_(Fabric!vars)
  <2>1. IInv /\ NoneLost' /\ Next => [Fabric!Next]_(Fabric!vars)
    BY ClockIsFabricStep, OfferIsFabricStep DEF Next
  <2>2. UNCHANGED vars => UNCHANGED Fabric!vars
    BY DEF vars, Fabric!vars
  <2> QED
    BY <2>1, <2>2 DEF IInv
<1>4. Spec => []IInv
  BY <1>1, IInvHolds
<1> QED
  BY <1>2, <1>3, <1>4, PTL DEF Spec, Fabric!Spec
===============================================================================
