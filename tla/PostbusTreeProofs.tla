--------------------------- MODULE PostbusTreeProofs ---------------------------
(***************************************************************************)
(* For any sources, targets and packet lengths, if no source pauses within *)
(* a packet, the multiplexer and demultiplexer of PostbusTree are a        *)
(* postbus fabric that stores two words.  The hypothesis is needed: a      *)
(* demultiplexer that runs empty in the middle of a packet acknowledges    *)
(* the packet's next word and drops it.  As with the router, targets are   *)
(* to be in time for I/O sources (LastsHeld): when both buffers are full   *)
(* as a last word is first shown, room is to be made in that clock.        *)
(***************************************************************************)
EXTENDS PostbusTree, PostbusSourcesProofs, SequenceTheorems

NoPauses == ~Pauses

\* A connected source that is not yet in its packet presents its start, and the
\* multiplexer knows it for the first word.
StartConnected ==
    state # Idle /\ ~MidPacket(state) => src[state].type = "start" /\ src_first_word

OneAtATime == \A s \in Sources : MidPacket(s) => state = s

BufWord == [source : Sources \cup {Idle}, dest : Nat, index : Nat, last : BOOLEAN]

MuxTypes == state \in Sources \cup {Idle} /\ src_first_word \in BOOLEAN

DemuxTypes ==
    /\ buf_state \in {"idle", "0_rdy", "1_rdy", "0_rdy_1_pend", "1_rdy_0_pend"}
    /\ buffer \in [{0, 1} -> BufWord]

\* The word stored last: the one pending, or else the one presented.
Newest == IF SrcAck THEN buffer[Current] ELSE buffer[Other]

\* In the middle of a packet the demultiplexer is never empty, and what it stored
\* last is of that packet.
FollowsOn ==
    \A s \in Sources : MidPacket(s) => Presents /\ src[s].dest = Newest.dest

\* Of two words stored the second starts a packet or goes where the first goes.
Consecutive ==
    ~SrcAck => First(buffer[Other]) \/ buffer[Other].dest = buffer[Current].dest

\* A last word shown again finds room.
RoomForAgain == \A s \in IoSources : src[s].type = "again" => SrcAck

IInv ==
    /\ SourcesInStep
    /\ NoneLost
    /\ RoomForAgain
    /\ MuxTypes
    /\ DemuxTypes
    /\ StartConnected
    /\ OneAtATime
    /\ FollowsOn
    /\ Consecutive
    /\ TargetFollows
-------------------------------------------------------------------------------
LEMMA InitIInv == Init => IInv
<1> SUFFICES ASSUME Init PROVE IInv
  OBVIOUS
<1>1. SourcesInStep /\ NoneLost /\ \A s \in Sources : ~MidPacket(s)
  BY QuietInStep DEF Init, MuxInit
<1>2. MuxTypes /\ DemuxTypes
  <2>1. Blank \in BufWord
    BY DEF Blank, BufWord
  <2> QED
    BY <2>1 DEF Init, MuxInit, DemuxInit, MuxTypes, DemuxTypes
<1> QED
  BY <1>1, <1>2 DEF Init, MuxInit, DemuxInit, IInv, RoomForAgain, StartConnected, OneAtATime, FollowsOn,
                    Consecutive, SrcAck, TargetFollows, Presents

LEMMA OfferIInv ==
    ASSUME IInv, NEW s \in Sources, Offer(s)
    PROVE  IInv'
<1> USE IdleIsNoSource
<1>1. /\ SourcesInStep'
      /\ src[s].type = "hold" /\ src'[s].type \in {"start", "data", "last"}
      /\ \A u \in Sources \ {s} : src'[u] = src[u]
      /\ src'[s].index = src[s].index
      /\ MidPacket(s) => src'[s].dest = src[s].dest
  BY OfferInStep DEF IInv, Offer, MuxOffer
<1>2. UNCHANGED <<state, src_first_word>> /\ UNCHANGED demuxVars
  BY DEF Offer, MuxOffer
<1>3. MuxTypes' /\ DemuxTypes' /\ Consecutive' /\ TargetFollows'
  BY <1>2 DEF IInv, MuxTypes, DemuxTypes, Consecutive, TargetFollows, SrcAck, Other, Current, Presents,
              SelectedTarget, demuxVars
<1>4. \A u \in Sources : /\ MidPacket(u)' <=> MidPacket(u)
                         /\ MidPacket(u) => src'[u].dest = src[u].dest
  BY <1>1 DEF MidPacket
<1>5. StartConnected' /\ OneAtATime'
  BY <1>1, <1>2, <1>4 DEF IInv, MuxTypes, StartConnected, OneAtATime
<1>6. FollowsOn'
  BY <1>2, <1>4 DEF IInv, FollowsOn, Presents, Newest, SrcAck, Other, Current, demuxVars
<1>7. NoneLost'
  BY <1>1 DEF IInv, NoneLost
<1>8. RoomForAgain'
  BY <1>1, <1>2, PostbusAssumption DEF IInv, RoomForAgain, SrcAck, demuxVars
<1> QED
  BY <1>1, <1>3, <1>5, <1>6, <1>7, <1>8 DEF IInv
-------------------------------------------------------------------------------
(* The multiplexer's clock edge *)

\* What its clock edge does, seen from the word it forwards.
LEMMA MuxStep ==
    ASSUME NoPauses, IInv, MuxClock(SrcAck)
    PROVE  /\ SourcesInStep'
           /\ state' \in Sources \cup {Idle}
           /\ src_first_word' \in BOOLEAN
           /\ StartConnected'
           /\ OneAtATime'
           /\ Forwards <=> state # Idle
           /\ Forwards /\ SrcAck =>
                 /\ SourcesClock({state})
                 /\ src' = [src EXCEPT ![state] = Taken(@)]
                 /\ \A s \in Sources : MidPacket(s)' => s = state /\ src'[s].dest = src[s].dest
                 /\ \A s \in Sources \ {state} : ~MidPacket(s)
           /\ ~(Forwards /\ SrcAck) =>
                 /\ SourcesClock({})
                 /\ \A s \in Sources : /\ src'[s].index = src[s].index
                                       /\ src'[s].dest = src[s].dest
                                       /\ src'[s] = Refused(s, src[s])
<1> USE IdleIsNoSource
<1> DEFINE busy == state # Idle /\ ~SrcAck
<1>1. /\ state' = NextState(state, src_first_word, busy)
      /\ src_first_word' = NextFirst(state', busy)
      /\ SourcesClock(IF state # Idle /\ SrcAck THEN {state} ELSE {})
      /\ \A s \in Sources : MidPacket(s) => src[s].type # "hold"
  BY DEF MuxClock, Presenting, NoPauses
<1>2. state # Idle => Shown(src[state]) /\ src[state].type # "hold" /\ state \in Sources
  BY <1>1 DEF IInv, MuxTypes, StartConnected, Shown, NoneLost
<1>3. Grant(state) \in (Starting \ {state}) \cup {Idle}
  BY GrantIsStarting DEF IInv, MuxTypes
<1>4. \A s \in Starting : s \in Sources /\ src[s].type = "start" /\ ~MidPacket(s)
  BY DEF Starting, IInv, SourcesInStep, InStep, Word, Quiet, MidPacket
<1>5. state' = state \/ state' \in (Starting \ {state}) \cup {Idle}
  BY <1>1, <1>3 DEF NextState
<1>6. state' \in Sources \cup {Idle} /\ src_first_word' \in BOOLEAN
  BY <1>1, <1>4, <1>5 DEF NextFirst, IInv, MuxTypes
<1>7. Forwards <=> state # Idle
  BY <1>2 DEF Forwards
<1>8. CASE state = Idle \/ ~SrcAck
  <2>5. SourcesClock({})
    BY <1>1, <1>8
  <2>1. \A s \in Sources : /\ src'[s].index = src[s].index
                           /\ src'[s].dest = src[s].dest
                           /\ src'[s] = Refused(s, src[s])
                           /\ src[s].index = 0 => src'[s] = src[s]
    BY <2>5, RefusedInStep DEF IInv, SourcesInStep, SourcesClock
  <2>6. SourcesInStep'
    BY <2>5, ClockInStep DEF IInv
  <2>2. state # Idle => state' = state /\ src_first_word' = src_first_word
    BY <1>1, <1>8 DEF NextState, NextFirst, IInv, MuxTypes
  <2>3. state' \notin {state, Idle} => src_first_word'
    BY <1>1 DEF NextFirst
  <2>4. StartConnected' /\ OneAtATime'
    <3>1. \A s \in Sources : /\ MidPacket(s)' <=> MidPacket(s)
                             /\ ~MidPacket(s) => src'[s].type = src[s].type
      BY <2>1 DEF MidPacket, IInv, SourcesInStep, Word
    <3>2. OneAtATime'
      BY <1>5, <2>2, <3>1 DEF IInv, OneAtATime
    <3>3. StartConnected'
      BY <1>4, <1>5, <2>2, <2>3, <3>1 DEF IInv, MuxTypes, StartConnected
    <3> QED
      BY <3>2, <3>3
  <2> QED
    BY <1>6, <1>7, <1>8, <2>1, <2>4, <2>5, <2>6
<1>9. CASE state # Idle /\ SrcAck
  <2>1. /\ src' = [src EXCEPT ![state] = Taken(@)]
        /\ SourcesInStep'
        /\ \A u \in Sources \ {state} : src'[u] = src[u]
        /\ src'[state].type = "hold"
        /\ src'[state].index > 0 <=> src[state].index + 1 < src[state].length
        /\ src'[state].index > 0 => src'[state].dest = src[state].dest
    <3>1. SourcesClock({state}) /\ SourcesInStep
      BY <1>1, <1>9 DEF IInv
    <3>2. state \in Sources /\ \A u \in Sources \ {state} : ~MidPacket(u)
      BY <1>2, <1>9 DEF IInv, OneAtATime
    <3>3. src' = [src EXCEPT ![state] = Taken(@)]
      BY <3>1, <3>2, ClockOfOne
    <3>4. SourcesInStep'
      BY <3>1, ClockInStep
    <3>5. src[state] \in Word /\ InStep(src[state]) /\ src[state].type # "hold"
      BY <1>2, <1>9, <3>1 DEF SourcesInStep
    <3>6. /\ Taken(src[state]).type = "hold"
          /\ Taken(src[state]).index > 0 <=> src[state].index + 1 < src[state].length
          /\ Taken(src[state]).index > 0 => Taken(src[state]).dest = src[state].dest
      BY <3>5, TakenInStep
    <3>7. src'[state] = Taken(src[state]) /\ \A u \in Sources \ {state} : src'[u] = src[u]
      BY <3>1, <3>2, <3>3 DEF SourcesInStep
    <3> QED
      BY <3>3, <3>4, <3>6, <3>7
  <2>6. SourcesClock({state})
    BY <1>1, <1>9
  <2>2. \A u \in Sources \ {state} : ~MidPacket(u) /\ ~MidPacket(u)'
    BY <2>1 DEF IInv, OneAtATime, MidPacket
  <2>3. src[state] \in Word /\ InStep(src[state]) /\ src[state] # Quiet
    BY <1>2, <1>9 DEF IInv, SourcesInStep, Quiet
  <2>4. CASE src[state].index + 1 < src[state].length
    <3>1. ~Ends(state, src_first_word)
      BY <1>2, <1>9, <2>3, <2>4 DEF Ends, LastBit, InStep, Word
    <3>2. state' = state
      BY <1>1, <1>9, <3>1 DEF NextState
    <3> QED
      BY <1>2, <1>6, <1>7, <1>9, <2>1, <2>2, <2>6, <2>4, <3>2
         DEF StartConnected, OneAtATime, MidPacket
  <2>5. CASE ~(src[state].index + 1 < src[state].length)
    <3>1. Ends(state, src_first_word)
      BY <1>2, <1>9, <2>3, <2>5
         DEF Ends, LastBit, InStep, Word, Types, IInv, StartConnected, MidPacket, NoneLost
    <3>2. state' \in (Starting \ {state}) \cup {Idle}
      BY <1>1, <1>3, <1>9, <3>1 DEF NextState
    <3>3. state' # Idle => src_first_word' /\ src'[state'].type = "start"
      BY <1>1, <1>4, <2>1, <3>2 DEF NextFirst
    <3> QED
      BY <1>2, <1>6, <1>7, <1>9, <2>1, <2>2, <2>6, <2>5, <3>3
         DEF StartConnected, OneAtATime, MidPacket
  <2> QED
    BY <2>4, <2>5
<1> QED
  BY <1>1, <1>8, <1>9
-------------------------------------------------------------------------------
(* The demultiplexer's clock edge *)

\* The words stored before and after it, by the state it is in.
LEMMA DemuxMoves ==
    ASSUME DemuxTypes, NEW offered \in BOOLEAN, NEW word \in BufWord, NEW ready,
           DemuxClock(offered, word, ready),
           offered /\ ~Presents => First(word)
    PROVE  /\ DemuxTypes'
           /\ Current \in {0, 1} /\ Other \in {0, 1} /\ Other # Current
           /\ last_target' = SelectedTarget
           /\ ~Presents => /\ SrcAck /\ given' = Empty
                           /\ offered => /\ Presents' /\ SrcAck'
                                         /\ buffer'[Current'] = word
                           /\ ~offered => ~Presents' /\ SrcAck'
           /\ Presents /\ SelectedTarget \in ready =>
                 /\ given' = [target |-> SelectedTarget, word |-> buffer[Current]]
                 /\ SrcAck'
                 /\ SrcAck /\ ~offered => ~Presents'
                 /\ SrcAck /\ offered => Presents' /\ buffer'[Current'] = word
                 /\ ~SrcAck => Presents' /\ buffer'[Current'] = buffer[Other]
           /\ Presents /\ SelectedTarget \notin ready =>
                 /\ given' = Empty
                 /\ Presents' /\ buffer'[Current'] = buffer[Current]
                 /\ SrcAck /\ ~offered => SrcAck'
                 /\ SrcAck /\ offered => ~SrcAck' /\ buffer'[Other'] = word
                 /\ ~SrcAck => ~SrcAck' /\ buffer'[Other'] = buffer[Other]
<1> DEFINE ack == SelectedTarget \in ready
<1>1. /\ buf_state' = NextBufState(offered, word, ack)
      /\ buffer' = IF Stores(offered, word) THEN [buffer EXCEPT ![Filled] = word] ELSE buffer
      /\ last_target' = SelectedTarget
      /\ given' = IF Presents /\ ack
                  THEN [target |-> SelectedTarget, word |-> buffer[Current]]
                  ELSE Empty
  BY DEF DemuxClock
<1> HIDE DEF ack
<1>2. CASE buf_state = "idle"
  BY <1>1, <1>2 DEF DemuxTypes, NextBufState, Stores, Filled, Presents, SrcAck, Current, Other
<1>3. CASE buf_state = "0_rdy"
  BY <1>1, <1>3
     DEF ack, DemuxTypes, NextBufState, Stores, Filled, Presents, SrcAck, Current, Other, Ready, Pend
<1>4. CASE buf_state = "1_rdy"
  BY <1>1, <1>4
     DEF ack, DemuxTypes, NextBufState, Stores, Filled, Presents, SrcAck, Current, Other, Ready, Pend
<1>5. CASE buf_state = "0_rdy_1_pend"
  BY <1>1, <1>5
     DEF ack, DemuxTypes, NextBufState, Stores, Filled, Presents, SrcAck, Current, Other, Ready, Pend
<1>6. CASE buf_state = "1_rdy_0_pend"
  BY <1>1, <1>6
     DEF ack, DemuxTypes, NextBufState, Stores, Filled, Presents, SrcAck, Current, Other, Ready, Pend
<1> QED
  BY <1>2, <1>3, <1>4, <1>5, <1>6 DEF DemuxTypes
-------------------------------------------------------------------------------
\* The two clock edges fit: what the multiplexer forwards may be stored, and
\* follows what is stored.
LEMMA Joined ==
    ASSUME NoPauses, IInv, NEW ready \in SUBSET Targets, Clock(ready)
    PROVE  \E word \in BufWord :
              /\ DemuxClock(Forwards, word, ready)
              /\ Forwards => state \in Sources /\ word = WordOf(state)
              /\ Forwards /\ ~Presents => First(word)
              /\ Forwards /\ Presents => First(word) \/ word.dest = Newest.dest
<1> USE IdleIsNoSource
<1>1. MuxClock(SrcAck) /\ DemuxClock(Forwards, IF Forwards THEN WordOf(state) ELSE Blank, ready)
  BY DEF Clock
<1>2. CASE Forwards
  <2>1. state \in Sources /\ src[state] \in Word
    BY <1>2 DEF Forwards, IInv, MuxTypes, SourcesInStep
  <2>2. WordOf(state) \in BufWord
    BY <2>1 DEF WordOf, BufWord, Word
  <2>3. ~First(WordOf(state)) => MidPacket(state) /\ WordOf(state).dest = src[state].dest
    BY <2>1 DEF First, WordOf, MidPacket, Word
  <2> QED
    BY <1>1, <1>2, <2>1, <2>2, <2>3 DEF IInv, FollowsOn
<1>3. CASE ~Forwards
  <2>1. Blank \in BufWord
    BY DEF Blank, BufWord
  <2> QED
    BY <1>1, <1>3, <2>1
<1> QED
  BY <1>2, <1>3

\* No last word is lost: the target makes room while it is shown for the first time.
LEMMA LastsTaken ==
    ASSUME NoPauses, LastsHeld, IInv, NEW ready \in SUBSET Targets, Clock(ready)
    PROVE  NoneLost' /\ RoomForAgain'
<1> USE IdleIsNoSource
<1>1. MuxClock(SrcAck) /\ (~LateTargets => MakesRoom(ready))
  BY DEF Clock
<1>2. PICK word \in BufWord :
              /\ DemuxClock(Forwards, word, ready)
              /\ Forwards /\ ~Presents => First(word)
  BY Joined
<1>3. Forwards \in BOOLEAN /\ DemuxTypes /\ SourcesInStep
  BY DEF Forwards, IInv
<1>4. CASE Forwards /\ SrcAck
  <2>1. src' = [src EXCEPT ![state] = Taken(@)] /\ state \in Sources
        /\ \A u \in Sources \ {state} : ~MidPacket(u)
    BY <1>1, <1>4, MuxStep DEF Forwards, IInv, MuxTypes
  <2>2. src[state] \in Word /\ InStep(src[state]) /\ src[state].type # "hold"
    BY <1>3, <1>4, <2>1 DEF Forwards, SourcesInStep, Shown
  <2>3. Taken(src[state]).type = "hold"
    BY <2>2, TakenInStep
  <2>4. \A u \in Sources \ {state} : src[u].type \notin {"again", "lost"}
    BY <1>3, <2>1 DEF SourcesInStep, InStep, MidPacket
  <2>5. src'[state].type = "hold" /\ \A u \in Sources \ {state} : src'[u] = src[u]
    BY <1>3, <2>1, <2>3 DEF SourcesInStep
  <2>6. \A u \in Sources : src'[u].type \notin {"again", "lost"}
    BY <2>1, <2>4, <2>5
  <2> QED
    BY <2>6, PostbusAssumption DEF NoneLost, RoomForAgain
<1>5. CASE ~(Forwards /\ SrcAck)
  <2>1. \A s \in Sources : src'[s] = Refused(s, src[s])
    BY <1>1, <1>5, MuxStep
  <2>2. \A s \in Sources : MidPacket(s) => s = state /\ ~SrcAck
    BY <1>1, <1>5, MuxStep DEF IInv, OneAtATime
  <2>3. ASSUME NEW s \in Sources, s \in IoSources, src[s].type \in {"last", "again"}
        PROVE  src[s].type = "last" /\ SrcAck'
    <3>1. MidPacket(s) /\ s = state /\ ~SrcAck
      BY <1>3, <2>2, <2>3 DEF SourcesInStep, InStep, MidPacket
    <3>2. src[s].type = "last"
      BY <2>3, <3>1 DEF IInv, RoomForAgain
    <3>3. SelectedTarget \in ready
      BY <1>1, <2>3, <3>1, <3>2 DEF MakesRoom, LastsHeld
    <3>4. Presents
      BY <3>1 DEF Presents, SrcAck
    <3>5. SrcAck'
      BY <1>2, <1>3, <3>3, <3>4, DemuxMoves
    <3> QED
      BY <3>2, <3>5
  <2>4. ASSUME NEW s \in Sources
        PROVE  /\ src'[s].type # "lost"
               /\ s \in IoSources /\ src'[s].type = "again" => SrcAck'
    <3>1. src[s].type # "lost"
      BY DEF IInv, NoneLost
    <3>2. CASE s \in IoSources /\ src[s].type \in {"last", "again"}
      <4>1. src[s].type = "last" /\ SrcAck'
        BY <2>3, <3>2
      <4>2. src'[s].type = "again"
        BY <1>3, <2>1, <3>2, <4>1 DEF Refused, SourcesInStep, Word
      <4> QED
        BY <4>1, <4>2
    <3>3. CASE ~(s \in IoSources /\ src[s].type \in {"last", "again"})
      BY <2>1, <3>1, <3>3 DEF Refused
    <3> QED
      BY <3>2, <3>3
  <2> QED
    BY <2>4, PostbusAssumption DEF NoneLost, RoomForAgain
<1> QED
  BY <1>4, <1>5

LEMMA ClockIInv ==
    ASSUME NoPauses, LastsHeld, IInv, NEW ready \in SUBSET Targets, Clock(ready)
    PROVE  IInv'
<1> USE IdleIsNoSource
<1>1. PICK word \in BufWord :
              /\ DemuxClock(Forwards, word, ready)
              /\ Forwards => state \in Sources /\ word = WordOf(state)
              /\ Forwards /\ ~Presents => First(word)
              /\ Forwards /\ Presents => First(word) \/ word.dest = Newest.dest
  BY Joined
<1>2. MuxClock(SrcAck)
  BY DEF Clock
<1>3. SourcesInStep' /\ MuxTypes' /\ StartConnected' /\ OneAtATime'
  BY <1>2, MuxStep DEF MuxTypes
<1> DEFINE ack == SelectedTarget \in ready
<1>4. Forwards \in BOOLEAN /\ DemuxTypes
  BY DEF Forwards, IInv
<1>5. /\ DemuxTypes'
      /\ last_target' = SelectedTarget
      /\ ~Presents => /\ SrcAck
                      /\ Forwards => Presents' /\ SrcAck' /\ buffer'[Current'] = word
                      /\ ~Forwards => ~Presents' /\ SrcAck'
      /\ Presents /\ ack =>
            /\ SrcAck'
            /\ SrcAck /\ ~Forwards => ~Presents'
            /\ SrcAck /\ Forwards => Presents' /\ buffer'[Current'] = word
            /\ ~SrcAck => Presents' /\ buffer'[Current'] = buffer[Other]
      /\ Presents /\ ~ack =>
            /\ Presents' /\ buffer'[Current'] = buffer[Current]
            /\ SrcAck /\ ~Forwards => SrcAck'
            /\ SrcAck /\ Forwards => ~SrcAck' /\ buffer'[Other'] = word
            /\ ~SrcAck => ~SrcAck' /\ buffer'[Other'] = buffer[Other]
  BY <1>1, <1>4, DemuxMoves
<1>6. Presents => SelectedTarget = buffer[Current].dest
  BY DEF IInv, TargetFollows
<1> HIDE DEF ack
<1>7. /\ SrcAck /\ Forwards => Presents' /\ Newest' = word
      /\ ~SrcAck => Presents /\ Presents' /\ Newest' = Newest
  BY <1>5 DEF Newest, Presents, SrcAck
<1>8. FollowsOn'
  <2> SUFFICES ASSUME NEW s \in Sources, MidPacket(s)'
               PROVE  Presents' /\ src'[s].dest = Newest'.dest
    BY DEF FollowsOn
  <2>1. CASE Forwards /\ SrcAck
    <3>1. s = state /\ src'[s].dest = src[s].dest
      BY <1>2, <2>1, MuxStep
    <3> QED
      BY <1>1, <1>7, <2>1, <3>1 DEF WordOf
  <2>2. CASE ~(Forwards /\ SrcAck)
    <3>1. src'[s].dest = src[s].dest /\ MidPacket(s)
      BY <1>2, <2>2, MuxStep DEF MidPacket
    <3>2. Forwards
      BY <1>2, <3>1, MuxStep DEF IInv, OneAtATime
    <3> QED
      BY <1>7, <2>2, <3>1, <3>2 DEF IInv, FollowsOn
  <2> QED
    BY <2>1, <2>2
<1>9. Consecutive'
  BY <1>1, <1>5 DEF IInv, Consecutive, First, Newest
<1>10. TargetFollows'
  <2> SUFFICES ASSUME Presents', ~First(buffer'[Current'])
               PROVE  SelectedTarget = buffer'[Current'].dest
    BY <1>5 DEF TargetFollows, SelectedTarget
  <2> QED
    BY <1>1, <1>5, <1>6 DEF IInv, Consecutive, First, Newest
<1>11. NoneLost' /\ RoomForAgain'
  BY LastsTaken
<1> QED
  BY <1>3, <1>5, <1>8, <1>9, <1>10, <1>11 DEF IInv

LEMMA Invariance == NoPauses /\ LastsHeld => (Spec => []IInv)
<1>1. SUFFICES ASSUME NoPauses, LastsHeld PROVE Spec => []IInv
  OBVIOUS
<1>2. IInv /\ UNCHANGED vars => IInv'
  BY DEF vars, muxVars, demuxVars, IInv, NoneLost, RoomForAgain, SourcesInStep, MuxTypes, DemuxTypes, StartConnected,
         OneAtATime, MidPacket, FollowsOn, Consecutive, TargetFollows, Newest, Presents, SrcAck,
         Current, Other, SelectedTarget
<1>3. IInv /\ [Next]_vars => IInv'
  BY <1>1, <1>2, ClockIInv, OfferIInv DEF Next
<1> QED
  BY InitIInv, <1>3, PTL DEF Spec

\* The target register of postbus_register_demux.cdl, which lags a clock behind the
\* first word, is right for every later word of a packet.
THEOREM TargetAlwaysFollows == NoPauses /\ LastsHeld => (Spec => []TargetFollows)
<1>1. IInv => TargetFollows
  BY DEF IInv
<1> QED
  BY <1>1, Invariance, PTL
-------------------------------------------------------------------------------
(* Types, pauses within packets included *)

\* What a buffer holds while it counts.
Stored ==
    /\ Presents => buffer[Current] \in Words /\ SelectedTarget \in Targets
    /\ ~SrcAck => buffer[Other] \in Words

DemuxRegisters ==
    /\ buf_state \in {"idle", "0_rdy", "1_rdy", "0_rdy_1_pend", "1_rdy_0_pend"}
    /\ buffer \in [{0, 1} -> Words \cup {Blank}]
    /\ last_target \in 0..3
    /\ given = Empty \/ (given.target \in Targets /\ given.word \in Words)
    /\ Stored

Registers == SourcesInStep /\ MuxTypes /\ DemuxRegisters

LEMMA DestsAreTargets ==
    /\ Targets \subseteq 0..3
    /\ \A w \in Words : w.dest \in Targets
    /\ \A w \in Words \cup {Blank} : w.dest \in 0..3
<1>1. Targets \subseteq 0..3
  BY PostbusAssumption
<1>2. \A w \in Words : w.dest \in Targets
  BY DEF Words
<1>3. Blank.dest = 0
  BY DEF Blank
<1>4. ASSUME NEW w \in Words \cup {Blank} PROVE w.dest \in 0..3
  <2>1. CASE w \in Words
    <3>1. w.dest \in Targets
      BY <1>2, <2>1
    <3> QED
      BY <1>1, <3>1
  <2>2. CASE w = Blank
    BY <1>3, <2>2
  <2> QED
    BY <2>1, <2>2
<1> QED
  BY <1>1, <1>2, <1>4

\* A pause may lose a word, but no buffer is presented that was not filled, and
\* the first word presented after the demultiplexer ran empty selects its target.
LEMMA DemuxRegistersClock ==
    ASSUME DemuxRegisters, NEW offered \in BOOLEAN, NEW word \in Words \cup {Blank},
           offered => word \in Words, NEW ready, DemuxClock(offered, word, ready)
    PROVE  DemuxRegisters'
<1> DEFINE ack == SelectedTarget \in ready
<1>1. /\ buf_state' = NextBufState(offered, word, ack)
      /\ buffer' = IF Stores(offered, word) THEN [buffer EXCEPT ![Filled] = word] ELSE buffer
      /\ last_target' = SelectedTarget
      /\ given' = IF Presents /\ ack
                  THEN [target |-> SelectedTarget, word |-> buffer[Current]]
                  ELSE Empty
  BY DEF DemuxClock
<1> HIDE DEF ack
<1>2. /\ Current \in {0, 1} /\ Other \in {0, 1} /\ Other # Current
      /\ Filled \in {0, 1}
  BY DEF Current, Other, Filled
<1>3. SelectedTarget \in 0..3
  BY <1>2, DestsAreTargets DEF SelectedTarget, DemuxRegisters
<1>4. buffer' \in [{0, 1} -> Words \cup {Blank}]
  BY <1>1, <1>2 DEF DemuxRegisters
<1>5. (given = Empty \/ (given.target \in Targets /\ given.word \in Words))'
  BY <1>1 DEF DemuxRegisters, Stored, Empty
<1>6. CASE ~Presents
  <2>1. buf_state = "idle" /\ SrcAck
    BY <1>6 DEF Presents, SrcAck
  <2>2. CASE offered /\ First(word)
    <3>1. buf_state' = "0_rdy" /\ buffer'[0] = word /\ word \in Words
      BY <1>1, <2>1, <2>2 DEF NextBufState, Stores, Filled, DemuxRegisters
    <3>2. Stored'
      BY <2>2, <3>1, DestsAreTargets DEF Stored, Current, SrcAck, SelectedTarget, First
    <3> QED
      BY <1>1, <1>3, <1>4, <1>5, <3>1, <3>2 DEF DemuxRegisters
  <2>3. CASE ~(offered /\ First(word))
    <3>1. buf_state' = "idle"
      BY <1>1, <2>1, <2>3 DEF NextBufState
    <3>2. Stored'
      BY <3>1 DEF Stored, Presents, SrcAck
    <3> QED
      BY <1>1, <1>3, <1>4, <1>5, <3>1, <3>2 DEF DemuxRegisters
  <2> QED
    BY <2>2, <2>3
<1>7. CASE Presents
  <2>1. /\ SelectedTarget \in Targets /\ buffer[Current] \in Words
        /\ last_target' \in Targets
        /\ ~SrcAck => buffer[Other] \in Words
    BY <1>1, <1>7 DEF DemuxRegisters, Stored
  <2>2. buf_state' \in {"idle", "0_rdy", "1_rdy", "0_rdy_1_pend", "1_rdy_0_pend"}
    BY <1>1 DEF NextBufState, DemuxRegisters, Ready, Pend
  <2>3. Presents' => buffer'[Current'] \in Words
    <3>1. CASE buf_state = "0_rdy"
      BY <1>1, <2>1, <3>1
         DEF DemuxRegisters, NextBufState, Stores, Filled, Presents, SrcAck, Current, Other,
             Ready, Pend
    <3>2. CASE buf_state = "1_rdy"
      BY <1>1, <2>1, <3>2
         DEF DemuxRegisters, NextBufState, Stores, Filled, Presents, SrcAck, Current, Other,
             Ready, Pend
    <3>3. CASE ~SrcAck
      BY <1>1, <2>1, <3>3
         DEF DemuxRegisters, NextBufState, Stores, Filled, Presents, SrcAck, Current, Other,
             Ready, Pend
    <3> QED
      BY <1>7, <3>1, <3>2, <3>3 DEF Presents, SrcAck
  <2>4. ~SrcAck' => buffer'[Other'] \in Words
    <3>1. CASE buf_state = "0_rdy"
      BY <1>1, <2>1, <3>1
         DEF DemuxRegisters, NextBufState, Stores, Filled, Presents, SrcAck, Current, Other,
             Ready, Pend
    <3>2. CASE buf_state = "1_rdy"
      BY <1>1, <2>1, <3>2
         DEF DemuxRegisters, NextBufState, Stores, Filled, Presents, SrcAck, Current, Other,
             Ready, Pend
    <3>3. CASE ~SrcAck
      BY <1>1, <2>1, <3>3
         DEF DemuxRegisters, NextBufState, Stores, Filled, Presents, SrcAck, Current, Other,
             Ready, Pend
    <3> QED
      BY <1>7, <3>1, <3>2, <3>3 DEF Presents, SrcAck
  <2>5. Stored'
    BY <2>1, <2>3, <2>4, DestsAreTargets DEF Stored, SelectedTarget
  <2> QED
    BY <1>1, <1>3, <1>4, <1>5, <2>2, <2>5 DEF DemuxRegisters
<1> QED
  BY <1>6, <1>7

LEMMA RegistersClock ==
    ASSUME Registers, NEW ready \in SUBSET Targets, Clock(ready)
    PROVE  Registers'
<1>1. MuxClock(SrcAck) /\ DemuxClock(Forwards, IF Forwards THEN WordOf(state) ELSE Blank, ready)
  BY DEF Clock
<1>2. MuxTypes'
  <2>1. state' = NextState(state, src_first_word, state # Idle /\ ~SrcAck)
    BY <1>1 DEF MuxClock
  <2>2. state' \in Sources \cup {Idle}
    BY <2>1, ArbiterTypes DEF Registers, MuxTypes
  <2>3. src_first_word' \in BOOLEAN
    BY <1>1 DEF MuxClock, NextFirst, Registers, MuxTypes
  <2> QED
    BY <2>2, <2>3 DEF MuxTypes
<1>3. SourcesInStep'
  <2>1. SourcesClock(IF state # Idle /\ SrcAck THEN {state} ELSE {})
    BY <1>1 DEF MuxClock
  <2> QED
    BY <2>1, ClockInStep DEF Registers
<1>4. DemuxRegisters'
  <2> DEFINE word == IF Forwards THEN WordOf(state) ELSE Blank
  <2>1. Forwards => WordOf(state) \in Words
    <3> SUFFICES ASSUME Forwards PROVE WordOf(state) \in Words
      OBVIOUS
    <3>1. state \in Sources /\ src[state] \in Word /\ InStep(src[state])
          /\ src[state].type # "hold"
      BY DEF Forwards, Registers, MuxTypes, SourcesInStep, Shown
    <3>2. src[state] \in Presented
      BY <3>1, InStepIsPresented
    <3>3. src[state].dest \in Targets /\ src[state].index \in Places
      BY <3>2 DEF Presented
    <3> QED
      BY <3>1, <3>3 DEF WordOf, Words
  <2>2. word \in Words \cup {Blank} /\ (Forwards => word \in Words) /\ Forwards \in BOOLEAN
    BY <2>1 DEF Forwards
  <2>3. DemuxClock(Forwards, word, ready)
    BY <1>1
  <2> HIDE DEF word
  <2> QED
    BY <2>2, <2>3, DemuxRegistersClock DEF Registers
<1> QED
  BY <1>2, <1>3, <1>4 DEF Registers

\* The fabric's registers stay in range whether or not sources pause: the buffers
\* presented hold words of sources, and only targets in use are given any, even
\* after a word was lost in a pause (input_mux and register_demux).
THEOREM TreeTypeCorrect == Spec => []TypeOK
<1>1. Init => Registers
  <2> SUFFICES ASSUME Init PROVE Registers
    OBVIOUS
  <2>1. SourcesInStep
    BY QuietInStep DEF Init, MuxInit
  <2>2. MuxTypes
    BY DEF Init, MuxInit, MuxTypes
  <2>3. DemuxRegisters
    BY DEF Init, DemuxInit, DemuxRegisters, Stored, Presents, SrcAck
  <2> QED
    BY <2>1, <2>2, <2>3 DEF Registers
<1>2. Registers /\ [Next]_vars => Registers'
  <2>1. ASSUME Registers, UNCHANGED demuxVars PROVE DemuxRegisters'
    BY <2>1 DEF demuxVars, Registers, DemuxRegisters, Stored, Presents, SrcAck, Current, Other,
                SelectedTarget, Empty
  <2>2. ASSUME Registers, NEW s \in Sources, Offer(s) PROVE Registers'
    <3>1. SourcesInStep'
      BY <2>2, OfferInStep DEF Registers, Offer, MuxOffer
    <3>2. MuxTypes'
      BY <2>2 DEF Registers, MuxTypes, Offer, MuxOffer
    <3> QED
      BY <2>1, <2>2, <3>1, <3>2 DEF Registers, Offer
  <2>3. Registers /\ UNCHANGED vars => Registers'
    <3> SUFFICES ASSUME Registers, UNCHANGED vars PROVE Registers'
      OBVIOUS
    <3>1. DemuxRegisters'
      BY <2>1 DEF vars
    <3>2. SourcesInStep' /\ MuxTypes'
      BY DEF vars, muxVars, Registers, SourcesInStep, MuxTypes
    <3> QED
      BY <3>1, <3>2 DEF Registers
  <2> QED
    BY <2>2, <2>3, RegistersClock DEF Next
<1>3. Registers => TypeOK
  BY InStepIsPresented DEF Registers, SourcesInStep, MuxTypes, DemuxRegisters, TypeOK
<1> QED
  BY <1>1, <1>2, <1>3, PTL DEF Spec
-------------------------------------------------------------------------------
(* The tree implements PostbusFabric with two words of storage *)

LEMMA ShortSequences ==
    ASSUME NEW a, NEW b
    PROVE  /\ Append(<<>>, a) = <<a>> /\ Append(<<a>>, b) = <<a, b>>
           /\ <<a>> # <<>> /\ Head(<<a>>) = a /\ Tail(<<a>>) = <<>>
           /\ <<a, b>> # <<>> /\ Head(<<a, b>>) = a /\ Tail(<<a, b>>) = <<b>>
           /\ Len(<<>>) <= 2 /\ Len(<<a>>) <= 2 /\ Len(<<a, b>>) <= 2
<1>1. Append(<<a>>, b) = <<a, b>>
  <2>1. <<a>> \in Seq({a, b}) /\ <<a, b>> \in Seq({a, b})
    OBVIOUS
  <2>2. /\ Append(<<a>>, b) \in Seq({a, b})
        /\ Len(Append(<<a>>, b)) = 2
        /\ Append(<<a>>, b)[1] = a /\ Append(<<a>>, b)[2] = b
    BY <2>1, AppendProperties
  <2>3. Len(<<a, b>>) = 2 /\ <<a, b>>[1] = a /\ <<a, b>>[2] = b
    OBVIOUS
  <2> DEFINE s == Append(<<a>>, b)
             t == <<a, b>>
  <2>4. /\ s \in Seq({a, b}) /\ t \in Seq({a, b}) /\ Len(s) = Len(t)
        /\ s[1] = t[1] /\ s[2] = t[2] /\ Len(s) = 2
    BY <2>1, <2>2, <2>3
  <2> HIDE DEF s, t
  <2>5. \A i \in 1 .. Len(s) : s[i] = t[i]
    BY <2>4
  <2>6. s = t
    BY <2>4, <2>5, SeqEqual
  <2> QED
    BY <2>6 DEF s, t
<1> QED
  BY <1>1

\* The words stored, as the demultiplexer moves from clock to clock: those before,
\* with the word taken if there is one, without the word given if there is one.
LEMMA StoredWords ==
    ASSUME IInv, NEW ready, NEW word \in BufWord,
           DemuxClock(Forwards, word, ready),
           Forwards /\ ~Presents => First(word)
    PROVE  LET words == IF Forwards /\ SrcAck THEN Append(Buffered, word) ELSE Buffered
           IN  Fabric!Give(words) /\ Len(Buffered') <= 2
<1> DEFINE ack == SelectedTarget \in ready
           words == IF Forwards /\ SrcAck THEN Append(Buffered, word) ELSE Buffered
<1>1. Forwards \in BOOLEAN /\ DemuxTypes
  BY DEF Forwards, IInv
<1>2. Presents => SelectedTarget = buffer[Current].dest
  BY DEF IInv, TargetFollows
<1>3. /\ buffer[Current] \in BufWord /\ buffer[Other] \in BufWord
      /\ Presents => Buffered = IF SrcAck THEN <<buffer[Current]>>
                                ELSE <<buffer[Current], buffer[Other]>>
      /\ ~Presents => Buffered = <<>> /\ SrcAck
  BY <1>1 DEF DemuxTypes, Buffered, Presents, SrcAck, Current, Other
<1>4. /\ Presents' => Buffered' = IF SrcAck' THEN <<buffer'[Current']>>
                                  ELSE <<buffer'[Current'], buffer'[Other']>>
      /\ ~Presents' => Buffered' = <<>>
  BY DEF Buffered, Presents
<1>5. Empty = Fabric!Nothing
  BY DEF Empty, Fabric!Nothing, Fabric!Idle
<1>6. Len(Buffered') <= 2
  BY <1>4, ShortSequences
<1>7. CASE ~Presents
  <2>1. given' = Fabric!Nothing /\ Buffered' = words
    BY <1>1, <1>3, <1>4, <1>5, <1>7, DemuxMoves, ShortSequences
  <2> QED
    BY <1>6, <2>1 DEF Fabric!Give
<1>8. CASE Presents /\ ~ack
  <2>1. /\ given' = Empty
        /\ Presents' /\ buffer'[Current'] = buffer[Current]
        /\ SrcAck /\ ~Forwards => SrcAck'
        /\ SrcAck /\ Forwards => ~SrcAck' /\ buffer'[Other'] = word
        /\ ~SrcAck => ~SrcAck' /\ buffer'[Other'] = buffer[Other]
    BY <1>1, <1>8, DemuxMoves
  <2>2. Buffered' = words
    <3>1. CASE SrcAck /\ Forwards
      <4>1. Append(<<buffer[Current]>>, word) = <<buffer[Current], word>>
        BY ShortSequences
      <4>2. Buffered' = <<buffer[Current], word>> /\ Buffered = <<buffer[Current]>>
        BY <1>3, <1>4, <1>8, <2>1, <3>1
      <4> QED
        BY <3>1, <4>1, <4>2
    <3>2. CASE ~(SrcAck /\ Forwards)
      BY <1>3, <1>4, <1>8, <2>1, <3>2
    <3> QED
      BY <3>1, <3>2
  <2> QED
    BY <1>5, <1>6, <2>1, <2>2 DEF Fabric!Give
<1>9. CASE Presents /\ ack
  <2>1. /\ given' = [target |-> SelectedTarget, word |-> buffer[Current]]
        /\ SrcAck'
        /\ SrcAck /\ ~Forwards => ~Presents'
        /\ SrcAck /\ Forwards => Presents' /\ buffer'[Current'] = word
        /\ ~SrcAck => Presents' /\ buffer'[Current'] = buffer[Other]
    BY <1>1, <1>9, DemuxMoves
  <2>2. words # <<>> /\ Head(words) = buffer[Current] /\ Buffered' = Tail(words)
    <3>1. CASE SrcAck /\ Forwards
      <4>1. words = <<buffer[Current], word>>
        <5>1. Append(<<buffer[Current]>>, word) = <<buffer[Current], word>>
          BY ShortSequences
        <5> QED
          BY <1>3, <1>9, <3>1, <5>1
      <4>2. Buffered' = <<word>>
        BY <1>4, <2>1, <3>1
      <4> HIDE DEF words
      <4> QED
        BY <4>1, <4>2, ShortSequences
    <3>2. CASE SrcAck /\ ~Forwards
      BY <1>3, <1>4, <1>9, <2>1, <3>2, ShortSequences
    <3>3. CASE ~SrcAck
      <4>1. words = <<buffer[Current], buffer[Other]>>
        BY <1>3, <1>9, <3>3
      <4>2. Buffered' = <<buffer[Other]>>
        BY <1>4, <2>1, <3>3
      <4> HIDE DEF words
      <4> QED
        BY <4>1, <4>2, ShortSequences
    <3> QED
      BY <3>1, <3>2, <3>3
  <2> QED
    BY <1>2, <1>6, <1>9, <2>1, <2>2 DEF Fabric!Give
<1> QED
  BY <1>6, <1>7, <1>8, <1>9

\* The sources' edge as the fabric sees it, and its last conjunct.
LEMMA FabricClock ==
    ASSUME NEW acked, SourcesClock(acked), NoneLost'
    PROVE  Fabric!SourcesClock(acked) /\ \A s \in Sources : src'[s].type # "lost"
BY DEF SourcesClock, Fabric!SourcesClock, Taken, Fabric!Taken, Quiet, Fabric!Quiet,
       Refused, Fabric!Refused, NoneLost

LEMMA ClockIsFabricStep ==
    ASSUME NoPauses, LastsHeld, IInv, NEW ready \in SUBSET Targets, Clock(ready)
    PROVE  Fabric!Next
<1>1. PICK word \in BufWord :
              /\ DemuxClock(Forwards, word, ready)
              /\ Forwards => state \in Sources /\ word = WordOf(state)
              /\ Forwards /\ ~Presents => First(word)
  BY Joined
<1> DEFINE words == IF Forwards /\ SrcAck THEN Append(Buffered, word) ELSE Buffered
<1>2. Fabric!Give(words) /\ Len(Buffered') <= 2
  BY <1>1, StoredWords
<1>3. MuxClock(SrcAck)
  BY DEF Clock
<1>6. IInv'
  BY ClockIInv
<1>4. CASE Forwards /\ SrcAck
  <2>1. /\ SourcesClock({state})
        /\ \A u \in Sources \ {state} : ~MidPacket(u)
        /\ state \in Sources /\ Shown(src[state])
    BY <1>1, <1>3, <1>4, MuxStep DEF Forwards
  <2>2. Fabric!SourcesClock({state}) /\ \A s \in Sources : src'[s].type # "lost"
    BY <1>6, <2>1, FabricClock DEF IInv
  <2>3. Fabric!MayTake(state)
    BY <2>1 DEF Fabric!MayTake, Fabric!MidPacket, MidPacket, Shown, Fabric!Shown
  <2>4. Fabric!Give(Append(Buffered, Fabric!WordOf(state)))
    BY <1>1, <1>2, <1>4 DEF WordOf, Fabric!WordOf
  <2> QED
    BY <1>2, <2>1, <2>2, <2>3, <2>4 DEF Fabric!Take, Fabric!Next
<1>5. CASE ~(Forwards /\ SrcAck)
  <2>1. SourcesClock({})
    BY <1>3, <1>5, MuxStep
  <2>2. Fabric!SourcesClock({}) /\ \A s \in Sources : src'[s].type # "lost"
    BY <1>6, <2>1, FabricClock DEF IInv
  <2> QED
    BY <1>2, <1>5, <2>2 DEF Fabric!TakeNone, Fabric!Next
<1> QED
  BY <1>4, <1>5

LEMMA OfferIsFabricStep ==
    ASSUME IInv, NEW s \in Sources, Offer(s)
    PROVE  Fabric!Next
<1>1. Fabric!Start(s) \/ Fabric!Proceed(s)
  BY DEF Offer, MuxOffer, Start, Proceed, MidPacket,
         Fabric!Start, Fabric!Proceed, Fabric!MidPacket
<1>2. Buffered' = Buffered /\ given' = given
  BY DEF Offer, demuxVars, Buffered, SrcAck, Current, Other
<1>3. Len(Buffered) <= 2
  BY DEF Buffered
<1>4. NoneLost'
  BY OfferIInv DEF IInv
<1> QED
  BY <1>1, <1>2, <1>3, <1>4 DEF Fabric!Offer, Fabric!Next, NoneLost

\* Multiplexer and demultiplexer together lose, repeat, reorder and misdirect no
\* word of any packet whose source does not pause.
THEOREM TreeImplementsFabric == NoPauses /\ LastsHeld => (Spec => ImplementsFabric)
<1>1. SUFFICES ASSUME NoPauses, LastsHeld PROVE Spec => Fabric!Spec
  BY DEF ImplementsFabric
<1>2. Init => Fabric!Init
  BY DEF Init, MuxInit, DemuxInit, SrcInit, Fabric!Init, Fabric!SrcInit, Quiet, Fabric!Quiet,
         Empty, Fabric!Nothing, Fabric!Idle, Buffered
<1>3. IInv /\ [Next]_vars => [Fabric!Next]_(Fabric!vars)
  <2>1. IInv /\ Next => Fabric!Next
    BY <1>1, ClockIsFabricStep, OfferIsFabricStep DEF Next
  <2>2. UNCHANGED vars => UNCHANGED Fabric!vars
    BY DEF vars, muxVars, demuxVars, Fabric!vars, Buffered, SrcAck, Current, Other
  <2> QED
    BY <2>1, <2>2
<1>4. Spec => []IInv
  BY <1>1, Invariance
<1> QED
  BY <1>2, <1>3, <1>4, PTL DEF Spec, Fabric!Spec
===============================================================================
