------------------------------ MODULE GipEthProofs ------------------------------
(***************************************************************************)
(* For rings, packets, frames and bursts of any size and any watermark,    *)
(* the Ethernet driver keeps its rings in order, never reads a status that *)
(* is not there, and overruns the room in the transmit FIFO by no more     *)
(* than it promises; and if every frame fits a buffer it loses none.       *)
(***************************************************************************)
EXTENDS GipEth, SequenceTheorems, TLAPS

\* How many buffers there are from the one thread 6 sends next, or the one the
\* handler takes next, to another in the ring.
TxPos(b) == (b + NumTx - tx_hand.next) % NumTx
RxPos(b) == (b + NumRx - rx_next_buffer_rxed) % NumRx

\* The buffers posted, from thread 6's place on to the client's, hold the packets
\* posted; the others are free, but for the one the client is filling.
TxRing ==
    /\ Len(posted) <= NumTx
    /\ TxPos(tx_next_buffer_done) = IF Len(posted) = NumTx THEN 0 ELSE Len(posted)
    /\ \A b \in Tx :
          IF TxPos(b) < Len(posted)
          THEN tx[b].ready /\ ~tx[b].done /\ tx[b].packet = posted[TxPos(b) + 1]
          ELSE /\ ~tx[b].ready
               /\ tx[b].done <=> ~(xmit = "set_ready" /\ b = tx_next_buffer_done)
    /\ xmit = "set_ready" => /\ Len(posted) < NumTx
                             /\ tx[tx_next_buffer_done].packet \in Packets

\* The packet in hand is the first posted, and something of it is left to send
\* until its last burst is over.
TxHand ==
    /\ tx_hand.held => posted # <<>>
    /\ tx_hand.held /\ pc # "sent" => tx_hand.left > 0
    /\ pc = "send" => tx_hand.held /\ tx_hand.burst > 0 /\ tx_hand.burst <= tx_hand.left
    /\ pc = "sent" => tx_hand.held /\ tx_hand.burst = 0

\* The buffers owed, from the handler's place on to thread 6's, hold the frames
\* owed; none of the others is full, and the one being received into and the one
\* the handler has yet to release are two.
RxRing ==
    /\ Len(owed) <= NumRx
    /\ RxPos(rx_hand.next) = IF Len(owed) = NumRx THEN 0 ELSE Len(owed)
    /\ \A b \in Rx :
          IF RxPos(b) < Len(owed)
          THEN rx[b].ready /\ ~rx[b].done /\ rx[b].frame = owed[RxPos(b) + 1]
          ELSE ~rx[b].ready
    /\ rx_hand.held => Len(owed) < NumRx /\ ~rx[rx_hand.next].done
    /\ isr = "set_done" => /\ Len(owed) < NumRx /\ ~rx[Taken].done
                           /\ ~(rx_hand.held /\ rx_hand.next = Taken)

\* No buffer is given up half full.
NoneGivenUp ==
    \A b \in Rx :
        \/ RxPos(b) < Len(owed)
        \/ rx[b].done
        \/ rx_hand.held /\ rx_hand.next = b
        \/ isr = "set_done" /\ Taken = b

\* A status is announced among the headers; and it is announced there only once.
Brought(q) == \E i \in 1 .. Len(q) : q[i] = "status_vne"
BroughtOnce(q) ==
    \A i, j \in 1 .. Len(q) : q[i] = "status_vne" /\ q[j] = "status_vne" => i = j

\* Of the semaphore and its event under way there is one while there are statuses,
\* and none when there are not.
StatusOnce ==
    LET waking == pc = "status" /\ "status_vne" \in r13
        set == "status_vne" \in sem
        waits == "status_vne" \in pending
        comes == presented = "status_vne"
        brought == Brought(headers)
    IN  /\ status # <<>> <=> waking \/ set \/ waits \/ comes \/ brought
        /\ waking => ~set /\ ~waits /\ ~comes /\ ~brought
        /\ set => ~waits /\ ~comes /\ ~brought
        /\ waits => ~comes /\ ~brought
        /\ comes => ~brought
        /\ BroughtOnce(headers)

\* Every announcement of room may bring a burst.
Bursts(b) == IF b THEN Burst ELSE 0

\* How many of the first headers announce room.
Counts(q, count) ==
    /\ count[0] = 0
    /\ \A i \in 1 .. Len(q) :
          count[i] = count[i - 1] + (IF q[i] = "tx_data_vwm" THEN 1 ELSE 0)
    /\ \A i, j \in 0 .. Len(q) : 
          i <= j => count[i] <= count[j] /\ count[j] - count[i] <= j - i

\* All of them bring so many units.
Bring(q, units) ==
    \E count \in [0 .. Len(q) -> Nat] : Counts(q, count) /\ units = Burst * count[Len(q)]

RoomFor(units) ==
    LET coming == units + Bursts("tx_data_vwm" \in pending)
                        + Bursts(presented = "tx_data_vwm")
        room == Watermark + (Headers + 3) * Burst
    IN  /\ pc = "send" => fill + tx_hand.burst + coming <= room
        /\ pc # "send" => fill + coming + Bursts("tx_data_vwm" \in sem) <= room
        /\ pc \in {"status", "soft_irq", "tx_data"} /\ "tx_data_vwm" \in r13 =>
              "tx_data_vwm" \in sem

RoomAnnounced == \E units \in Nat : Bring(headers, units) /\ RoomFor(units)

NoBlock(q, first, last) == \A k \in first .. last : q[k].kind # "rx"

\* The statuses of blocks in a queue follow on one another; number says which block
\* of its frame each is.
QueueInOrder(q, number) ==
    /\ \A i \in 1 .. Len(q) : q[i].kind = "rx" =>
          /\ q[i].frame \in Frames
          /\ number[i] \in 1 .. q[i].frame
          /\ q[i].first <=> number[i] = 1
          /\ q[i].last <=> number[i] = q[i].frame
    /\ \A i, j \in 1 .. Len(q) :
          i < j /\ q[i].kind = "rx" /\ q[j].kind = "rx" /\ NoBlock(q, i + 1, j - 1) =>
             IF q[i].last THEN q[j].first
             ELSE number[j] = number[i] + 1 /\ q[j].frame = q[i].frame

\* The line follows on the last of them.
LineInOrder(q, number, l) ==
    /\ \A i \in 1 .. Len(q) : q[i].kind = "rx" /\ NoBlock(q, i + 1, Len(q)) =>
          l.left = q[i].frame - number[i] /\ l.frame = q[i].frame
    /\ l.left > 0 => l.left < l.frame /\ l.frame \in Frames

\* The first of them, or else the line, follows on what the buffer in hand has of
\* its frame, which is not all.
HandInOrder(q, number, l, length, frame) ==
    /\ length > 0 /\ length < frame
    /\ \A j \in 1 .. Len(q) : q[j].kind = "rx" /\ NoBlock(q, 1, j - 1) =>
          number[j] = length + 1 /\ q[j].frame = frame
    /\ NoBlock(q, 1, Len(q)) => l.left = frame - length /\ l.frame = frame

Stream ==
    \E number \in [1 .. Len(status) -> Nat] :
        /\ QueueInOrder(status, number)
        /\ LineInOrder(status, number, line)
        /\ rx_hand.held =>
              HandInOrder(status, number, line, rx_hand.length, rx[rx_hand.next].frame)

IInv ==
    /\ TypeOK
    /\ TxRing
    /\ TxHand
    /\ RxRing
    /\ StatusOnce
    /\ RoomAnnounced
    /\ Stream
-------------------------------------------------------------------------------
(* Places in a ring *)

LEMMA Sizes ==
    /\ NumTx \in Nat /\ NumTx > 0 /\ NumRx \in Nat /\ NumRx > 0
    /\ Burst \in Nat /\ Burst > 0 /\ BufferBlocks \in Nat /\ BufferBlocks > 0
    /\ StatusDepth \in Nat /\ StatusDepth > 0 /\ Watermark \in Nat
    /\ Headers \in Nat /\ Headers > 0
    /\ \A n \in Packets \cup Frames : n \in Nat /\ n > 0
BY EthAssumption

LEMMA Ring ==
    ASSUME NEW N \in Nat \ {0}, NEW h \in 0 .. N - 1, NEW b \in 0 .. N - 1
    PROVE  /\ (b + N - h) % N = IF b >= h THEN b - h ELSE b + N - h
           /\ (h + 1) % N = IF h = N - 1 THEN 0 ELSE h + 1
<1>1. CASE b >= h
  <2>1. b - h \in 0 .. N - 1 /\ b + N - h = N + (b - h)
    BY <1>1
  <2> QED
    BY <1>1, <2>1
<1>2. CASE b < h
  BY <1>2
<1> QED
  BY <1>1, <1>2

\* The buffer a number of places on.
LEMMA PlaceAt ==
    ASSUME NEW N \in Nat \ {0}, NEW h \in 0 .. N - 1, NEW i \in 1 .. N
    PROVE  LET b == (h + i - 1) % N
           IN  b \in 0 .. N - 1 /\ (IF b >= h THEN b - h ELSE b + N - h) = i - 1
<1>1. CASE h + i - 1 < N
  BY <1>1
<1>2. CASE h + i - 1 >= N
  <2>1. h + i - 1 = N + (h + i - 1 - N) /\ h + i - 1 - N \in 0 .. N - 1
    BY <1>2
  <2>2. (h + i - 1) % N = h + i - 1 - N
    BY <2>1
  <2> QED
    BY <1>2, <2>1, <2>2
<1> QED
  BY <1>1, <1>2

LEMMA TxPlaces ==
    ASSUME tx_hand.next \in Tx, NEW b \in Tx
    PROVE  /\ TxPos(b) \in 0 .. NumTx - 1
           /\ TxPos(b) = IF b >= tx_hand.next THEN b - tx_hand.next ELSE b + NumTx - tx_hand.next
           /\ NextTx(b) = IF b = NumTx - 1 THEN 0 ELSE b + 1
           /\ NextTx(b) \in Tx
           /\ TxPos(NextTx(b)) = IF TxPos(b) = NumTx - 1 THEN 0 ELSE TxPos(b) + 1
           /\ (b + NumTx - NextTx(tx_hand.next)) % NumTx =
                 IF b = tx_hand.next THEN NumTx - 1 ELSE TxPos(b) - 1
<1> DEFINE h == tx_hand.next
           From(x, y) == (x + NumTx - y) % NumTx
<1>1. NumTx \in Nat \ {0} /\ Tx = 0 .. NumTx - 1 /\ h \in Tx
  BY EthAssumption DEF Tx
<1>2. \A x, y \in Tx : From(x, y) = IF x >= y THEN x - y ELSE x + NumTx - y
  BY <1>1, Ring
<1>3. \A x \in Tx : NextTx(x) = IF x = NumTx - 1 THEN 0 ELSE x + 1
  BY <1>1, Ring DEF NextTx
<1>4. \A x \in Tx : TxPos(x) = From(x, h)
  BY DEF TxPos
<1>5. \A x \in Tx : NextTx(x) \in Tx
  BY <1>1, <1>3
<1>6. /\ b \in 0 .. NumTx - 1 /\ h \in 0 .. NumTx - 1 /\ NumTx \in Nat
      /\ NextTx(b) = IF b = NumTx - 1 THEN 0 ELSE b + 1
      /\ NextTx(h) = IF h = NumTx - 1 THEN 0 ELSE h + 1
      /\ TxPos(b) = IF b >= h THEN b - h ELSE b + NumTx - h
      /\ TxPos(NextTx(b)) = IF NextTx(b) >= h THEN NextTx(b) - h ELSE NextTx(b) + NumTx - h
      /\ From(b, NextTx(h)) = IF b >= NextTx(h) THEN b - NextTx(h) ELSE b + NumTx - NextTx(h)
  <2> HIDE DEF From, h
  <2>1. NextTx(b) \in Tx /\ NextTx(h) \in Tx /\ b \in Tx /\ h \in Tx
    BY <1>1, <1>5
  <2> QED
    BY <1>1, <1>2, <1>3, <1>4, <2>1
<1>7. /\ TxPos(b) \in 0 .. NumTx - 1
      /\ TxPos(NextTx(b)) = IF TxPos(b) = NumTx - 1 THEN 0 ELSE TxPos(b) + 1
      /\ From(b, NextTx(h)) = IF b = h THEN NumTx - 1 ELSE TxPos(b) - 1
  <2> DEFINE c == NextTx(b)
             g == NextTx(h)
             d == TxPos(b)
             e == TxPos(c)
             f == From(b, g)
  <2> HIDE DEF h, c, g, d, e, f
  <2>1. d \in 0 .. NumTx - 1
    BY <1>6 DEF d
  <2>2. e = IF d = NumTx - 1 THEN 0 ELSE d + 1
    BY <1>6 DEF c, d, e
  <2>3. f = IF b = h THEN NumTx - 1 ELSE d - 1
    BY <1>6 DEF g, d, f
  <2> QED
    BY <2>1, <2>2, <2>3 DEF c, d, e, f, g
<1> QED
  BY <1>5, <1>6, <1>7

LEMMA RxPlaces ==
    ASSUME rx_next_buffer_rxed \in Rx, NEW b \in Rx
    PROVE  /\ RxPos(b) \in 0 .. NumRx - 1
           /\ RxPos(b) = IF b >= rx_next_buffer_rxed THEN b - rx_next_buffer_rxed ELSE b + NumRx - rx_next_buffer_rxed
           /\ NextRx(b) = IF b = NumRx - 1 THEN 0 ELSE b + 1
           /\ NextRx(b) \in Rx
           /\ RxPos(NextRx(b)) = IF RxPos(b) = NumRx - 1 THEN 0 ELSE RxPos(b) + 1
           /\ (b + NumRx - NextRx(rx_next_buffer_rxed)) % NumRx =
                 IF b = rx_next_buffer_rxed THEN NumRx - 1 ELSE RxPos(b) - 1
<1> DEFINE h == rx_next_buffer_rxed
           From(x, y) == (x + NumRx - y) % NumRx
<1>1. NumRx \in Nat \ {0} /\ Rx = 0 .. NumRx - 1 /\ h \in Rx
  BY EthAssumption DEF Rx
<1>2. \A x, y \in Rx : From(x, y) = IF x >= y THEN x - y ELSE x + NumRx - y
  BY <1>1, Ring
<1>3. \A x \in Rx : NextRx(x) = IF x = NumRx - 1 THEN 0 ELSE x + 1
  BY <1>1, Ring DEF NextRx
<1>4. \A x \in Rx : RxPos(x) = From(x, h)
  BY DEF RxPos
<1>5. \A x \in Rx : NextRx(x) \in Rx
  BY <1>1, <1>3
<1>6. /\ b \in 0 .. NumRx - 1 /\ h \in 0 .. NumRx - 1 /\ NumRx \in Nat
      /\ NextRx(b) = IF b = NumRx - 1 THEN 0 ELSE b + 1
      /\ NextRx(h) = IF h = NumRx - 1 THEN 0 ELSE h + 1
      /\ RxPos(b) = IF b >= h THEN b - h ELSE b + NumRx - h
      /\ RxPos(NextRx(b)) = IF NextRx(b) >= h THEN NextRx(b) - h ELSE NextRx(b) + NumRx - h
      /\ From(b, NextRx(h)) = IF b >= NextRx(h) THEN b - NextRx(h) ELSE b + NumRx - NextRx(h)
  <2> HIDE DEF From, h
  <2>1. NextRx(b) \in Rx /\ NextRx(h) \in Rx /\ b \in Rx /\ h \in Rx
    BY <1>1, <1>5
  <2> QED
    BY <1>1, <1>2, <1>3, <1>4, <2>1
<1>7. /\ RxPos(b) \in 0 .. NumRx - 1
      /\ RxPos(NextRx(b)) = IF RxPos(b) = NumRx - 1 THEN 0 ELSE RxPos(b) + 1
      /\ From(b, NextRx(h)) = IF b = h THEN NumRx - 1 ELSE RxPos(b) - 1
  <2> DEFINE c == NextRx(b)
             g == NextRx(h)
             d == RxPos(b)
             e == RxPos(c)
             f == From(b, g)
  <2> HIDE DEF h, c, g, d, e, f
  <2>1. d \in 0 .. NumRx - 1
    BY <1>6 DEF d
  <2>2. e = IF d = NumRx - 1 THEN 0 ELSE d + 1
    BY <1>6 DEF c, d, e
  <2>3. f = IF b = h THEN NumRx - 1 ELSE d - 1
    BY <1>6 DEF g, d, f
  <2> QED
    BY <2>1, <2>2, <2>3 DEF c, d, e, f, g
<1> QED
  BY <1>5, <1>6, <1>7

\* The buffer the handler has just moved on from.
LEMMA TakenIs ==
    ASSUME rx_next_buffer_rxed \in Rx
    PROVE  /\ Taken \in Rx
           /\ Taken = IF rx_next_buffer_rxed = 0 THEN NumRx - 1 ELSE rx_next_buffer_rxed - 1
<1> DEFINE p == IF rx_next_buffer_rxed = 0 THEN NumRx - 1 ELSE rx_next_buffer_rxed - 1
<1>1. p \in Rx
  BY EthAssumption DEF Rx
<1>2. \A b \in Rx : NextRx(b) = rx_next_buffer_rxed <=> b = p
  BY RxPlaces, EthAssumption DEF Rx
<1> QED
  BY <1>1, <1>2 DEF Taken
-------------------------------------------------------------------------------
(* Headers *)

LEMMA Times ==
    /\ \A x \in Nat : Burst * x \in Nat
    /\ \A x \in Nat : Burst * (x + 1) = Burst * x + Burst
    /\ \A x, y \in Nat : x <= y => Burst * x <= y * Burst
    /\ (Headers + 3) * Burst = Headers * Burst + 3 * Burst
    /\ Headers * Burst \in Nat
BY Sizes

LEMMA BringEmpty == Bring(<<>>, 0)
<1> DEFINE count == [i \in 0 .. 0 |-> 0]
<1>1. Len(<<>>) = 0
  OBVIOUS
<1>2. count \in [0 .. 0 -> Nat] /\ Counts(<<>>, count) /\ Burst * count[0] = 0
  BY <1>1, Sizes DEF Counts
<1> QED
  BY <1>1, <1>2 DEF Bring

LEMMA BringBound ==
    ASSUME NEW q \in Seq(Events), NEW units, Bring(q, units)
    PROVE  units \in Nat /\ units <= Len(q) * Burst
<1>1. PICK count \in [0 .. Len(q) -> Nat] :
         Counts(q, count) /\ units = Burst * count[Len(q)]
  BY DEF Bring
<1> DEFINE c == count[Len(q)]
<1>2. Len(q) \in Nat /\ c \in Nat
  BY <1>1
<1>3. c <= Len(q)
  BY <1>1, <1>2 DEF Counts
<1> HIDE DEF c
<1>4. units = Burst * c
  BY <1>1 DEF c
<1> QED
  BY <1>2, <1>3, <1>4, Times

LEMMA BringAppend ==
    ASSUME NEW q \in Seq(Events), NEW e \in Events, NEW units, Bring(q, units)
    PROVE  Bring(Append(q, e), units + Bursts(e = "tx_data_vwm"))
<1> DEFINE n == Len(q)
           one == IF e = "tx_data_vwm" THEN 1 ELSE 0
           p == Append(q, e)
<1>1. PICK count \in [0 .. n -> Nat] : Counts(q, count) /\ units = Burst * count[n]
  BY DEF Bring
<1> DEFINE more == [i \in 0 .. n + 1 |-> IF i = n + 1 THEN count[n] + one ELSE count[i]]
<1>2. /\ n \in Nat /\ Len(p) = n + 1 /\ p[n + 1] = e
      /\ \A i \in 1 .. n : p[i] = q[i]
  BY AppendProperties
<1>3. /\ more \in [0 .. n + 1 -> Nat]
      /\ more[n + 1] = count[n] + one
      /\ \A i \in 0 .. n : more[i] = count[i] /\ count[i] \in Nat
      /\ one \in {0, 1}
  BY <1>1, <1>2
<1>4. Counts(p, more)
  <2> HIDE DEF more, p, one
  <2>1. more[0] = 0
    BY <1>1, <1>2, <1>3 DEF Counts
  <2>2. ASSUME NEW i \in 1 .. n + 1
        PROVE  more[i] = more[i - 1] + (IF p[i] = "tx_data_vwm" THEN 1 ELSE 0)
    <3>1. CASE i = n + 1
      BY <1>2, <1>3, <3>1 DEF one
    <3>2. CASE i # n + 1
      <4>1. i \in 1 .. n /\ i - 1 \in 0 .. n /\ i \in 0 .. n
        BY <1>2, <3>2
      <4> QED
        BY <1>1, <1>2, <1>3, <4>1 DEF Counts
    <3> QED
      BY <3>1, <3>2
  <2>3. ASSUME NEW i \in 0 .. n + 1, NEW j \in 0 .. n + 1, i <= j
        PROVE  more[i] <= more[j] /\ more[j] - more[i] <= j - i
    <3>1. CASE j # n + 1
      <4>1. i \in 0 .. n /\ j \in 0 .. n
        BY <1>2, <2>3, <3>1
      <4> QED
        BY <1>1, <1>3, <2>3, <4>1 DEF Counts
    <3>2. CASE j = n + 1 /\ i # n + 1
      <4>1. i \in 0 .. n /\ n \in 0 .. n /\ i <= n
        BY <1>2, <3>2
      <4>2. count[i] <= count[n] /\ count[n] - count[i] <= n - i
        BY <1>1, <4>1 DEF Counts
      <4> QED
        BY <1>2, <1>3, <3>2, <4>1, <4>2
    <3>3. CASE j = n + 1 /\ i = n + 1
      BY <1>2, <1>3, <3>3
    <3> QED
      BY <3>1, <3>2, <3>3
  <2> QED
    BY <1>2, <2>1, <2>2, <2>3 DEF Counts
<1>5. Burst * more[n + 1] = units + Bursts(e = "tx_data_vwm")
  <2>1. count[n] \in Nat
    BY <1>2, <1>3
  <2>2. CASE e = "tx_data_vwm"
    BY <1>1, <1>3, <2>1, <2>2, Times DEF Bursts
  <2>3. CASE e # "tx_data_vwm"
    BY <1>1, <1>3, <2>1, <2>3, Times DEF Bursts
  <2> QED
    BY <2>2, <2>3
<1> HIDE DEF more, p
<1> QED
  BY <1>2, <1>3, <1>4, <1>5 DEF Bring, p

LEMMA BringTail ==
    ASSUME NEW q \in Seq(Events), q # <<>>, NEW units, Bring(q, units)
    PROVE  \E rest \in Nat : /\ Bring(Tail(q), rest)
                             /\ units = rest + Bursts(Head(q) = "tx_data_vwm")
<1> DEFINE n == Len(q)
           p == Tail(q)
           one == IF q[1] = "tx_data_vwm" THEN 1 ELSE 0
<1>1. PICK count \in [0 .. n -> Nat] : Counts(q, count) /\ units = Burst * count[n]
  BY DEF Bring
<1> DEFINE less == [i \in 0 .. n - 1 |-> count[i + 1] - one]
<1>2. /\ n \in Nat /\ n > 0 /\ Len(p) = n - 1 /\ Head(q) = q[1]
      /\ \A i \in 1 .. n - 1 : p[i] = q[i + 1]
  BY HeadTailProperties, EmptySeq
<1>3. /\ \A i \in 0 .. n : count[i] \in Nat
      /\ count[1] = one /\ one \in {0, 1}
  BY <1>1, <1>2 DEF Counts
<1>4. \A i \in 0 .. n - 1 : count[i + 1] - one \in Nat
  <2> SUFFICES ASSUME NEW i \in 0 .. n - 1 PROVE count[i + 1] - one \in Nat
    OBVIOUS
  <2>1. 1 \in 0 .. n /\ i + 1 \in 0 .. n /\ 1 <= i + 1
    BY <1>2
  <2>2. count[1] <= count[i + 1]
    BY <1>1, <2>1 DEF Counts
  <2> HIDE DEF one
  <2> QED
    BY <1>3, <2>1, <2>2
<1>5. /\ less \in [0 .. n - 1 -> Nat]
      /\ \A i \in 0 .. n - 1 : less[i] = count[i + 1] - one
  BY <1>4
<1>6. Counts(p, less)
  <2> HIDE DEF less, p
  <2>1. less[0] = 0
    BY <1>2, <1>3, <1>5
  <2>2. ASSUME NEW i \in 1 .. n - 1
        PROVE  less[i] = less[i - 1] + (IF p[i] = "tx_data_vwm" THEN 1 ELSE 0)
    <3>1. /\ i \in 0 .. n - 1 /\ i - 1 \in 0 .. n - 1 /\ (i - 1) + 1 = i
          /\ i + 1 \in 1 .. n /\ (i + 1) - 1 = i /\ i \in 0 .. n
      BY <1>2
    <3>2. count[i + 1] = count[i] + (IF q[i + 1] = "tx_data_vwm" THEN 1 ELSE 0)
      BY <1>1, <3>1 DEF Counts
    <3>3. less[i] = count[i + 1] - one /\ less[i - 1] = count[i] - one /\ p[i] = q[i + 1]
      BY <1>2, <1>5, <3>1
    <3> HIDE DEF one
    <3>4. count[i] \in Nat
      BY <1>3, <3>1
    <3> QED
      BY <1>3, <3>2, <3>3, <3>4
  <2>3. ASSUME NEW i \in 0 .. n - 1, NEW j \in 0 .. n - 1, i <= j
        PROVE  less[i] <= less[j] /\ less[j] - less[i] <= j - i
    <3>1. i + 1 \in 0 .. n /\ j + 1 \in 0 .. n /\ i + 1 <= j + 1
      BY <1>2, <2>3
    <3>2. /\ count[i + 1] <= count[j + 1]
          /\ count[j + 1] - count[i + 1] <= (j + 1) - (i + 1)
      BY <1>1, <3>1 DEF Counts
    <3> HIDE DEF one
    <3> QED
      BY <1>3, <1>5, <3>1, <3>2
  <2> QED
    BY <1>2, <2>1, <2>2, <2>3 DEF Counts
<1> DEFINE rest == Burst * less[n - 1]
<1>7. less[n - 1] \in Nat /\ less[n - 1] = count[n] - one /\ count[n] \in Nat
  <2>1. n - 1 \in 0 .. n - 1 /\ (n - 1) + 1 = n /\ n \in 0 .. n
    BY <1>2
  <2> QED
    BY <1>3, <1>5, <2>1
<1>8. rest \in Nat /\ units = rest + Bursts(Head(q) = "tx_data_vwm")
  <2> DEFINE l == less[n - 1]
  <2>1. l \in Nat /\ Burst * l \in Nat /\ rest = Burst * l
    BY <1>7, Times
  <2>2. CASE one = 1
    <3>1. count[n] = l + 1 /\ Bursts(Head(q) = "tx_data_vwm") = Burst
      BY <1>2, <1>7, <2>2 DEF Bursts
    <3> HIDE DEF l, rest
    <3> QED
      BY <1>1, <2>1, <3>1, Times, Sizes
  <2>3. CASE one = 0
    <3>1. count[n] = l /\ Bursts(Head(q) = "tx_data_vwm") = 0
      BY <1>2, <1>7, <2>3 DEF Bursts
    <3> HIDE DEF l, rest
    <3> QED
      BY <1>1, <2>1, <3>1
  <2> HIDE DEF l
  <2> QED
    BY <1>3, <2>2, <2>3
<1>9. Bring(p, rest)
  <2> HIDE DEF less, p
  <2> QED
    BY <1>2, <1>5, <1>6 DEF Bring
<1> HIDE DEF rest
<1> QED
  BY <1>8, <1>9

\* What comes to the headers at their end, and what leaves them at their head.
LEMMA BroughtAppend ==
    ASSUME NEW q \in Seq(Events), NEW e \in Events
    PROVE  /\ Brought(Append(q, e)) <=> Brought(q) \/ e = "status_vne"
           /\ BroughtOnce(q) /\ ~(Brought(q) /\ e = "status_vne") =>
                 BroughtOnce(Append(q, e))
<1> DEFINE p == Append(q, e)
           n == Len(q)
<1>1. /\ n \in Nat /\ Len(p) = n + 1 /\ p[n + 1] = e
      /\ \A i \in 1 .. n : p[i] = q[i]
  BY AppendProperties
<1> HIDE DEF p
<1>2. Brought(p) <=> Brought(q) \/ e = "status_vne"
  BY <1>1 DEF Brought
<1>3. BroughtOnce(q) /\ ~(Brought(q) /\ e = "status_vne") => BroughtOnce(p)
  BY <1>1 DEF Brought, BroughtOnce
<1> QED
  BY <1>2, <1>3 DEF p

LEMMA BroughtTail ==
    ASSUME NEW q \in Seq(Events), q # <<>>, BroughtOnce(q)
    PROVE  /\ Brought(q) <=> Brought(Tail(q)) \/ Head(q) = "status_vne"
           /\ Head(q) = "status_vne" => ~Brought(Tail(q))
           /\ BroughtOnce(Tail(q))
<1> DEFINE p == Tail(q)
           n == Len(q)
<1>1. /\ n \in Nat /\ n > 0 /\ Len(p) = n - 1 /\ Head(q) = q[1]
      /\ \A i \in 1 .. n - 1 : p[i] = q[i + 1]
  BY HeadTailProperties, EmptySeq
<1> HIDE DEF p
<1>2. \A i \in 1 .. n : i = 1 \/ (i - 1 \in 1 .. n - 1 /\ (i - 1) + 1 = i)
  BY <1>1
<1>3. \A i \in 1 .. n - 1 : i + 1 \in 1 .. n /\ i + 1 # 1
  BY <1>1
<1>4. 1 \in 1 .. n
  BY <1>1
<1>5. Brought(q) <=> Brought(p) \/ Head(q) = "status_vne"
  <2>1. ASSUME NEW i \in 1 .. n, q[i] = "status_vne", i # 1
        PROVE  Brought(p)
    <3>1. i - 1 \in 1 .. n - 1 /\ p[i - 1] = q[i]
      BY <1>1, <1>2, <2>1
    <3> QED
      BY <1>1, <2>1, <3>1 DEF Brought
  <2>2. ASSUME NEW i \in 1 .. n - 1, p[i] = "status_vne"
        PROVE  Brought(q)
    BY <1>1, <1>3, <2>2 DEF Brought
  <2> QED
    BY <1>1, <1>4, <2>1, <2>2 DEF Brought
<1>6. Head(q) = "status_vne" => ~Brought(p)
  BY <1>1, <1>3, <1>4 DEF Brought, BroughtOnce
<1>7. BroughtOnce(p)
  BY <1>1, <1>3 DEF BroughtOnce
<1> QED
  BY <1>5, <1>6, <1>7 DEF p
-------------------------------------------------------------------------------
LEMMA InitIInv == Init => IInv
<1> SUFFICES ASSUME Init PROVE IInv
  OBVIOUS
<1>1. 0 \in Tx /\ 0 \in Rx
  BY EthAssumption DEF Tx, Rx
<1>2. /\ tx \in [Tx -> [ready : BOOLEAN, done : BOOLEAN, packet : Packets \cup {0}]]
      /\ rx \in [Rx -> [ready : BOOLEAN, done : BOOLEAN, frame : Frames \cup {0}]]
      /\ \A b \in Tx : ~tx[b].ready /\ tx[b].done
      /\ \A b \in Rx : ~rx[b].ready /\ rx[b].done
  BY DEF Init
<1>3. /\ posted = <<>> /\ owed = <<>> /\ status = <<>>
      /\ Len(posted) = 0 /\ Len(owed) = 0 /\ Len(status) = 0
  BY DEF Init
<1>4. TypeOK
  <2>1. /\ rx_hand \in [next : Rx, held : BOOLEAN, length : 0 .. BufferBlocks]
        /\ tx_hand \in [next : Tx, held : BOOLEAN, left : Nat, burst : Units, started : BOOLEAN]
        /\ line \in [frame : Frames \cup {0}, left : Nat]
    BY <1>1, EthAssumption DEF Init, Units
  <2>2. /\ owed \in Seq(Frames) /\ posted \in Seq(Packets) /\ status \in Seq(Status)
    BY <1>3, EmptySeq
  <2> QED
    <3>1. {r13, deps, sem} \subseteq SUBSET Semaphores /\ r12 \subseteq {"irq", "more"}
      BY DEF Init, Semaphores
    <3>2. pending \subseteq Events /\ presented \in Events \cup {NoEvent} /\ fill \in Nat
      BY DEF Init
    <3>7. headers \in Seq(Events) /\ Len(headers) <= Headers
      BY EmptySeq, Sizes DEF Init
    <3>3. /\ xmit \in {"idle", "set_ready", "signal"} /\ isr \in {"off", "check", "set_done"}
          /\ pc \in {"asleep", "status", "soft_irq", "tx_data", "send", "sent", "exit"}
          /\ irq \in BOOLEAN
      BY DEF Init
    <3>4. tx_next_buffer_done \in Tx /\ rx_next_buffer_rxed \in Rx
      BY <1>1 DEF Init
    <3>6. mac \in Seq(Nat \ {0})
      BY EmptySeq DEF Init
    <3>5. Len(status) <= StatusDepth /\ Len(owed) <= NumRx /\ Len(posted) <= NumTx
      BY <1>3, Sizes
    <3> QED
      BY <1>2, <2>1, <2>2, <3>1, <3>2, <3>3, <3>4, <3>5, <3>6, <3>7 DEF TypeOK
<1>5. TxRing
  <2>1. \A b \in Tx : TxPos(b) = b
    BY <1>1, TxPlaces, EthAssumption DEF Init, Tx
  <2> QED
    BY <1>1, <1>2, <1>3, <2>1, EthAssumption DEF Init, TxRing, Tx
<1>6. RxRing
  <2>1. \A b \in Rx : RxPos(b) = b
    BY <1>1, RxPlaces, EthAssumption DEF Init, Rx
  <2> QED
    BY <1>1, <1>2, <1>3, <2>1, EthAssumption DEF Init, RxRing, Rx
<1>7. StatusOnce /\ TxHand
  <2>1. Len(headers) = 0 /\ 1 .. 0 = {}
    BY DEF Init
  <2> QED
    BY <1>3, <2>1 DEF Init, StatusOnce, TxHand, NoEvent, Brought, BroughtOnce
<1>8. RoomAnnounced
  <2>1. Bring(headers, 0) /\ Headers * Burst \in Nat /\ (Headers + 3) * Burst = Headers * Burst + 3 * Burst
    BY BringEmpty, Times DEF Init
  <2>2. RoomFor(0)
    <3> DEFINE top == Headers * Burst
    <3>1. /\ pc = "asleep" /\ fill = 0 /\ "tx_data_vwm" \notin pending
          /\ presented # "tx_data_vwm"
      BY DEF Init, NoEvent
    <3>2. top \in Nat /\ (Headers + 3) * Burst = top + 3 * Burst
      BY <2>1
    <3>3. Bursts("tx_data_vwm" \in sem) \in {0, Burst}
      BY DEF Bursts
    <3> HIDE DEF top
    <3> QED
      BY <3>1, <3>2, <3>3, Sizes DEF RoomFor, Bursts
  <2> QED
    BY <2>1, <2>2 DEF RoomAnnounced
<1>9. Stream
  <2> DEFINE number == [i \in 1 .. Len(status) |-> 0]
  <2>1. /\ number \in [1 .. Len(status) -> Nat]
        /\ QueueInOrder(status, number) /\ LineInOrder(status, number, line) /\ ~rx_hand.held
    BY <1>3 DEF Init, QueueInOrder, LineInOrder
  <2> QED
    BY <2>1 DEF Stream
<1> QED
  BY <1>4, <1>5, <1>6, <1>7, <1>8, <1>9 DEF IInv
-------------------------------------------------------------------------------
(* The transmit ring *)

txVars == <<tx, tx_hand, xmit, tx_next_buffer_done, posted>>

TxTypes ==
    /\ tx \in [Tx -> [ready : BOOLEAN, done : BOOLEAN, packet : Packets \cup {0}]]
    /\ xmit \in {"idle", "set_ready", "signal"}
    /\ tx_next_buffer_done \in Tx
    /\ tx_hand \in [next : Tx, held : BOOLEAN, left : Nat, burst : Units, started : BOOLEAN]
    /\ posted \in Seq(Packets)

TxInv == TxTypes /\ TxRing /\ TxHand

LEMMA TxSame ==
    ASSUME TxInv, UNCHANGED txVars,
           pc' = pc \/ (pc # "sent" /\ pc' \notin {"send", "sent"})
    PROVE  TxInv'
<1>1. TxTypes'
  BY DEF TxInv, TxTypes, txVars
<1>2. TxRing'
  BY DEF TxInv, TxRing, TxPos, txVars
<1>3. TxHand'
  BY DEF TxInv, TxHand, txVars
<1> QED
  BY <1>1, <1>2, <1>3 DEF TxInv

\* The client's buffer is free if it is done.
LEMMA XmitFillTx ==
    ASSUME TxInv, NEW p \in Packets, XmitFill(p)
    PROVE  TxInv'
<1> USE DEF Tx
<1> DEFINE c == tx_next_buffer_done
<1>1. /\ tx[c].done /\ xmit = "idle" /\ xmit' = "set_ready" /\ c \in Tx
      /\ tx' = [tx EXCEPT ![c].packet = p, ![c].done = FALSE]
      /\ UNCHANGED <<tx_hand, tx_next_buffer_done, posted, pc>>
  BY DEF XmitFill, Client, thread, TxInv, TxTypes
<1>2. TxTypes'
  BY <1>1 DEF TxInv, TxTypes
<1>3. Len(posted) \in Nat /\ NumTx \in Nat /\ NumTx > 0
  BY Sizes DEF TxInv, TxTypes
<1>4. ~(TxPos(c) < Len(posted)) /\ ~tx[c].ready
  BY <1>1 DEF TxInv, TxRing
<1>5. Len(posted) < NumTx
  BY <1>3, <1>4 DEF TxInv, TxRing
<1>6. \A b \in Tx : /\ TxPos(b)' = TxPos(b)
                    /\ b # c => tx'[b] = tx[b]
  BY <1>1 DEF TxPos, TxInv, TxTypes
<1>7. tx'[c].packet = p /\ ~tx'[c].done /\ ~tx'[c].ready
  BY <1>1, <1>4 DEF TxInv, TxTypes
<1>8. TxRing'
  BY <1>1, <1>4, <1>5, <1>6, <1>7 DEF TxInv, TxRing
<1>9. TxHand'
  BY <1>1 DEF TxInv, TxHand
<1> QED
  BY <1>2, <1>8, <1>9 DEF TxInv

\* It becomes the last one posted.
LEMMA XmitSetReadyTx ==
    ASSUME TxInv, XmitSetReady
    PROVE  TxInv'
<1> DEFINE c == tx_next_buffer_done
           n == Len(posted)
<1>1. /\ xmit = "set_ready" /\ xmit' = "signal" /\ c \in Tx
      /\ tx' = [tx EXCEPT ![c].ready = TRUE]
      /\ posted' = Append(posted, tx[c].packet)
      /\ tx_next_buffer_done' = NextTx(c)
      /\ UNCHANGED <<tx_hand, pc>>
      /\ tx_hand.next \in Tx
  BY DEF XmitSetReady, Client, thread, TxInv, TxTypes
<1>2. /\ n < NumTx /\ tx[c].packet \in Packets /\ TxPos(c) = n
      /\ ~tx[c].ready /\ ~tx[c].done
      /\ n \in Nat /\ NumTx \in Nat /\ NumTx > 0
  BY <1>1, Sizes DEF TxInv, TxTypes, TxRing
<1>3. /\ posted' \in Seq(Packets) /\ Len(posted') = n + 1
      /\ \A i \in 1 .. n : posted'[i] = posted[i]
      /\ posted'[n + 1] = tx[c].packet
  BY <1>1, <1>2, AppendProperties DEF TxInv, TxTypes
<1>4. NextTx(c) \in Tx /\ \A b \in Tx : TxPos(b)' = TxPos(b)
  BY <1>1, TxPlaces DEF TxPos
<1>5. TxTypes'
  BY <1>1, <1>3, <1>4 DEF TxInv, TxTypes
<1>6. \A b \in Tx : TxPos(b) \in 0 .. NumTx - 1 /\ (TxPos(b) = n <=> b = c)
  <2>1. \A b \in Tx : TxPos(b) = IF b >= tx_hand.next THEN b - tx_hand.next
                                 ELSE b + NumTx - tx_hand.next
    BY <1>1, TxPlaces
  <2> QED
    BY <1>1, <1>2, <2>1 DEF Tx
<1>7. TxPos(NextTx(c)) = IF n + 1 = NumTx THEN 0 ELSE n + 1
  BY <1>1, <1>2, TxPlaces
<1>8. ASSUME NEW b \in Tx
      PROVE  IF TxPos(b) < n + 1
             THEN tx'[b].ready /\ ~tx'[b].done /\ tx'[b].packet = posted'[TxPos(b) + 1]
             ELSE ~tx'[b].ready /\ tx'[b].done
  <2>1. CASE b = c
    BY <1>1, <1>2, <1>3, <2>1 DEF TxInv, TxTypes
  <2>2. CASE b # c
    <3>1. tx'[b] = tx[b] /\ TxPos(b) # n /\ TxPos(b) \in Nat
      BY <1>1, <1>6, <2>2 DEF TxInv, TxTypes
    <3>2. TxPos(b) < n => posted'[TxPos(b) + 1] = posted[TxPos(b) + 1]
      BY <1>2, <1>3, <3>1
    <3> QED
      BY <1>2, <2>2, <3>1, <3>2 DEF TxInv, TxRing
  <2> QED
    BY <2>1, <2>2
<1>9. TxRing'
  <2>1. TxPos(tx_next_buffer_done)' = IF n + 1 = NumTx THEN 0 ELSE n + 1
    BY <1>1, <1>7 DEF TxPos
  <2>2. \A b \in Tx : IF TxPos(b)' < n + 1
                      THEN tx'[b].ready /\ ~tx'[b].done /\ tx'[b].packet = posted'[TxPos(b)' + 1]
                      ELSE ~tx'[b].ready /\ tx'[b].done
    BY <1>4, <1>8
  <2>3. Len(posted)' = n + 1 /\ n + 1 <= NumTx /\ xmit' # "set_ready"
    BY <1>1, <1>2, <1>3
  <2> QED
    BY <2>1, <2>2, <2>3 DEF TxRing
<1>10. TxHand'
  BY <1>1, <1>2, <1>3 DEF TxInv, TxHand
<1> QED
  BY <1>5, <1>9, <1>10 DEF TxInv

\* A buffer taken in hand is the first posted.
LEMMA TakeTxSound ==
    ASSUME TxTypes, TxRing, tx_hand.next \in Tx, tx[tx_hand.next].ready
    PROVE  posted # <<>> /\ tx[tx_hand.next].packet > 0 /\ tx[tx_hand.next].packet \in Nat
<1>1. TxPos(tx_hand.next) = 0
  BY TxPlaces, Sizes DEF Tx
<1>2. Len(posted) \in Nat /\ 0 < Len(posted)
  BY <1>1 DEF TxTypes, TxRing
<1>3. tx[tx_hand.next].packet = posted[1] /\ posted[1] \in Packets
  BY <1>1, <1>2 DEF TxTypes, TxRing
<1> QED
  BY <1>2, <1>3, Sizes

LEMMA HandleSoftIrqTx ==
    ASSUME TxInv, HandleSoftIrq
    PROVE  TxInv'
<1> DEFINE b == tx_hand.next
<1>1. /\ pc = "soft_irq" /\ pc' = "tx_data" /\ b \in Tx
      /\ UNCHANGED <<tx, xmit, tx_next_buffer_done, posted>>
  BY DEF HandleSoftIrq, client, TxInv, TxTypes
<1>2. CASE UNCHANGED tx_hand
  <2>1. UNCHANGED txVars
    BY <1>1, <1>2 DEF txVars
  <2> QED
    BY <1>1, <2>1, TxSame
<1>3. CASE tx[b].ready /\ TakeTx(tx, b)
  <2>1. posted # <<>> /\ tx[b].packet > 0 /\ tx[b].packet \in Nat
    BY <1>1, <1>3, TakeTxSound DEF TxInv
  <2>2. tx_hand' = [next |-> b, held |-> TRUE, left |-> tx[b].packet, burst |-> 0,
                    started |-> FALSE]
    BY <1>3 DEF TakeTx, TxInv, TxTypes
  <2>3. 0 \in Units
    BY Sizes DEF Units
  <2>4. TxTypes'
    BY <1>1, <2>1, <2>2, <2>3 DEF TxInv, TxTypes
  <2>5. TxRing'
    BY <1>1, <2>2 DEF TxInv, TxRing, TxPos
  <2>6. TxHand'
    BY <1>1, <2>1, <2>2 DEF TxHand
  <2> QED
    BY <2>4, <2>5, <2>6 DEF TxInv
<1> QED
  BY <1>2, <1>3 DEF HandleSoftIrq

\* Thread 6 works through the packet in hand.
LEMMA PacketInHandTx ==
    ASSUME TxInv, NEW l \in Nat, NEW u \in Units, NEW s \in BOOLEAN,
           UNCHANGED <<tx, xmit, tx_next_buffer_done, posted>>,
           tx_hand' = [tx_hand EXCEPT !.left = l, !.burst = u, !.started = s]
    PROVE  TxTypes' /\ TxRing'
<1>1. /\ tx_hand' \in [next : Tx, held : BOOLEAN, left : Nat, burst : Units, started : BOOLEAN]
      /\ tx_hand'.next = tx_hand.next
  BY DEF TxInv, TxTypes
<1>2. TxTypes'
  BY <1>1 DEF TxInv, TxTypes
<1>3. TxRing'
  BY <1>1 DEF TxInv, TxRing, TxPos
<1> QED
  BY <1>2, <1>3

LEMMA HandleTxDataTx ==
    ASSUME TxInv, HandleTxData
    PROVE  TxInv'
<1>1. /\ pc = "tx_data"
      /\ UNCHANGED <<tx, xmit, tx_next_buffer_done, posted>>
  BY DEF HandleTxData, client
<1>2. CASE UNCHANGED tx_hand /\ pc' = "exit"
  <2>1. UNCHANGED txVars
    BY <1>1, <1>2 DEF txVars
  <2> QED
    BY <1>1, <1>2, <2>1, TxSame
<1>3. ASSUME tx_hand.held, pc' = "send",
             tx_hand' = [tx_hand EXCEPT !.burst = IF tx_hand.left > Burst
                                                  THEN Burst ELSE tx_hand.left]
      PROVE  TxInv'
  <2> DEFINE u == IF tx_hand.left > Burst THEN Burst ELSE tx_hand.left
  <2>1. tx_hand.left \in Nat /\ tx_hand.left > 0 /\ posted # <<>>
    BY <1>1, <1>3 DEF TxInv, TxTypes, TxHand
  <2>2. u \in Units /\ u > 0 /\ u <= tx_hand.left
    BY <2>1, Sizes DEF Units
  <2>3. tx_hand' = [tx_hand EXCEPT !.left = tx_hand.left, !.burst = u,
                                   !.started = tx_hand.started]
    BY <1>3 DEF TxInv, TxTypes
  <2>4. TxTypes' /\ TxRing'
    BY <1>1, <2>1, <2>2, <2>3, PacketInHandTx DEF TxInv, TxTypes
  <2>5. tx_hand'.held /\ tx_hand'.left = tx_hand.left /\ tx_hand'.burst = u
    BY <1>3, <2>3 DEF TxInv, TxTypes
  <2>6. TxHand'
    BY <1>1, <1>3, <2>1, <2>2, <2>5 DEF TxHand
  <2> QED
    BY <2>4, <2>6 DEF TxInv
<1> QED
  BY <1>2, <1>3 DEF HandleTxData

LEMMA SendUnitTx ==
    ASSUME TxInv, SendUnit
    PROVE  TxInv'
<1> DEFINE l == tx_hand.left - 1
           u == tx_hand.burst - 1
<1>1. /\ pc = "send" /\ pc' = IF tx_hand.burst = 1 THEN "sent" ELSE "send"
      /\ tx_hand' = [tx_hand EXCEPT !.burst = u, !.left = l]
      /\ UNCHANGED <<tx, xmit, tx_next_buffer_done, posted>>
  BY DEF SendUnit, client
<1>2. /\ tx_hand.held /\ tx_hand.burst > 0 /\ tx_hand.burst <= tx_hand.left /\ posted # <<>>
      /\ tx_hand.left \in Nat /\ tx_hand.burst \in 0 .. Burst /\ Burst \in Nat
  BY <1>1, Sizes DEF TxInv, TxTypes, TxHand, Units
<1>3. l \in Nat /\ u \in Units
  BY <1>2 DEF Units
<1>4. tx_hand' = [tx_hand EXCEPT !.left = l, !.burst = u, !.started = tx_hand.started]
  BY <1>1 DEF TxInv, TxTypes
<1>5. TxTypes' /\ TxRing'
  <2> HIDE DEF l, u
  <2>1. tx_hand.started \in BOOLEAN
    BY DEF TxInv, TxTypes
  <2> QED
    BY <1>1, <1>3, <1>4, <2>1, PacketInHandTx
<1>6. tx_hand'.held /\ tx_hand'.left = l /\ tx_hand'.burst = u
  BY <1>2, <1>4 DEF TxInv, TxTypes
<1>7. TxHand'
  BY <1>1, <1>2, <1>6 DEF TxHand
<1> QED
  BY <1>5, <1>7 DEF TxInv

\* The packet sent was the first posted; the next buffer is in hand if it is full.
LEMMA BurstSentTx ==
    ASSUME TxInv, BurstSent
    PROVE  TxInv'
<1> DEFINE b == tx_hand.next
           q == NextTx(b)
           c == tx_next_buffer_done
           n == Len(posted)
<1>1. /\ pc = "sent" /\ pc' = "exit"
      /\ UNCHANGED <<xmit, tx_next_buffer_done>>
      /\ b \in Tx /\ c \in Tx /\ tx_hand.held /\ posted # <<>>
      /\ tx_hand.left \in Nat /\ tx_hand.burst \in Units
  BY DEF BurstSent, client, TxInv, TxTypes, TxHand
<1>2. CASE tx_hand.left # 0
  <2>1. /\ tx_hand' = [tx_hand EXCEPT !.left = tx_hand.left, !.burst = tx_hand.burst,
                                      !.started = TRUE]
        /\ UNCHANGED <<tx, posted>>
    BY <1>2 DEF BurstSent, TxInv, TxTypes
  <2>2. TxTypes' /\ TxRing'
    BY <1>1, <2>1, PacketInHandTx
  <2>3. tx_hand'.held /\ tx_hand'.left = tx_hand.left
    BY <1>1, <2>1 DEF TxInv, TxTypes
  <2>4. TxHand'
    BY <1>1, <1>2, <2>1, <2>3 DEF TxHand
  <2> QED
    BY <2>2, <2>4 DEF TxInv
<1>3. CASE tx_hand.left = 0
  <2>1. /\ tx' = [tx EXCEPT ![b].ready = FALSE, ![b].done = TRUE]
        /\ TakeTx(tx', q)
        /\ posted' = Tail(posted)
    BY <1>3 DEF BurstSent
  <2>2. /\ n \in Nat /\ n > 0 /\ n <= NumTx /\ NumTx \in Nat
        /\ posted' \in Seq(Packets) /\ Len(posted') = n - 1
        /\ \A i \in 1 .. n - 1 : posted'[i] = posted[i + 1]
    BY <1>1, <2>1, Sizes, HeadTailProperties, EmptySeq DEF TxInv, TxTypes, TxRing
  <2>3. tx' \in [Tx -> [ready : BOOLEAN, done : BOOLEAN, packet : Packets \cup {0}]]
    BY <2>1 DEF TxInv, TxTypes
  <2>4. /\ tx'[b].done /\ ~tx'[b].ready
        /\ \A x \in Tx : x # b => tx'[x] = tx[x]
    BY <1>1, <2>1 DEF TxInv, TxTypes
  <2>5. q \in Tx
    BY <1>1, TxPlaces
  <2>6. /\ tx_hand'.next = q /\ tx_hand'.held = tx'[q].ready
        /\ tx'[q].ready => tx_hand'.left = tx'[q].packet
    BY <2>1 DEF TakeTx
  <2>7. TxTypes'
    <3>1. tx'[q].packet \in Nat /\ tx'[q].ready \in BOOLEAN
      BY <2>3, <2>5, Sizes
    <3>2. 0 \in Units
      BY Sizes DEF Units
    <3>3. tx_hand' \in [next : Tx, held : BOOLEAN, left : Nat, burst : Units, started : BOOLEAN]
      BY <2>1, <2>5, <3>1, <3>2 DEF TakeTx
    <3> QED
      BY <1>1, <2>2, <2>3, <3>3 DEF TxInv, TxTypes
  <2>8. \A x \in Tx : /\ TxPos(x) \in 0 .. NumTx - 1
                      /\ TxPos(x)' = IF x = b THEN NumTx - 1 ELSE TxPos(x) - 1
                      /\ TxPos(x) = 0 <=> x = b
    <3> SUFFICES ASSUME NEW x \in Tx
                 PROVE  /\ TxPos(x) \in 0 .. NumTx - 1
                        /\ TxPos(x)' = IF x = b THEN NumTx - 1 ELSE TxPos(x) - 1
                        /\ TxPos(x) = 0 <=> x = b
      OBVIOUS
    <3>1. TxPos(x)' = (x + NumTx - q) % NumTx
      BY <2>6 DEF TxPos
    <3>2. (x + NumTx - q) % NumTx = IF x = b THEN NumTx - 1 ELSE TxPos(x) - 1
      BY <1>1, TxPlaces
    <3>3. /\ TxPos(x) \in 0 .. NumTx - 1
          /\ TxPos(x) = IF x >= b THEN x - b ELSE x + NumTx - b
      BY <1>1, TxPlaces
    <3>4. TxPos(x) = 0 <=> x = b
      BY <1>1, <2>2, <3>3 DEF Tx
    <3> QED
      BY <3>1, <3>2, <3>3, <3>4
  <2>9. TxPos(c)' = n - 1
    BY <1>1, <2>2, <2>8 DEF TxInv, TxRing
  <2>10. xmit = "set_ready" => c # b /\ n < NumTx
    BY <1>1, <2>2, <2>8 DEF TxInv, TxRing
  <2>11. ASSUME NEW x \in Tx
         PROVE  IF TxPos(x)' < n - 1
                THEN tx'[x].ready /\ ~tx'[x].done /\ tx'[x].packet = posted'[TxPos(x)' + 1]
                ELSE ~tx'[x].ready /\ (tx'[x].done <=> ~(xmit = "set_ready" /\ x = c))
    <3>1. CASE x = b
      <4>1. ~(TxPos(x)' < n - 1)
        BY <2>2, <2>8, <3>1
      <4> QED
        BY <2>4, <2>10, <3>1, <4>1
    <3>2. CASE x # b
      <4>1. TxPos(x)' = TxPos(x) - 1 /\ TxPos(x) \in 1 .. NumTx - 1 /\ tx'[x] = tx[x]
        BY <2>2, <2>4, <2>8, <3>2
      <4>2. CASE TxPos(x) < n
        <5>1. posted'[TxPos(x)' + 1] = posted[TxPos(x) + 1] /\ TxPos(x)' < n - 1
          BY <2>2, <4>1, <4>2
        <5> QED
          BY <4>1, <4>2, <5>1 DEF TxInv, TxRing
      <4>3. CASE ~(TxPos(x) < n)
        <5>1. ~(TxPos(x)' < n - 1)
          BY <2>2, <4>1, <4>3
        <5> QED
          BY <4>1, <4>3, <5>1 DEF TxInv, TxRing
      <4> QED
        BY <4>2, <4>3
    <3> QED
      BY <3>1, <3>2
  <2>12. TxRing'
    <3>1. Len(posted)' <= NumTx /\ n - 1 # NumTx /\ Len(posted)' = n - 1
      BY <2>2
    <3>2. xmit' = "set_ready" => Len(posted)' < NumTx /\ tx'[c].packet \in Packets
      BY <1>1, <2>2, <2>4, <2>10 DEF TxInv, TxRing
    <3> QED
      BY <1>1, <2>9, <2>11, <3>1, <3>2 DEF TxRing
  <2>13. ASSUME NEW x \in Tx, x = q, tx'[x].ready
         PROVE  posted' # <<>> /\ tx'[x].packet \in Nat /\ tx'[x].packet > 0
    <3>1. TxPos(x)' = 0
      <4>1. TxPos(b) = 0 /\ TxPos(x) = IF TxPos(b) = NumTx - 1 THEN 0 ELSE TxPos(b) + 1
        BY <1>1, <2>8, <2>13, TxPlaces
      <4> QED
        BY <2>2, <2>8, <4>1
    <3>2. 0 < n - 1 /\ tx'[x].packet = posted'[1]
      BY <2>11, <2>13, <3>1
    <3>3. posted'[1] \in Packets
      BY <2>2, <3>2
    <3> QED
      BY <2>2, <3>2, <3>3, Sizes
  <2>14. TxHand'
    <3>1. tx'[q].ready => posted' # <<>> /\ tx_hand'.left > 0
      BY <2>5, <2>6, <2>13
    <3> QED
      BY <1>1, <2>6, <3>1 DEF TxHand
  <2> QED
    BY <2>7, <2>12, <2>14 DEF TxInv
<1> QED
  BY <1>2, <1>3

LEMMA XmitSignalTx ==
    ASSUME TxInv, XmitSignal
    PROVE  TxInv'
<1>1. /\ xmit = "signal" /\ xmit' = "idle"
      /\ UNCHANGED <<tx, tx_hand, tx_next_buffer_done, posted, pc>>
  BY DEF XmitSignal, Client, thread
<1>2. TxTypes'
  BY <1>1 DEF TxInv, TxTypes
<1>3. TxRing'
  BY <1>1 DEF TxInv, TxRing, TxPos
<1>4. TxHand'
  BY <1>1 DEF TxInv, TxHand
<1> QED
  BY <1>2, <1>3, <1>4 DEF TxInv

LEMMA HardwareTx ==
    ASSUME Hardware \/ FrameContinues \/ \E n \in Frames : FrameStarts(n)
    PROVE  /\ UNCHANGED <<tx, rx, client, thread, irq, owed, posted>>
           /\ UNCHANGED <<xmit, tx_next_buffer_done, isr, rx_next_buffer_rxed,
                          pc, r12, r13, deps, rx_hand, tx_hand>>
           /\ Goes
BY DEF Hardware, MacReads, MacUnderruns, MacSends, Present, TakeCommand, SetSemaphore, FrameContinues,
       FrameStarts, Arrives, client, thread

LEMMA TxNext == TxInv /\ [Next]_vars => TxInv'
<1> SUFFICES ASSUME TxInv, [Next]_vars
             PROVE  TxInv'
  OBVIOUS
<1> DEFINE Same == UNCHANGED txVars /\ (pc' = pc \/ (pc # "sent" /\ pc' \notin {"send", "sent"}))
<1>1. Same => TxInv'
  BY TxSame
<1>2. CASE \E p \in Packets : XmitFill(p)
  BY <1>2, XmitFillTx
<1>3. CASE XmitGoesOn
  BY <1>3, XmitSetReadyTx, XmitSignalTx DEF XmitGoesOn
<1>4. CASE IsrEnter
  BY <1>1, <1>4 DEF IsrEnter, thread, txVars
<1>5. CASE IsrGoesOn
  BY <1>1, <1>5 DEF IsrGoesOn, IsrTake, IsrExit, IsrSetDone, thread, txVars
<1>6. CASE Wake \/ NoStatus \/ Deschedule
  BY <1>1, <1>6 DEF Wake, NoStatus, Deschedule, client, txVars
<1>7. CASE TxStatus \/ ReceiveBlock \/ DiscardBlock
  BY <1>1, <1>7 DEF TxStatus, ReceiveBlock, DiscardBlock, ReadStatus, client, txVars
<1>8. CASE HandleSoftIrq \/ HandleTxData \/ SendUnit \/ BurstSent
  BY <1>8, HandleSoftIrqTx, HandleTxDataTx, SendUnitTx, BurstSentTx
<1>9. CASE Hardware \/ FrameContinues \/ \E n \in Frames : FrameStarts(n)
  BY <1>1, <1>9, HardwareTx DEF txVars
<1>10. CASE UNCHANGED vars
  BY <1>1, <1>10 DEF vars, client, thread, txVars
<1> QED
  BY <1>2, <1>3, <1>4, <1>5, <1>6, <1>7, <1>8, <1>9, <1>10 DEF Next, Thread6
-------------------------------------------------------------------------------
(* The receive ring *)

rxVars == <<rx, rx_hand, isr, rx_next_buffer_rxed, owed>>

RxTypes ==
    /\ rx \in [Rx -> [ready : BOOLEAN, done : BOOLEAN, frame : Frames \cup {0}]]
    /\ isr \in {"off", "check", "set_done"}
    /\ rx_next_buffer_rxed \in Rx
    /\ rx_hand \in [next : Rx, held : BOOLEAN, length : 0 .. BufferBlocks]
    /\ owed \in Seq(Frames)

RxInv == RxTypes /\ RxRing

LEMMA RxSame ==
    ASSUME RxInv, UNCHANGED <<rx, rx_hand, rx_next_buffer_rxed, owed>>,
           isr' = isr \/ isr' \in {"off", "check"}
    PROVE  RxInv'
<1>1. RxTypes'
  BY DEF RxInv, RxTypes
<1>2. RxRing'
  BY DEF RxInv, RxRing, RxPos, Taken
<1> QED
  BY <1>1, <1>2 DEF RxInv

\* A place is given to the handler next if the place before it has been taken.
LEMMA TakenOf ==
    ASSUME rx_next_buffer_rxed \in Rx, NEW x \in Rx
    PROVE  (CHOOSE b \in Rx : NextRx(b) = NextRx(x)) = x
<1>1. \A b \in Rx : NextRx(b) = IF b = NumRx - 1 THEN 0 ELSE b + 1
  BY RxPlaces
<1>2. \A b \in Rx : NextRx(b) = NextRx(x) <=> b = x
  BY <1>1, Sizes DEF Rx
<1> QED
  BY <1>2

\* Where the places of the handler, of thread 6 and of the buffer taken are.
LEMMA RxPosOf ==
    ASSUME rx_next_buffer_rxed \in Rx
    PROVE  /\ \A x \in Rx : /\ RxPos(x) \in 0 .. NumRx - 1
                            /\ RxPos(x) = 0 <=> x = rx_next_buffer_rxed
                            /\ \A y \in Rx : RxPos(x) = RxPos(y) => x = y
           /\ Taken \in Rx /\ RxPos(Taken) = NumRx - 1
<1> DEFINE h == rx_next_buffer_rxed
<1>1. \A x \in Rx : RxPos(x) = IF x >= h THEN x - h ELSE x + NumRx - h
  BY RxPlaces
<1>2. /\ Taken \in Rx
      /\ Taken = IF h = 0 THEN NumRx - 1 ELSE h - 1
  BY TakenIs
<1>3. RxPos(Taken) = NumRx - 1
  BY <1>1, <1>2, Sizes DEF Rx
<1> QED
  BY <1>1, <1>2, <1>3, Sizes DEF Rx

LEMMA IsrTakeRx ==
    ASSUME RxInv, IsrTake
    PROVE  RxInv'
<1> DEFINE h == rx_next_buffer_rxed
           b == rx_hand.next
           n == Len(owed)
<1>1. /\ isr = "check" /\ isr' = "set_done" /\ rx[h].ready
      /\ owed' = Tail(owed) /\ rx_next_buffer_rxed' = NextRx(h)
      /\ rx' = [rx EXCEPT ![h].ready = FALSE]
      /\ UNCHANGED rx_hand
      /\ h \in Rx /\ b \in Rx
  BY DEF IsrTake, thread, RxInv, RxTypes
<1>2. \A x \in Rx : RxPos(x) \in 0 .. NumRx - 1 /\ (RxPos(x) = 0 <=> x = h)
  BY <1>1, RxPosOf
<1>3. n \in Nat /\ n > 0 /\ n <= NumRx /\ NumRx \in Nat /\ ~rx[h].done
  BY <1>1, <1>2, Sizes DEF RxInv, RxTypes, RxRing
<1>4. /\ owed' \in Seq(Frames) /\ Len(owed') = n - 1
      /\ \A i \in 1 .. n - 1 : owed'[i] = owed[i + 1]
  BY <1>1, <1>3, HeadTailProperties, EmptySeq DEF RxInv, RxTypes
<1>5. /\ ~rx'[h].ready /\ ~rx'[h].done
      /\ \A x \in Rx : rx'[x].done = rx[x].done /\ (x # h => rx'[x] = rx[x])
  BY <1>1, <1>3 DEF RxInv, RxTypes
<1>6. RxTypes'
  <2>1. NextRx(h) \in Rx
    BY <1>1, RxPlaces
  <2> QED
    BY <1>1, <1>4, <2>1 DEF RxInv, RxTypes
<1>7. \A x \in Rx : RxPos(x)' = IF x = h THEN NumRx - 1 ELSE RxPos(x) - 1
  <2> SUFFICES ASSUME NEW x \in Rx
               PROVE  RxPos(x)' = IF x = h THEN NumRx - 1 ELSE RxPos(x) - 1
    OBVIOUS
  <2>1. RxPos(x)' = (x + NumRx - NextRx(h)) % NumRx
    BY <1>1 DEF RxPos
  <2> QED
    BY <1>1, <2>1, RxPlaces
<1>8. Taken' = h
  BY <1>1, TakenOf DEF Taken
<1>9. rx_hand.held => b # h
  BY <1>1, <1>2, <1>3 DEF RxInv, RxRing
<1>10. RxPos(b)' = n - 1
  BY <1>1, <1>2, <1>3, <1>7 DEF RxInv, RxRing
<1>11. ASSUME NEW x \in Rx
       PROVE  IF RxPos(x)' < n - 1
              THEN rx'[x].ready /\ ~rx'[x].done /\ rx'[x].frame = owed'[RxPos(x)' + 1]
              ELSE ~rx'[x].ready
  <2>1. CASE x = h
    BY <1>3, <1>5, <1>7, <2>1
  <2>2. CASE x # h
    <3>1. RxPos(x)' = RxPos(x) - 1 /\ RxPos(x) \in 1 .. NumRx - 1 /\ rx'[x] = rx[x]
      BY <1>2, <1>3, <1>5, <1>7, <2>2
    <3>2. CASE RxPos(x) < n
      <4>1. owed'[RxPos(x)' + 1] = owed[RxPos(x) + 1] /\ RxPos(x)' < n - 1
        BY <1>3, <1>4, <3>1, <3>2
      <4> QED
        BY <3>1, <3>2, <4>1 DEF RxInv, RxRing
    <3>3. CASE ~(RxPos(x) < n)
      <4>1. ~(RxPos(x)' < n - 1)
        BY <1>3, <3>1, <3>3
      <4> QED
        BY <3>1, <3>3, <4>1 DEF RxInv, RxRing
    <3> QED
      BY <3>2, <3>3
  <2> QED
    BY <2>1, <2>2
<1>12. RxRing'
  <2>1. Len(owed)' = n - 1 /\ n - 1 < NumRx /\ n - 1 <= NumRx /\ n - 1 # NumRx
    BY <1>3, <1>4
  <2>2. RxPos(rx_hand.next)' = n - 1
    BY <1>1, <1>10
  <2>3. rx_hand'.held => ~rx'[rx_hand'.next].done
    BY <1>1, <1>5 DEF RxInv, RxRing
  <2>4. ~rx'[Taken'].done /\ ~(rx_hand'.held /\ rx_hand'.next = Taken')
    BY <1>1, <1>5, <1>8, <1>9
  <2> QED
    BY <1>1, <1>11, <2>1, <2>2, <2>3, <2>4 DEF RxRing
<1> QED
  BY <1>6, <1>12 DEF RxInv

LEMMA IsrSetDoneRx ==
    ASSUME RxInv, IsrSetDone
    PROVE  RxInv'
<1> DEFINE t == Taken
           n == Len(owed)
<1>1. /\ isr = "set_done" /\ isr' = "check"
      /\ rx' = [rx EXCEPT ![t].done = TRUE]
      /\ UNCHANGED <<rx_hand, rx_next_buffer_rxed, owed>>
      /\ rx_next_buffer_rxed \in Rx
  BY DEF IsrSetDone, thread, RxInv, RxTypes
<1>2. /\ t \in Rx /\ RxPos(t) = NumRx - 1
      /\ n \in Nat /\ n < NumRx /\ NumRx \in Nat
      /\ ~(rx_hand.held /\ rx_hand.next = t)
  BY <1>1, RxPosOf, Sizes DEF RxInv, RxTypes, RxRing
<1>3. \A x \in Rx : /\ RxPos(x)' = RxPos(x)
                    /\ x # t => rx'[x] = rx[x]
                    /\ rx'[x].ready = rx[x].ready
  BY <1>1, <1>2 DEF RxInv, RxTypes, RxPos
<1>4. \A x \in Rx : RxPos(x) < n => x # t
  BY <1>2
<1>5. RxTypes'
  BY <1>1 DEF RxInv, RxTypes
<1>6. RxRing'
  <2>1. rx_hand.next \in Rx
    BY DEF RxInv, RxTypes
  <2>2. \A x \in Rx :
          IF RxPos(x)' < n
          THEN rx'[x].ready /\ ~rx'[x].done /\ rx'[x].frame = owed[RxPos(x)' + 1]
          ELSE ~rx'[x].ready
    BY <1>3, <1>4 DEF RxInv, RxRing
  <2>3. rx_hand.held => n < NumRx /\ ~rx'[rx_hand.next].done
    BY <1>2, <1>3, <2>1 DEF RxInv, RxRing
  <2>4. n <= NumRx /\ RxPos(rx_hand.next)' = IF n = NumRx THEN 0 ELSE n
    BY <1>1, <1>3, <2>1 DEF RxInv, RxRing, RxPos
  <2> QED
    BY <1>1, <2>2, <2>3, <2>4 DEF RxRing
<1> QED
  BY <1>5, <1>6 DEF RxInv

\* What the first status in the queue says of the buffer in hand.
HeadFollows ==
    status # <<>> /\ status[1].kind = "rx" =>
       /\ status[1].frame \in Frames
       /\ rx_hand.held => /\ ~status[1].first /\ status[1].frame = rx[rx_hand.next].frame
                          /\ rx_hand.length < status[1].frame

\* The block's buffer is thread 6's place, after all that are owed, and it is
\* owed itself when the block is its last.
LEMMA ReceiveBlockRx ==
    ASSUME RxInv, status \in Seq(Status), status # <<>>, HeadFollows, ReceiveBlock
    PROVE  RxInv'
<1> DEFINE h == rx_next_buffer_rxed
           b == rx_hand.next
           n == Len(owed)
           s == Head(status)
           f == IF s.first THEN s.frame ELSE rx[b].frame
           l == IF s.last THEN 0 ELSE IF s.first THEN 1 ELSE rx_hand.length + 1
           q == NextRx(b)
<1>1. /\ s = status[1] /\ s \in Status /\ s.kind = "rx" /\ Keeps(s)
      /\ rx' = [rx EXCEPT ![b].done = FALSE, ![b].ready = @ \/ s.last,
                          ![b].frame = IF s.first THEN s.frame ELSE @]
      /\ rx_hand' = [next |-> IF s.last THEN q ELSE b, held |-> ~s.last, length |-> l]
      /\ owed' = IF s.last THEN Append(owed, s.frame) ELSE owed
      /\ UNCHANGED <<isr, rx_next_buffer_rxed>>
      /\ h \in Rx /\ b \in Rx
  BY DEF ReceiveBlock, ReadStatus, client, RxInv, RxTypes
<1>2. /\ s.first \in BOOLEAN /\ s.last \in BOOLEAN /\ s.frame \in Frames
      /\ rx_hand.held => ~s.first /\ s.frame = rx[b].frame
      /\ rx_hand.held \/ rx[b].done
      /\ ~s.first => rx_hand.held /\ rx_hand.length < BufferBlocks
  BY <1>1 DEF HeadFollows, Status, Keeps
<1>3. f = s.frame
  BY <1>2
<1>4. \A x \in Rx : RxPos(x) \in 0 .. NumRx - 1 /\ (RxPos(x) = 0 <=> x = h)
                    /\ \A y \in Rx : RxPos(x) = RxPos(y) => x = y
  BY <1>1, RxPosOf
<1>5. n \in Nat /\ n <= NumRx /\ NumRx \in Nat /\ NumRx > 0
  BY Sizes DEF RxInv, RxTypes, RxRing
<1>6. n < NumRx /\ RxPos(b) = n /\ ~rx[b].ready
  <2>1. CASE rx_hand.held
    BY <1>1, <1>4, <1>5, <2>1 DEF RxInv, RxRing
  <2>2. CASE rx[b].done
    BY <1>1, <1>4, <1>5, <2>2 DEF RxInv, RxRing
  <2> QED
    BY <1>2, <2>1, <2>2
<1>7. /\ rx' \in [Rx -> [ready : BOOLEAN, done : BOOLEAN, frame : Frames \cup {0}]]
      /\ ~rx'[b].done /\ rx'[b].frame = s.frame
      /\ rx'[b].ready = s.last
      /\ \A x \in Rx : x # b => rx'[x] = rx[x]
  <2>1. rx \in [Rx -> [ready : BOOLEAN, done : BOOLEAN, frame : Frames \cup {0}]]
    BY DEF RxInv, RxTypes
  <2>2. rx' = [rx EXCEPT ![b].done = FALSE, ![b].ready = rx[b].ready \/ s.last, ![b].frame = s.frame]
    BY <1>1, <1>3, <2>1
  <2> HIDE DEF b, s, f
  <2>3. rx[b].ready = FALSE
    BY <1>1, <1>6, <2>1
  <2>4. (rx[b].ready \/ s.last) = s.last
    BY <1>2, <2>3
  <2>5. rx' = [rx EXCEPT ![b].done = FALSE, ![b].ready = s.last, ![b].frame = s.frame]
    BY <2>2, <2>4
  <2> DEFINE v == s.last
  <2>6. v \in BOOLEAN /\ v = s.last
    BY <1>2
  <2> HIDE DEF v
  <2>7. rx' = [rx EXCEPT ![b].done = FALSE, ![b].ready = v, ![b].frame = s.frame]
    BY <2>5, <2>6
  <2>8. rx' \in [Rx -> [ready : BOOLEAN, done : BOOLEAN, frame : Frames \cup {0}]]
    <3>1. rx[b] \in [ready : BOOLEAN, done : BOOLEAN, frame : Frames \cup {0}]
      BY <1>1, <2>1
    <3>2. [[[rx[b] EXCEPT !.done = FALSE] EXCEPT !.ready = v] EXCEPT !.frame = s.frame] \in
              [ready : BOOLEAN, done : BOOLEAN, frame : Frames \cup {0}]
      BY <1>2, <2>6, <3>1
    <3>3. rx' = [rx EXCEPT ![b] =
                    [[[rx[b] EXCEPT !.done = FALSE] EXCEPT !.ready = v] EXCEPT !.frame = s.frame]]
      BY <1>1, <2>1, <2>7
    <3> QED
      BY <1>1, <2>1, <3>2, <3>3
  <2>9. /\ ~rx'[b].done /\ rx'[b].frame = s.frame /\ rx'[b].ready = v
        /\ \A x \in Rx : x # b => rx'[x] = rx[x]
    BY <1>1, <2>1, <2>7
  <2> QED
    BY <2>6, <2>8, <2>9
<1>8. q \in Rx /\ RxPos(q) = IF n = NumRx - 1 THEN 0 ELSE n + 1
  BY <1>1, <1>6, RxPlaces
<1>9. RxTypes'
  <2>1. l \in 0 .. BufferBlocks
    BY <1>2, Sizes DEF RxInv, RxTypes
  <2>2. rx_hand' \in [next : Rx, held : BOOLEAN, length : 0 .. BufferBlocks]
    BY <1>1, <1>2, <1>8, <2>1
  <2>3. owed' \in Seq(Frames)
    BY <1>1, <1>2, AppendProperties DEF RxInv, RxTypes
  <2> QED
    BY <1>1, <1>7, <2>2, <2>3 DEF RxInv, RxTypes
<1>10. \A x \in Rx : RxPos(x)' = RxPos(x)
  BY <1>1 DEF RxPos
<1>11. Taken' = Taken /\ (isr = "set_done" => Taken # b /\ Taken \in Rx /\ RxPos(Taken) = NumRx - 1)
  BY <1>1, <1>2, RxPosOf DEF RxInv, RxRing, Taken
<1>12. CASE ~s.last
  <2>1. owed' = owed /\ rx_hand'.next = b /\ rx_hand'.held
    BY <1>1, <1>12
  <2>2. \A x \in Rx : RxPos(x) < n => x # b
    BY <1>6
  <2>3. \A x \in Rx :
          IF RxPos(x)' < n
          THEN rx'[x].ready /\ ~rx'[x].done /\ rx'[x].frame = owed[RxPos(x)' + 1]
          ELSE ~rx'[x].ready
    BY <1>7, <1>10, <1>12, <2>2 DEF RxInv, RxRing
  <2>4. isr' = "set_done" => n < NumRx /\ ~rx'[Taken'].done /\ ~(rx_hand'.held /\ rx_hand'.next = Taken')
    BY <1>1, <1>7, <1>11, <2>1 DEF RxInv, RxRing
  <2>5. RxPos(rx_hand.next)' = n
    BY <1>1, <1>6, <1>10, <2>1 DEF RxPos
  <2>6. RxRing'
    BY <1>5, <1>6, <1>7, <2>1, <2>3, <2>4, <2>5 DEF RxRing
  <2> QED
    BY <1>9, <2>6 DEF RxInv
<1>13. CASE s.last
  <2>1. /\ rx_hand'.next = q /\ ~rx_hand'.held
        /\ Len(owed') = n + 1 /\ owed'[n + 1] = s.frame
        /\ \A i \in 1 .. n : owed'[i] = owed[i]
    BY <1>1, <1>2, <1>5, <1>13, AppendProperties DEF RxInv, RxTypes
  <2>2. RxPos(rx_hand.next)' = IF n + 1 = NumRx THEN 0 ELSE n + 1
    BY <1>1, <1>5, <1>8, <1>10, <2>1 DEF RxPos
  <2>3. ASSUME NEW x \in Rx
        PROVE  IF RxPos(x)' < n + 1
               THEN rx'[x].ready /\ ~rx'[x].done /\ rx'[x].frame = owed'[RxPos(x)' + 1]
               ELSE ~rx'[x].ready
    <3>1. CASE x = b
      BY <1>5, <1>6, <1>7, <1>10, <1>13, <2>1, <3>1
    <3>2. CASE x # b
      <4>1. rx'[x] = rx[x] /\ RxPos(x) # n /\ RxPos(x) \in Nat /\ RxPos(x)' = RxPos(x)
        BY <1>1, <1>4, <1>5, <1>6, <1>7, <1>10, <3>2
      <4>2. RxPos(x) < n => owed'[RxPos(x) + 1] = owed[RxPos(x) + 1]
        BY <1>5, <2>1, <4>1
      <4> QED
        BY <1>5, <4>1, <4>2 DEF RxInv, RxRing
    <3> QED
      BY <3>1, <3>2
  <2>4. ASSUME isr' = "set_done"
        PROVE  n + 1 < NumRx /\ ~rx'[Taken'].done
    <3>1. isr = "set_done"
      BY <1>1, <2>4
    <3>2. n # NumRx - 1
      BY <1>1, <1>4, <1>6, <1>11, <3>1
    <3>3. ~rx'[Taken].done
      BY <1>7, <1>11, <3>1 DEF RxInv, RxRing
    <3> QED
      BY <1>5, <1>6, <1>11, <3>2, <3>3
  <2>5. RxRing'
    <3>1. Len(owed)' = n + 1 /\ n + 1 <= NumRx
      BY <1>5, <1>6, <2>1
    <3> QED
      BY <2>1, <2>2, <2>3, <2>4, <3>1 DEF RxRing
  <2> QED
    BY <1>9, <2>5 DEF RxInv
<1> QED
  BY <1>2, <1>12, <1>13

LEMMA DiscardBlockRx ==
    ASSUME RxInv, DiscardBlock
    PROVE  RxInv'
<1>1. /\ rx_hand' = [rx_hand EXCEPT !.held = FALSE, !.length = 0]
      /\ UNCHANGED <<rx, isr, rx_next_buffer_rxed, owed>>
  BY DEF DiscardBlock, ReadStatus, client
<1>2. /\ rx_hand' \in [next : Rx, held : BOOLEAN, length : 0 .. BufferBlocks]
      /\ rx_hand'.next = rx_hand.next /\ ~rx_hand'.held
  <2>1. 0 \in 0 .. BufferBlocks
    BY Sizes
  <2>2. rx_hand \in [next : Rx, held : BOOLEAN, length : 0 .. BufferBlocks]
    BY DEF RxInv, RxTypes
  <2> QED
    BY <1>1, <2>1, <2>2
<1>3. RxTypes'
  BY <1>1, <1>2 DEF RxInv, RxTypes
<1>4. RxRing'
  BY <1>1, <1>2 DEF RxInv, RxRing, RxPos, Taken
<1> QED
  BY <1>3, <1>4 DEF RxInv

\* Thread 6 reads a status only when there is one.
Waking == pc = "status" /\ "status_vne" \in r13

LEMMA RxNext ==
    ASSUME RxInv, status \in Seq(Status), Waking => status # <<>>, HeadFollows, [Next]_vars
    PROVE  RxInv'
<1> DEFINE Same == /\ UNCHANGED <<rx, rx_hand, rx_next_buffer_rxed, owed>>
                   /\ isr' = isr \/ isr' \in {"off", "check"}
<1>1. Same => RxInv'
  BY RxSame
<1>2. CASE (\E p \in Packets : XmitFill(p)) \/ XmitGoesOn
  BY <1>1, <1>2 DEF XmitFill, XmitGoesOn, XmitSetReady, XmitSignal, thread
<1>3. CASE IsrEnter \/ IsrExit
  BY <1>1, <1>3 DEF IsrEnter, IsrExit, thread
<1>4. CASE IsrTake \/ IsrSetDone
  BY <1>4, IsrTakeRx, IsrSetDoneRx
<1>5. CASE Wake \/ NoStatus \/ Deschedule \/ HandleSoftIrq \/ HandleTxData \/ SendUnit \/ BurstSent
  BY <1>1, <1>5 DEF Wake, NoStatus, Deschedule, HandleSoftIrq, HandleTxData, SendUnit,
                    BurstSent, client
<1>6. CASE TxStatus
  BY <1>1, <1>6 DEF TxStatus, ReadStatus, client
<1>7. CASE ReceiveBlock
  <2>1. Waking
    BY <1>7 DEF ReceiveBlock, ReadStatus, Waking
  <2> QED
    BY <1>7, <2>1, ReceiveBlockRx
<1>8. CASE DiscardBlock
  BY <1>8, DiscardBlockRx
<1>9. CASE Hardware \/ FrameContinues \/ \E n \in Frames : FrameStarts(n)
  BY <1>1, <1>9, HardwareTx
<1>10. CASE UNCHANGED vars
  BY <1>1, <1>10 DEF vars, client, thread
<1> QED
  BY <1>2, <1>3, <1>4, <1>5, <1>6, <1>7, <1>8, <1>9, <1>10 DEF Next, Thread6, IsrGoesOn
-------------------------------------------------------------------------------
(* Announcements *)

HwTypes ==
    /\ status \in Seq(Status)
    /\ pending \subseteq Events
    /\ presented \in Events \cup {NoEvent}
    /\ headers \in Seq(Events) /\ Len(headers) <= Headers
    /\ line \in [frame : Frames \cup {0}, left : Nat]
    /\ mac \in Seq(Nat \ {0})

\* Thread 0, and thread 6 unless it reads statuses or sends, change nothing that is
\* announced.
LEMMA ThreadsAnnounceNothing ==
    ASSUME \/ \E p \in Packets : XmitFill(p)
           \/ XmitGoesOn \/ IsrEnter \/ IsrGoesOn
           \/ NoStatus \/ HandleSoftIrq \/ HandleTxData \/ BurstSent \/ Deschedule
    PROVE  /\ UNCHANGED <<status, pending, presented, headers, fill, line>>
           /\ \A e \in Events : e \in sem' <=> e \in sem
           /\ Waking => pc' = pc /\ UNCHANGED r13
           /\ pc' = "status" => pc' = pc /\ UNCHANGED r13
<1>1. CASE \/ \E p \in Packets : XmitFill(p)
           \/ XmitGoesOn \/ IsrEnter \/ IsrGoesOn
  BY <1>1 DEF XmitFill, XmitGoesOn, XmitSetReady, XmitSignal, IsrEnter, IsrGoesOn, IsrTake,
              IsrExit, IsrSetDone, hardware, thread, Events
<1>2. CASE NoStatus \/ HandleSoftIrq \/ HandleTxData \/ BurstSent \/ Deschedule
  BY <1>2 DEF NoStatus, HandleSoftIrq, HandleTxData, BurstSent, Deschedule, hardware, Waking
<1> QED
  BY <1>1, <1>2

LEMMA ArrivingStatus ==
    ASSUME HwTypes, FrameContinues \/ \E n \in Frames : FrameStarts(n)
    PROVE  \E s \in Status : s.kind = "rx" /\ Arrives(s)
<1>1. CASE FrameContinues
  <2> DEFINE s == [kind |-> "rx", first |-> FALSE, last |-> line.left = 1, frame |-> line.frame]
  <2>1. s \in Status
    BY DEF HwTypes, Status
  <2> QED
    BY <1>1, <2>1 DEF FrameContinues
<1>2. ASSUME NEW n \in Frames, FrameStarts(n)
      PROVE  \E s \in Status : s.kind = "rx" /\ Arrives(s)
  <2> DEFINE s == [kind |-> "rx", first |-> TRUE, last |-> n = 1, frame |-> n]
  <2>1. s \in Status
    BY DEF Status
  <2> QED
    BY <1>2, <2>1 DEF FrameStarts
<1> QED
  BY <1>1, <1>2

LEMMA StatusOnceNext ==
    ASSUME StatusOnce, HwTypes, [Next]_vars
    PROVE  StatusOnce'
<1> DEFINE Set == "status_vne" \in sem
           Waits == "status_vne" \in pending
           Comes == presented = "status_vne"
           Held == Brought(headers)
           Once == BroughtOnce(headers)
           Some == status # <<>>
<1>1. /\ Some <=> Waking \/ Set \/ Waits \/ Comes \/ Held
      /\ Waking => ~Set /\ ~Waits /\ ~Comes /\ ~Held
      /\ Set => ~Waits /\ ~Comes /\ ~Held
      /\ Waits => ~Comes /\ ~Held
      /\ Comes => ~Held
      /\ Once
  BY DEF StatusOnce, Waking
<1>2. SUFFICES /\ Some' <=> Waking' \/ Set' \/ Waits' \/ Comes' \/ Held'
               /\ Waking' => ~Set' /\ ~Waits' /\ ~Comes' /\ ~Held'
               /\ Set' => ~Waits' /\ ~Comes' /\ ~Held'
               /\ Waits' => ~Comes' /\ ~Held'
               /\ Comes' => ~Held'
               /\ Once'
  BY DEF StatusOnce, Waking
<1>3. CASE \/ \E p \in Packets : XmitFill(p)
           \/ XmitGoesOn \/ IsrEnter \/ IsrGoesOn
           \/ NoStatus \/ HandleSoftIrq \/ HandleTxData \/ BurstSent \/ Deschedule
  <2>1. Waking' <=> Waking
    BY <1>3, ThreadsAnnounceNothing DEF Waking
  <2>2. UNCHANGED <<status, pending, presented, headers>> /\ (Set' <=> Set)
    BY <1>3, ThreadsAnnounceNothing DEF Events
  <2> QED
    BY <1>1, <2>1, <2>2
<1>4. CASE Wake
  <2>1. /\ UNCHANGED <<status, pending, presented, headers>>
        /\ ~Waking /\ (Waking' <=> Set) /\ ~Set'
    BY <1>4 DEF Wake, hardware, Waking
  <2> QED
    BY <1>1, <2>1
<1>5. CASE SendUnit
  <2>1. /\ UNCHANGED <<status, presented, headers>> /\ (Waits' <=> Waits) /\ (Set' <=> Set)
        /\ ~Waking /\ ~Waking'
    BY <1>5 DEF SendUnit, Waking
  <2> QED
    BY <1>1, <2>1
<1>6. CASE TxStatus \/ ReceiveBlock \/ DiscardBlock
  <2>1. ReadStatus
    BY <1>6 DEF TxStatus, ReceiveBlock, DiscardBlock
  <2>2. Waking /\ ~Waking' /\ UNCHANGED <<sem, presented, headers>>
    BY <2>1 DEF ReadStatus, Waking
  <2>3. Some' <=> Len(status) > 1
    <3>1. status \in Seq(Status) /\ status # <<>> /\ status' = Tail(status)
      BY <1>1, <2>1, <2>2 DEF HwTypes, ReadStatus
    <3>2. Len(status') = Len(status) - 1 /\ Len(status) \in Nat /\ status' \in Seq(Status)
      BY <3>1, HeadTailProperties
    <3> QED
      BY <3>2, EmptySeq
  <2>4. Waits' <=> Len(status) > 1
    BY <1>1, <2>1, <2>2 DEF ReadStatus
  <2> QED
    BY <1>1, <2>2, <2>3, <2>4
<1>7. ASSUME UNCHANGED <<pc, r13, sem, presented, headers>>,
             \/ UNCHANGED status /\ (Waits' <=> Waits)
             \/ \E s \in Status : status' = Append(status, s) /\ (Waits' <=> Waits \/ ~Some)
      PROVE  /\ Some' <=> Waking' \/ Set' \/ Waits' \/ Comes' \/ Held'
             /\ Waking' => ~Set' /\ ~Waits' /\ ~Comes' /\ ~Held'
             /\ Set' => ~Waits' /\ ~Comes' /\ ~Held'
             /\ Waits' => ~Comes' /\ ~Held'
             /\ Comes' => ~Held'
             /\ Once'
  <2>1. \A s \in Status : Append(status, s) # <<>>
    BY AppendProperties, EmptySeq DEF HwTypes
  <2>2. (Waking' <=> Waking) /\ (Set' <=> Set) /\ (Comes' <=> Comes)
        /\ (Held' <=> Held) /\ (Once' <=> Once)
    BY <1>7 DEF Waking
  <2> QED
    BY <1>1, <1>7, <2>1, <2>2
<1>8. CASE MacReads \/ MacUnderruns
  <2> DEFINE s == [kind |-> "tx", first |-> FALSE, last |-> FALSE, frame |-> 0]
  <2>1. PICK n \in {0, 1} : MacSends(n)
    BY <1>8 DEF MacReads, MacUnderruns
  <2>2. s \in Status
    BY DEF Status
  <2>3. Head(mac) - 1 \in Nat
    <3>1. mac \in Seq(Nat \ {0}) /\ mac # <<>>
      BY <2>1 DEF HwTypes, MacSends
    <3>2. Head(mac) \in Nat \ {0}
      BY <3>1, HeadTailProperties
    <3> QED
      BY <3>2
  <2>4. UNCHANGED <<pc, r13, sem, presented, headers>>
    BY <2>1 DEF MacSends, thread
  <2>5. CASE Head(mac) - 1 = 0
    <3>1. status' = Append(status, s) /\ (Waits' <=> Waits \/ ~Some)
      BY <2>1, <2>5 DEF MacSends
    <3> QED
      BY <1>7, <2>2, <2>4, <3>1
  <2>6. CASE Head(mac) - 1 > 0
    <3>1. status' = status /\ (Waits' <=> Waits)
      BY <2>1, <2>6 DEF MacSends
    <3> QED
      BY <1>7, <2>4, <3>1
  <2>7. Head(mac) - 1 = 0 \/ Head(mac) - 1 > 0
    <3> DEFINE left == Head(mac) - 1
    <3> HIDE DEF left
    <3>1. left \in Nat => left = 0 \/ left > 0
      OBVIOUS
    <3> QED
      BY <2>3, <3>1 DEF left
  <2> HIDE DEF Some, Set, Waits, Comes
  <2> QED
    BY <2>5, <2>6, <2>7, Zenon
<1>9. CASE FrameContinues \/ \E n \in Frames : FrameStarts(n)
  <2>1. PICK s \in Status : Arrives(s)
    BY <1>9, ArrivingStatus
  <2>2. /\ status' = Append(status, s) /\ (Waits' <=> Waits \/ ~Some)
        /\ UNCHANGED <<pc, r13, sem, presented, headers>>
    BY <2>1 DEF Arrives, thread
  <2> QED
    BY <1>7, <2>2
<1>10. CASE Present
  <2>1. /\ UNCHANGED <<pc, r13, sem, status, headers>> /\ ~Comes
        /\ IF "tx_data_vwm" \in pending THEN (Waits' <=> Waits) /\ ~Comes'
           ELSE Waits /\ ~Waits' /\ Comes'
    BY <1>10 DEF Present, thread, NoEvent, HwTypes, Events
  <2> QED
    BY <1>1, <2>1 DEF Waking
<1>11. CASE TakeCommand
  <2>1. /\ UNCHANGED <<pc, r13, sem, pending, status>> /\ ~Comes'
        /\ presented \in Events /\ headers' = Append(headers, presented)
    BY <1>11 DEF TakeCommand, thread, NoEvent, HwTypes
  <2>2. Held' <=> Held \/ Comes
    BY <2>1, BroughtAppend DEF HwTypes
  <2>3. Once'
    BY <1>1, <2>1, BroughtAppend DEF HwTypes
  <2> HIDE DEF Some, Set, Waits, Held, Once
  <2> QED
    BY <1>1, <2>1, <2>2, <2>3 DEF Waking, Some, Set, Waits
<1>13. CASE SetSemaphore
  <2> DEFINE First == Head(headers) = "status_vne"
  <2>1. /\ UNCHANGED <<pc, r13, pending, presented, status>>
        /\ Set' <=> Set \/ First
        /\ headers # <<>> /\ headers' = Tail(headers)
    BY <1>13 DEF SetSemaphore, thread
  <2>2. /\ Held <=> Held' \/ First
        /\ First => ~Held'
        /\ Once'
    BY <1>1, <2>1, BroughtTail DEF HwTypes
  <2> HIDE DEF Some, Set, Waits, Comes, Held, Once, First
  <2> QED
    BY <1>1, <2>1, <2>2 DEF Waking, Some, Waits, Comes
<1>12. CASE UNCHANGED vars
  <2>1. UNCHANGED <<pc, r13, sem, status, pending, presented, headers>>
    BY <1>12 DEF vars, thread, hardware
  <2> QED
    BY <1>1, <2>1 DEF Waking
<1> QED
  BY <1>3, <1>4, <1>5, <1>6, <1>8, <1>9, <1>10, <1>11, <1>12, <1>13 DEF Next, Thread6, Hardware

\* Of the room there may be in the transmit FIFO, a part is promised: so much of it
\* by the headers, which stay as they are.
LEMMA RoomKept ==
    ASSUME NEW H \in Nat, H <= Headers * Burst, RoomFor(H), fill \in Nat,
           HwTypes, TxInv, TxInv', [Next]_vars, ~TakeCommand, ~SetSemaphore
    PROVE  RoomFor(H)' /\ fill' \in Nat
<1> DEFINE vwm == "tx_data_vwm"
           P == Bursts(vwm \in pending)
           C == Bursts(presented = vwm)
           S == Bursts(vwm \in sem)
           top == Headers * Burst
           room == Watermark + (Headers + 3) * Burst
           early == pc \in {"status", "soft_irq", "tx_data"} /\ vwm \in r13
           Good == /\ fill \in Nat
                   /\ pc = "send" => fill + tx_hand.burst + (H + P + C) <= room
                   /\ pc # "send" => fill + (H + P + C) + S <= room
                   /\ early => vwm \in sem
<1>1. Good
  BY DEF RoomFor
<1>2. SUFFICES Good'
  BY DEF RoomFor
<1>3. /\ Watermark \in Nat /\ Burst \in Nat /\ Burst > 0 /\ room \in Nat
      /\ top \in Nat /\ room = Watermark + top + 3 * Burst /\ H \in 0 .. top
      /\ P \in {0, Burst} /\ C \in {0, Burst} /\ S \in {0, Burst}
      /\ P' \in {0, Burst} /\ C' \in {0, Burst} /\ S' \in {0, Burst}
      /\ vwm \in sem <=> S = Burst
      /\ vwm \in pending <=> P = Burst
      /\ presented = vwm <=> C = Burst
      /\ {P, C, S, P', C', S'} \subseteq 0 .. Burst
  <2>1. H \in 0 .. top /\ top \in Nat /\ room = Watermark + top + 3 * Burst
    <3>1. top \in Nat /\ (Headers + 3) * Burst = top + 3 * Burst
      BY Times
    <3> HIDE DEF top
    <3> QED
      BY <3>1, Sizes DEF top
  <2> HIDE DEF top, room
  <2>2. room \in Nat
    BY <2>1, Sizes
  <2> QED
    BY <2>1, <2>2, Sizes DEF Bursts
<1> HIDE DEF top, room
<1>4. /\ tx_hand.burst \in 0 .. Burst /\ tx_hand'.burst \in 0 .. Burst
      /\ pc = "send" => tx_hand.burst > 0
  BY DEF TxInv, TxTypes, TxHand, Units
<1>5. CASE /\ UNCHANGED <<fill, pending, presented, tx_hand, r13>>
           /\ vwm \in sem' <=> vwm \in sem
           /\ pc' = pc
  <2>1. P' = P /\ C' = C /\ S' = S
    BY <1>5 DEF Bursts
  <2> HIDE DEF P, C, S
  <2> QED
    BY <1>1, <1>5, <2>1
<1>6. ASSUME UNCHANGED <<fill, pending, presented>>, vwm \in sem' <=> vwm \in sem,
             pc # "send", pc' # "send", early' => vwm \in sem
      PROVE  Good'
  <2>1. P' = P /\ C' = C /\ S' = S
    BY <1>6 DEF Bursts
  <2> HIDE DEF P, C, S, early
  <2> QED
    BY <1>1, <1>6, <2>1
<1>7. CASE (\E p \in Packets : XmitFill(p)) \/ XmitGoesOn \/ IsrEnter \/ IsrGoesOn
  <2>1. UNCHANGED <<fill, pending, presented, tx_hand, r13, pc>>
    BY <1>7 DEF XmitFill, XmitGoesOn, XmitSetReady, XmitSignal, IsrEnter, IsrGoesOn,
                IsrTake, IsrExit, IsrSetDone, thread, hardware
  <2>2. vwm \in sem' <=> vwm \in sem
    BY <1>7, ThreadsAnnounceNothing DEF Events
  <2> HIDE DEF Good
  <2> QED
    BY <1>5, <2>1, <2>2
<1>8. CASE Wake
  BY <1>6, <1>8 DEF Wake, hardware
<1>9. CASE NoStatus \/ HandleSoftIrq \/ BurstSent \/ Deschedule
  BY <1>1, <1>6, <1>9 DEF NoStatus, HandleSoftIrq, BurstSent, Deschedule, hardware
<1>10. CASE TxStatus \/ ReceiveBlock \/ DiscardBlock
  <2>1. ReadStatus
    BY <1>10 DEF TxStatus, ReceiveBlock, DiscardBlock
  <2>2. /\ UNCHANGED <<fill, presented, sem, r13>> /\ pc = "status" /\ pc' = "soft_irq"
        /\ vwm \in pending' <=> vwm \in pending
    BY <2>1 DEF ReadStatus
  <2>3. P' = P /\ C' = C /\ S' = S
    BY <2>2 DEF Bursts
  <2> HIDE DEF P, C, S
  <2> QED
    BY <1>1, <2>2, <2>3
<1>11. CASE HandleTxData
  <2>1. UNCHANGED <<fill, pending, presented, sem, r13>> /\ pc = "tx_data"
    BY <1>11 DEF HandleTxData, hardware
  <2>2. CASE pc' = "exit"
    BY <1>1, <1>6, <2>1, <2>2
  <2>3. CASE pc' = "send" /\ vwm \in r13
    <3>1. P' = P /\ C' = C /\ S = Burst /\ ~early' /\ fill' = fill
      BY <1>1, <1>3, <2>1, <2>3 DEF Bursts
    <3> HIDE DEF P, C, S, early
    <3> QED
      BY <1>1, <1>3, <1>4, <2>1, <2>3, <3>1
  <2> QED
    BY <1>11, <2>2, <2>3 DEF HandleTxData
<1>12. CASE SendUnit
  <2>1. /\ pc = "send" /\ fill' = fill + 1 /\ UNCHANGED presented
        /\ pc' = IF tx_hand.burst = 1 THEN "sent" ELSE "send"
        /\ vwm \in pending' <=> vwm \in pending \/ fill + 1 <= Watermark
        /\ vwm \notin sem'
        /\ tx_hand' = [tx_hand EXCEPT !.burst = @ - 1, !.left = @ - 1]
    BY <1>12 DEF SendUnit
  <2>2. tx_hand'.burst = tx_hand.burst - 1
    BY <2>1 DEF TxInv, TxTypes
  <2>3. /\ C' = C /\ S' = 0 /\ ~early'
        /\ P' = P \/ (P' = Burst /\ fill + 1 <= Watermark)
    BY <2>1 DEF Bursts
  <2>4. fill + tx_hand.burst + (H + P + C) <= room /\ fill \in Nat
    BY <1>1, <2>1
  <2>5. fill' + tx_hand'.burst + (H + P' + C') <= room
    <3> HIDE DEF P, C, S, early
    <3> QED
      BY <1>3, <1>4, <2>1, <2>2, <2>3, <2>4
  <2>6. pc' # "send" => tx_hand'.burst = 0
    BY <1>4, <2>1, <2>2
  <2>7. fill' \in Nat
    BY <2>1, <2>4
  <2> HIDE DEF P, C, S, early
  <2>8. ASSUME pc' # "send" PROVE fill' + (H + P' + C') + S' <= room
    <3>1. fill' + 0 + (H + P' + C') <= room /\ S' = 0
      BY <2>3, <2>5, <2>6, <2>8
    <3>2. P' \in Nat /\ C' \in Nat /\ room \in Nat
      BY <1>3
    <3>3. \A f, h, p, c, r \in Nat : f + 0 + (h + p + c) <= r => f + (h + p + c) + 0 <= r
      OBVIOUS
    <3> QED
      BY <2>7, <3>1, <3>2, <3>3
  <2>9. pc' = "send" => fill' + tx_hand'.burst + (H + P' + C') <= room
    BY <2>5
  <2> QED
    BY <2>3, <2>7, <2>8, <2>9
<1>13. CASE MacReads \/ MacUnderruns
  <2>1. PICK n \in {0, 1} : MacSends(n) /\ fill - n \in Nat
    BY <1>1, <1>13 DEF MacReads, MacUnderruns
  <2>2. /\ fill' = fill - n /\ UNCHANGED <<presented, sem, pc, r13, tx_hand>>
        /\ vwm \in pending' <=> vwm \in pending \/ (n = 1 /\ fill = Watermark + 1)
    BY <2>1 DEF MacSends, thread
  <2>3. C' = C /\ S' = S /\ (P' = P \/ (P' = Burst /\ n = 1 /\ fill = Watermark + 1))
    BY <2>2 DEF Bursts
  <2>4. early' => vwm \in sem'
    BY <1>1, <2>2
  <2> HIDE DEF P, C, S, early
  <2>5. pc = "send" => fill' + tx_hand'.burst + (H + P' + C') <= room
    BY <1>1, <1>3, <1>4, <2>1, <2>2, <2>3
  <2>6. ASSUME pc # "send" PROVE fill' + (H + P' + C') + S' <= room
    <3>1. fill + (H + P + C) + S <= room /\ fill \in Nat
      BY <1>1, <2>6
    <3>2. CASE P' = P
      BY <1>3, <2>1, <2>2, <2>3, <3>1, <3>2
    <3>3. CASE P' = Burst /\ n = 1 /\ fill = Watermark + 1
      <4>1. fill' = Watermark
        BY <1>3, <2>2, <3>3
      <4> QED
        BY <1>3, <2>3, <3>3, <4>1
    <3> QED
      BY <2>3, <3>2, <3>3
  <2> QED
    BY <2>1, <2>2, <2>4, <2>5, <2>6
<1>14. CASE FrameContinues \/ \E n \in Frames : FrameStarts(n)
  <2>1. /\ UNCHANGED <<fill, presented, sem, pc, r13, tx_hand>>
        /\ vwm \in pending' <=> vwm \in pending
    BY <1>14 DEF FrameContinues, FrameStarts, Arrives, thread
  <2>2. P' = P /\ C' = C /\ S' = S
    BY <2>1 DEF Bursts
  <2> HIDE DEF P, C, S
  <2> QED
    BY <1>1, <2>1, <2>2
<1>15. CASE Present
  <2>1. UNCHANGED <<fill, sem, pc, r13, tx_hand>> /\ presented # vwm
    BY <1>15 DEF Present, thread, NoEvent
  <2>2. P' + C' = P + C /\ S' = S
    <3>1. CASE vwm \in pending
      <4>1. presented' = vwm /\ vwm \notin pending'
        BY <1>15, <3>1 DEF Present
      <4> QED
        BY <2>1, <3>1, <4>1, Sizes DEF Bursts
    <3>2. CASE vwm \notin pending
      <4>1. presented' # vwm /\ vwm \notin pending'
        BY <1>15, <3>2 DEF Present
      <4> QED
        BY <2>1, <3>2, <4>1, Sizes DEF Bursts
    <3> QED
      BY <3>1, <3>2
  <2> HIDE DEF P, C, S
  <2>3. H + P' + C' = H + P + C
    <3>1. \A h, p, c, q, d \in Nat : q + d = p + c => h + q + d = h + p + c
      OBVIOUS
    <3>2. {H, P, C, P', C'} \subseteq Nat
      BY <1>3
    <3> QED
      BY <2>2, <3>1, <3>2
  <2> QED
    BY <1>1, <2>1, <2>2, <2>3
<1>17. CASE UNCHANGED vars
  BY <1>5, <1>17 DEF vars, thread, hardware
<1> QED
  BY <1>7, <1>8, <1>9, <1>10, <1>11, <1>12, <1>13, <1>14, <1>15, <1>17
     DEF Next, Thread6, Hardware

\* The headers change only as an event joins them or leaves them.
LEMMA HeadersKept ==
    ASSUME [Next]_vars, ~TakeCommand, ~SetSemaphore
    PROVE  UNCHANGED headers
<1>1. CASE (\E p \in Packets : XmitFill(p)) \/ XmitGoesOn \/ IsrEnter \/ IsrGoesOn
  BY <1>1 DEF XmitFill, XmitGoesOn, XmitSetReady, XmitSignal, IsrEnter, IsrGoesOn,
              IsrTake, IsrExit, IsrSetDone, hardware
<1>2. CASE Thread6
  BY <1>2 DEF Thread6, Wake, NoStatus, TxStatus, ReceiveBlock, DiscardBlock, ReadStatus,
              HandleSoftIrq, HandleTxData, SendUnit, BurstSent, Deschedule, hardware
<1>3. CASE MacReads \/ MacUnderruns \/ Present \/ FrameContinues \/ \E n \in Frames : FrameStarts(n)
  BY <1>3 DEF MacReads, MacUnderruns, MacSends, Present, FrameContinues, FrameStarts, Arrives
<1>4. CASE UNCHANGED vars
  BY <1>4 DEF vars, hardware
<1> QED
  BY <1>1, <1>2, <1>3, <1>4 DEF Next, Hardware

LEMMA RoomAnnouncedNext ==
    ASSUME RoomAnnounced, fill \in Nat, HwTypes, TxInv, TxInv', [Next]_vars
    PROVE  RoomAnnounced' /\ fill' \in Nat
<1> DEFINE vwm == "tx_data_vwm"
           P == Bursts(vwm \in pending)
           C == Bursts(presented = vwm)
           S == Bursts(vwm \in sem)
           room == Watermark + (Headers + 3) * Burst
<1>1. PICK H \in Nat : Bring(headers, H) /\ RoomFor(H)
  BY DEF RoomAnnounced
<1>2. H <= Headers * Burst /\ headers \in Seq(Events)
  <2>1. headers \in Seq(Events) /\ Len(headers) \in Nat /\ Len(headers) <= Headers
    BY DEF HwTypes
  <2>2. H <= Len(headers) * Burst
    BY <1>1, <2>1, BringBound
  <2>3. Burst * Len(headers) <= Headers * Burst /\ Headers * Burst \in Nat
    BY <2>1, Sizes, Times
  <2>4. Len(headers) * Burst = Burst * Len(headers)
    BY <2>1, Sizes
  <2>5. Burst * Len(headers) \in Nat
    BY <2>1, Times
  <2> QED
    BY <2>1, <2>2, <2>3, <2>4, <2>5
<1>3. /\ {P, C, S, P', C', S'} \subseteq {0, Burst}
      /\ Burst \in Nat /\ Burst > 0 /\ room \in Nat /\ tx_hand.burst \in Nat
  <2>1. Watermark \in Nat /\ Burst \in Nat /\ Headers * Burst \in Nat
        /\ (Headers + 3) * Burst = Headers * Burst + 3 * Burst
    BY Sizes, Times
  <2>2. room \in Nat
    <3> DEFINE top == Headers * Burst
    <3>1. room = Watermark + (top + 3 * Burst) /\ top \in Nat
      BY <2>1
    <3> HIDE DEF top
    <3> QED
      BY <2>1, <3>1
  <2>3. tx_hand.burst \in Nat
    BY <2>1 DEF TxInv, TxTypes, Units
  <2> HIDE DEF room
  <2> QED
    BY <2>2, <2>3, Sizes DEF Bursts
<1>4. /\ pc = "send" => fill + tx_hand.burst + (H + P + C) <= room
      /\ pc # "send" => fill + (H + P + C) + S <= room
      /\ pc \in {"status", "soft_irq", "tx_data"} /\ vwm \in r13 => vwm \in sem
  BY <1>1 DEF RoomFor
<1>5. ASSUME NEW u \in Nat, Bring(headers', u), UNCHANGED <<fill, pc, r13, tx_hand>>,
             vwm \in sem => vwm \in sem',
             pc = "send" => u + P' + C' <= H + P + C,
             pc # "send" => u + P' + C' + S' <= H + P + C + S
      PROVE  RoomAnnounced' /\ fill' \in Nat
  <2> DEFINE early == pc \in {"status", "soft_irq", "tx_data"} /\ vwm \in r13
  <2>1. early' => vwm \in sem'
    BY <1>4, <1>5
  <2> HIDE DEF P, C, S, room, early
  <2>2. pc = "send" => fill + tx_hand.burst + (u + P' + C') <= room
    BY <1>3, <1>4, <1>5
  <2>3. pc # "send" => fill + (u + P' + C') + S' <= room
    BY <1>3, <1>4, <1>5
  <2>4. RoomFor(u)'
    BY <1>5, <2>1, <2>2, <2>3 DEF RoomFor, P, C, S, room, early
  <2> QED
    BY <1>5, <2>4 DEF RoomAnnounced
<1>6. CASE TakeCommand
  <2> DEFINE u == H + C
  <2>1. /\ UNCHANGED <<fill, pending, sem, pc, r13, tx_hand>>
        /\ presented \in Events /\ presented' = NoEvent
        /\ headers' = Append(headers, presented)
    BY <1>6 DEF TakeCommand, thread, HwTypes
  <2>2. Bring(headers', u)
    BY <1>1, <1>2, <2>1, BringAppend
  <2>3. P' = P /\ C' = 0 /\ S' = S
    BY <2>1 DEF Bursts, NoEvent
  <2> HIDE DEF P, C, S, room
  <2>4. u \in Nat /\ u + P' + C' = H + P + C /\ u + P' + C' + S' = H + P + C + S
    BY <1>3, <2>3
  <2>5. H + P + C \in Nat /\ H + P + C + S \in Nat
    BY <1>3
  <2> HIDE DEF u
  <2> QED
    BY <1>5, <2>1, <2>2, <2>4, <2>5
<1>7. CASE SetSemaphore
  <2> DEFINE B == Bursts(Head(headers) = vwm)
  <2>1. /\ UNCHANGED <<fill, pending, presented, pc, r13, tx_hand>>
        /\ headers # <<>> /\ headers' = Tail(headers)
        /\ sem' = sem \cup {Head(headers)}
    BY <1>7 DEF SetSemaphore, thread
  <2>2. PICK u \in Nat : Bring(headers', u) /\ H = u + B
    BY <1>1, <1>2, <2>1, BringTail
  <2>3. /\ P' = P /\ C' = C /\ B \in {0, Burst}
        /\ S' = S \/ (S' = B /\ B = Burst)
        /\ vwm \in sem => vwm \in sem'
    BY <2>1 DEF Bursts
  <2> HIDE DEF P, C, S, B, room
  <2>4. u + P' + C' <= H + P + C /\ u + P' + C' + S' <= H + P + C + S
    BY <1>3, <2>2, <2>3
  <2> QED
    BY <1>5, <2>1, <2>2, <2>3, <2>4
<1>8. CASE ~TakeCommand /\ ~SetSemaphore
  <2>1. RoomFor(H)' /\ fill' \in Nat
    BY <1>1, <1>2, <1>8, RoomKept
  <2>2. UNCHANGED headers
    BY <1>8, HeadersKept
  <2> QED
    BY <1>1, <2>1, <2>2 DEF RoomAnnounced
<1> QED
  BY <1>6, <1>7, <1>8
-------------------------------------------------------------------------------
(* Received blocks *)

LineTypes == [frame : Frames \cup {0}, left : Nat]

\* A status at the end of the queue: one of a block has to follow on the last, and
\* the line goes on from it.
LEMMA OrderInAppend ==
    ASSUME NEW q \in Seq(Status), NEW number \in [1 .. Len(q) -> Nat],
           NEW t \in Status, NEW v \in Nat,
           NEW m \in [1 .. Len(q) + 1 -> Nat],
           \A i \in 1 .. Len(q) : m[i] = number[i],
           m[Len(q) + 1] = v,
           QueueInOrder(q, number),
           t.kind = "rx" =>
              /\ t.frame \in Frames /\ v \in 1 .. t.frame
              /\ t.first <=> v = 1
              /\ t.last <=> v = t.frame
              /\ \A i \in 1 .. Len(q) : q[i].kind = "rx" /\ NoBlock(q, i + 1, Len(q)) =>
                    IF q[i].last THEN t.first
                    ELSE v = number[i] + 1 /\ t.frame = q[i].frame
    PROVE  QueueInOrder(Append(q, t), m)
<1> DEFINE n == Len(q)
           p == Append(q, t)
<1>1. /\ n \in Nat /\ Len(p) = n + 1 /\ p[n + 1] = t
      /\ \A i \in 1 .. n : p[i] = q[i]
  BY AppendProperties
<1>2. \A i, j \in 1 .. n + 1 : j <= n + 1 /\ NoBlock(p, i + 1, j - 1) => NoBlock(q, i + 1, j - 1)
  BY <1>1 DEF NoBlock
<1> HIDE DEF p
<1>3. ASSUME NEW i \in 1 .. n + 1, p[i].kind = "rx"
      PROVE  /\ p[i].frame \in Frames
             /\ m[i] \in 1 .. p[i].frame
             /\ p[i].first <=> m[i] = 1
             /\ p[i].last <=> m[i] = p[i].frame
  <2>1. CASE i \in 1 .. n
    BY <1>1, <1>3, <2>1 DEF QueueInOrder
  <2>2. CASE i = n + 1
    BY <1>1, <1>3, <2>2
  <2> QED
    BY <1>1, <2>1, <2>2
<1>4. ASSUME NEW i \in 1 .. n + 1, NEW j \in 1 .. n + 1, i < j,
             p[i].kind = "rx", p[j].kind = "rx", NoBlock(p, i + 1, j - 1)
      PROVE  IF p[i].last THEN p[j].first
             ELSE m[j] = m[i] + 1 /\ p[j].frame = p[i].frame
  <2>1. i \in 1 .. n /\ NoBlock(q, i + 1, j - 1)
    BY <1>1, <1>2, <1>4
  <2>2. CASE j \in 1 .. n
    BY <1>1, <1>4, <2>1, <2>2 DEF QueueInOrder
  <2>3. CASE j = n + 1
    <3>1. NoBlock(q, i + 1, n)
      BY <1>1, <2>1, <2>3
    <3> QED
      BY <1>1, <1>4, <2>1, <2>3, <3>1
  <2> QED
    BY <1>1, <2>2, <2>3
<1>5. QueueInOrder(p, m)
  <2>1. \A i \in 1 .. Len(p) : p[i].kind = "rx" =>
           /\ p[i].frame \in Frames
           /\ m[i] \in 1 .. p[i].frame
           /\ p[i].first <=> m[i] = 1
           /\ p[i].last <=> m[i] = p[i].frame
    BY <1>1, <1>3
  <2>2. \A i, j \in 1 .. Len(p) :
          i < j /\ p[i].kind = "rx" /\ p[j].kind = "rx" /\ NoBlock(p, i + 1, j - 1) =>
             IF p[i].last THEN p[j].first
             ELSE m[j] = m[i] + 1 /\ p[j].frame = p[i].frame
    BY <1>1, <1>4
  <2> QED
    BY <2>1, <2>2, Zenon DEF QueueInOrder
<1> QED
  BY <1>5 DEF p

\* A status taken from the front of the queue.
LEMMA OrderInTail ==
    ASSUME NEW q \in Seq(Status), q # <<>>, NEW number \in [1 .. Len(q) -> Nat],
           NEW m \in [1 .. Len(q) - 1 -> Nat],
           \A i \in 1 .. Len(q) - 1 : m[i] = number[i + 1],
           NEW l, QueueInOrder(q, number), LineInOrder(q, number, l)
    PROVE  /\ QueueInOrder(Tail(q), m)
           /\ LineInOrder(Tail(q), m, l)
           /\ Tail(q) \in Seq(Status) /\ Len(Tail(q)) = Len(q) - 1
           /\ \A i \in 1 .. Len(q) - 1 : Tail(q)[i] = q[i + 1]
           /\ \A i, j \in 0 .. Len(q) - 1 :
                 NoBlock(Tail(q), i + 1, j) => NoBlock(q, i + 2, j + 1)
<1> DEFINE n == Len(q) - 1
           p == Tail(q)
<1>1. /\ n \in Nat /\ Len(p) = n /\ p \in Seq(Status)
      /\ \A i \in 1 .. n : p[i] = q[i + 1]
  BY HeadTailProperties, EmptySeq
<1>2. ASSUME NEW i \in 0 .. n, NEW j \in 0 .. n, NoBlock(p, i + 1, j)
      PROVE  NoBlock(q, i + 2, j + 1)
  <2>1. ASSUME NEW k \in i + 2 .. j + 1
        PROVE  q[k].kind # "rx"
    <3>1. k - 1 \in i + 1 .. j /\ k - 1 \in 1 .. n /\ (k - 1) + 1 = k
      BY <1>1
    <3> QED
      BY <1>1, <1>2, <3>1 DEF NoBlock
  <2> QED
    BY <2>1 DEF NoBlock
<1> HIDE DEF p
<1>3. ASSUME NEW i \in 1 .. n
      PROVE  i + 1 \in 1 .. Len(q) /\ p[i] = q[i + 1] /\ m[i] = number[i + 1]
  BY <1>1
<1>4. QueueInOrder(p, m)
  <2>1. ASSUME NEW i \in 1 .. n, p[i].kind = "rx"
        PROVE  /\ p[i].frame \in Frames
               /\ m[i] \in 1 .. p[i].frame
               /\ p[i].first <=> m[i] = 1
               /\ p[i].last <=> m[i] = p[i].frame
    BY <1>3, <2>1 DEF QueueInOrder
  <2>2. ASSUME NEW i \in 1 .. n, NEW j \in 1 .. n, i < j,
               p[i].kind = "rx", p[j].kind = "rx", NoBlock(p, i + 1, j - 1)
        PROVE  IF p[i].last THEN p[j].first
               ELSE m[j] = m[i] + 1 /\ p[j].frame = p[i].frame
    <3>1. NoBlock(q, (i + 1) + 1, (j + 1) - 1)
      <4>1. NoBlock(q, i + 2, (j - 1) + 1)
        BY <1>1, <1>2, <2>2
      <4>2. i + 2 = (i + 1) + 1 /\ (j - 1) + 1 = (j + 1) - 1
        OBVIOUS
      <4> QED
        BY <4>1, <4>2
    <3>2. i + 1 < j + 1
      BY <2>2
    <3> DEFINE a == i + 1
               z == j + 1
    <3>3. /\ a \in 1 .. Len(q) /\ z \in 1 .. Len(q)
          /\ p[i] = q[a] /\ m[i] = number[a] /\ p[j] = q[z] /\ m[j] = number[z]
          /\ a < z /\ NoBlock(q, a + 1, z - 1)
      BY <1>3, <3>1, <3>2
    <3> HIDE DEF a, z
    <3>4. IF q[a].last THEN q[z].first
          ELSE number[z] = number[a] + 1 /\ q[z].frame = q[a].frame
      BY <2>2, <3>3 DEF QueueInOrder
    <3> QED
      BY <3>3, <3>4
  <2>3. \A i \in 1 .. Len(p) : p[i].kind = "rx" =>
           /\ p[i].frame \in Frames
           /\ m[i] \in 1 .. p[i].frame
           /\ p[i].first <=> m[i] = 1
           /\ p[i].last <=> m[i] = p[i].frame
    BY <1>1, <2>1
  <2>4. \A i, j \in 1 .. Len(p) :
          i < j /\ p[i].kind = "rx" /\ p[j].kind = "rx" /\ NoBlock(p, i + 1, j - 1) =>
             IF p[i].last THEN p[j].first
             ELSE m[j] = m[i] + 1 /\ p[j].frame = p[i].frame
    BY <1>1, <2>2
  <2> QED
    BY <2>3, <2>4, Zenon DEF QueueInOrder
<1>5. LineInOrder(p, m, l)
  <2>1. ASSUME NEW i \in 1 .. n, p[i].kind = "rx", NoBlock(p, i + 1, n)
        PROVE  l.left = p[i].frame - m[i] /\ l.frame = p[i].frame
    <3>1. NoBlock(q, (i + 1) + 1, Len(q))
      <4>1. NoBlock(q, i + 2, n + 1)
        BY <1>1, <1>2, <2>1
      <4>2. i + 2 = (i + 1) + 1 /\ n + 1 = Len(q)
        BY <1>1
      <4> QED
        BY <4>1, <4>2
    <3> QED
      BY <1>3, <2>1, <3>1 DEF LineInOrder
  <2> QED
    BY <1>1, <2>1 DEF LineInOrder
<1> QED
  BY <1>1, <1>2, <1>4, <1>5 DEF p

StreamTypes ==
    /\ status \in Seq(Status)
    /\ line \in LineTypes
    /\ RxTypes

LEMMA StreamSame ==
    ASSUME Stream, UNCHANGED <<status, line, rx_hand>>,
           rx'[rx_hand.next].frame = rx[rx_hand.next].frame
    PROVE  Stream'
BY DEF Stream

\* The transmit path's statuses make no difference.
LEMMA StreamTxStatus ==
    ASSUME Stream, StreamTypes, NEW s \in Status, s.kind = "tx",
           status' = Append(status, s), UNCHANGED <<line, rx_hand, rx>>
    PROVE  Stream'
<1> DEFINE n == Len(status)
           h == rx_hand.length
           f == rx[rx_hand.next].frame
<1>1. /\ n \in Nat /\ Len(status') = n + 1 /\ status'[n + 1] = s
      /\ \A i \in 1 .. n : status'[i] = status[i]
  BY AppendProperties DEF StreamTypes
<1>2. PICK number \in [1 .. n -> Nat] :
          /\ QueueInOrder(status, number)
          /\ LineInOrder(status, number, line)
          /\ rx_hand.held => HandInOrder(status, number, line, h, f)
  BY DEF Stream
<1>3. PICK m \in [1 .. n + 1 -> Nat] :
          (\A i \in 1 .. n : m[i] = number[i]) /\ m[n + 1] = 0
  <2> DEFINE g == [i \in 1 .. n + 1 |-> IF i = n + 1 THEN 0 ELSE number[i]]
  <2>1. g \in [1 .. n + 1 -> Nat] /\ (\A i \in 1 .. n : g[i] = number[i]) /\ g[n + 1] = 0
    BY <1>1, <1>2
  <2> HIDE DEF g
  <2> QED
    BY <2>1
<1>4. QueueInOrder(status', m)
  BY <1>2, <1>3, OrderInAppend DEF StreamTypes
<1>5. \A i, j \in 1 .. n + 1 : NoBlock(status', i, j) => NoBlock(status, i, IF j = n + 1 THEN n ELSE j)
  BY <1>1 DEF NoBlock
<1>6. LineInOrder(status', m, line')
  <2>1. ASSUME NEW i \in 1 .. n + 1, status'[i].kind = "rx", NoBlock(status', i + 1, n + 1)
        PROVE  line.left = status'[i].frame - m[i] /\ line.frame = status'[i].frame
    <3>1. i \in 1 .. n /\ NoBlock(status, i + 1, n)
      BY <1>1, <1>5, <2>1
    <3> QED
      BY <1>1, <1>2, <1>3, <2>1, <3>1 DEF LineInOrder
  <2> QED
    BY <1>1, <1>2, <2>1 DEF LineInOrder
<1>7. ASSUME rx_hand.held
      PROVE  HandInOrder(status', m, line', h, f)
  <2>1. HandInOrder(status, number, line, h, f)
    BY <1>2, <1>7
  <2>2. ASSUME NEW j \in 1 .. n + 1, status'[j].kind = "rx", NoBlock(status', 1, j - 1)
        PROVE  m[j] = h + 1 /\ status'[j].frame = f
    <3>1. j \in 1 .. n /\ NoBlock(status, 1, j - 1)
      BY <1>1, <2>2 DEF NoBlock
    <3> QED
      BY <1>1, <1>3, <2>1, <2>2, <3>1 DEF HandInOrder
  <2>3. NoBlock(status', 1, n + 1) => NoBlock(status, 1, n)
    BY <1>1 DEF NoBlock
  <2> QED
    BY <1>1, <2>1, <2>2, <2>3 DEF HandInOrder
<1> QED
  BY <1>1, <1>3, <1>4, <1>6, <1>7 DEF Stream

\* A frame goes on until it is complete, and only then does another start.
LEMMA StreamArrival ==
    ASSUME Stream, StreamTypes,
           FrameContinues \/ \E n \in Frames : FrameStarts(n)
    PROVE  Stream'
<1> DEFINE n == Len(status)
           h == rx_hand.length
           f == rx[rx_hand.next].frame
<1>1. PICK s \in Status, v \in Nat :
          /\ status' = Append(status, s) /\ s.kind = "rx"
          /\ s.frame \in Frames /\ v \in 1 .. s.frame
          /\ s.first <=> v = 1
          /\ s.last <=> v = s.frame
          /\ line'.left = s.frame - v /\ line'.frame = s.frame
          /\ line.left > 0 => v = line.frame - line.left + 1 /\ s.frame = line.frame
          /\ line.left = 0 => s.first
  <2>1. line.left \in Nat /\ (line.left > 0 => line.left < line.frame /\ line.frame \in Frames)
    BY DEF Stream, LineInOrder, StreamTypes, LineTypes
  <2>2. CASE FrameContinues
    <3> DEFINE s == [kind |-> "rx", first |-> FALSE, last |-> line.left = 1, frame |-> line.frame]
               v == line.frame - line.left + 1
    <3>1. line.left > 0 /\ line.frame \in Frames /\ line.frame \in Nat
      BY <2>1, <2>2, Sizes DEF FrameContinues
    <3>2. s \in Status /\ s.kind = "rx" /\ s.frame = line.frame /\ ~s.first
          /\ (s.last <=> line.left = 1)
      BY <3>1 DEF Status
    <3>3. v \in Nat /\ v \in 1 .. line.frame /\ v # 1 /\ (line.left = 1 <=> v = line.frame)
      BY <2>1, <3>1
    <3>4. status' = Append(status, s)
      BY <2>2 DEF FrameContinues, Arrives
    <3>5. line'.left = line.left - 1 /\ line'.frame = line.frame
      BY <2>2 DEF FrameContinues, StreamTypes, LineTypes
    <3>6. line.left - 1 = line.frame - v
      BY <2>1, <3>1
    <3> HIDE DEF s, v
    <3>7. v = line.frame - line.left + 1
      BY DEF v
    <3> QED
      BY <3>1, <3>2, <3>3, <3>4, <3>5, <3>6, <3>7
  <2>3. ASSUME NEW k \in Frames, FrameStarts(k)
        PROVE  \E s \in Status, v \in Nat :
                  /\ status' = Append(status, s) /\ s.kind = "rx"
                  /\ s.frame \in Frames /\ v \in 1 .. s.frame
                  /\ s.first <=> v = 1
                  /\ s.last <=> v = s.frame
                  /\ line'.left = s.frame - v /\ line'.frame = s.frame
                  /\ line.left > 0 => v = line.frame - line.left + 1 /\ s.frame = line.frame
                  /\ line.left = 0 => s.first
    <3> DEFINE s == [kind |-> "rx", first |-> TRUE, last |-> k = 1, frame |-> k]
    <3>1. s \in Status /\ s.kind = "rx" /\ s.frame = k /\ s.first /\ (s.last <=> k = 1)
      BY DEF Status
    <3>2. k \in Nat /\ k > 0 /\ line.left = 0
      BY <2>3, Sizes DEF FrameStarts
    <3>3. status' = Append(status, s) /\ line'.left = k - 1 /\ line'.frame = k
      BY <2>3 DEF FrameStarts, Arrives
    <3> HIDE DEF s
    <3>4. 1 \in Nat /\ 1 \in 1 .. k /\ (1 = k <=> k = 1)
      BY <3>2
    <3> QED
      BY <3>1, <3>2, <3>3, <3>4
  <2> QED
    BY <2>2, <2>3
<1>2. UNCHANGED <<rx, rx_hand>>
  BY DEF FrameContinues, FrameStarts, Arrives, thread
<1>3. /\ n \in Nat /\ Len(status') = n + 1 /\ status'[n + 1] = s
      /\ \A i \in 1 .. n : status'[i] = status[i]
  BY <1>1, AppendProperties DEF StreamTypes
<1>4. PICK number \in [1 .. n -> Nat] :
          /\ QueueInOrder(status, number)
          /\ LineInOrder(status, number, line)
          /\ rx_hand.held => HandInOrder(status, number, line, h, f)
  BY DEF Stream
<1>5. PICK m \in [1 .. n + 1 -> Nat] :
          (\A i \in 1 .. n : m[i] = number[i]) /\ m[n + 1] = v
  <2> DEFINE g == [i \in 1 .. n + 1 |-> IF i = n + 1 THEN v ELSE number[i]]
  <2>1. g \in [1 .. n + 1 -> Nat] /\ (\A i \in 1 .. n : g[i] = number[i]) /\ g[n + 1] = v
    BY <1>1, <1>3, <1>4
  <2> HIDE DEF g
  <2> QED
    BY <2>1
<1>6. line.left \in Nat /\ line.frame \in Nat /\ s.frame \in Nat /\ v \in Nat
  BY <1>1, Sizes DEF StreamTypes, LineTypes
<1>7. ASSUME NEW i \in 1 .. n, status[i].kind = "rx", NoBlock(status, i + 1, n)
      PROVE  IF status[i].last THEN s.first
             ELSE v = number[i] + 1 /\ s.frame = status[i].frame
  <2>1. /\ line.left = status[i].frame - number[i] /\ line.frame = status[i].frame
        /\ number[i] \in 1 .. status[i].frame /\ status[i].frame \in Nat
        /\ status[i].last <=> number[i] = status[i].frame
    BY <1>4, <1>7, Sizes DEF LineInOrder, QueueInOrder
  <2>2. CASE status[i].last
    <3>1. line.left = 0
      BY <2>1, <2>2
    <3> QED
      BY <1>1, <2>2, <3>1
  <2>3. CASE ~status[i].last
    <3>1. line.left > 0 /\ line.frame - line.left + 1 = number[i] + 1
      BY <2>1, <2>3
    <3> QED
      BY <1>1, <2>1, <2>3, <3>1
  <2> QED
    BY <2>2, <2>3
<1>8. QueueInOrder(status', m)
  <2>1. \A i \in 1 .. n : status[i].kind = "rx" /\ NoBlock(status, i + 1, n) =>
           IF status[i].last THEN s.first
           ELSE v = number[i] + 1 /\ s.frame = status[i].frame
    BY <1>7
  <2>2. /\ status \in Seq(Status) /\ m \in [1 .. Len(status) + 1 -> Nat]
        /\ m[Len(status) + 1] = v
        /\ s.frame \in Frames /\ v \in 1 .. s.frame
        /\ s.first <=> v = 1
        /\ s.last <=> v = s.frame
    BY <1>1, <1>5 DEF StreamTypes
  <2>3. s.kind = "rx" =>
           /\ s.frame \in Frames /\ v \in 1 .. s.frame
           /\ s.first <=> v = 1
           /\ s.last <=> v = s.frame
           /\ \A i \in 1 .. Len(status) : status[i].kind = "rx" /\ NoBlock(status, i + 1, Len(status)) =>
                 IF status[i].last THEN s.first
                 ELSE v = number[i] + 1 /\ s.frame = status[i].frame
    BY <2>1, <2>2
  <2>4. /\ number \in [1 .. Len(status) -> Nat] /\ s \in Status /\ v \in Nat
        /\ \A i \in 1 .. Len(status) : m[i] = number[i]
        /\ QueueInOrder(status, number)
    BY <1>1, <1>4, <1>5
  <2>5. QueueInOrder(Append(status, s), m)
    BY <2>2, <2>3, <2>4, OrderInAppend
  <2> QED
    BY <1>1, <2>5
<1>9. LineInOrder(status', m, line')
  <2>1. ASSUME NEW i \in 1 .. n + 1, NoBlock(status', i + 1, n + 1)
        PROVE  line'.left = status'[i].frame - m[i] /\ line'.frame = status'[i].frame
    <3>1. i = n + 1
      BY <1>1, <1>3, <2>1 DEF NoBlock
    <3> QED
      BY <1>1, <1>3, <1>5, <3>1
  <2>2. line'.left > 0 => line'.left < line'.frame /\ line'.frame \in Frames
    BY <1>1, <1>6
  <2> QED
    BY <1>3, <2>1, <2>2 DEF LineInOrder
<1>10. ASSUME rx_hand.held
       PROVE  HandInOrder(status', m, line', h, f)
  <2>1. HandInOrder(status, number, line, h, f)
    BY <1>4, <1>10
  <2>2. ASSUME NEW j \in 1 .. n + 1, status'[j].kind = "rx", NoBlock(status', 1, j - 1)
        PROVE  m[j] = h + 1 /\ status'[j].frame = f
    <3>1. NoBlock(status, 1, j - 1)
      BY <1>3, <2>2 DEF NoBlock
    <3>2. CASE j \in 1 .. n
      BY <1>3, <1>5, <2>1, <2>2, <3>1, <3>2 DEF HandInOrder
    <3>3. CASE j = n + 1
      <4>1. line.left = f - h /\ line.frame = f
        BY <1>3, <2>1, <3>1, <3>3 DEF HandInOrder
      <4>2. h > 0 /\ h < f /\ h \in Nat
        BY <2>1, Sizes DEF HandInOrder, StreamTypes, RxTypes
      <4>3. line.left > 0 /\ line.frame - line.left + 1 = h + 1
        BY <1>6, <4>1, <4>2
      <4> QED
        BY <1>1, <1>3, <1>5, <3>3, <4>1, <4>3
    <3> QED
      BY <1>3, <3>2, <3>3
  <2>3. ~NoBlock(status', 1, n + 1)
    BY <1>1, <1>3 DEF NoBlock
  <2> QED
    BY <1>3, <2>1, <2>2, <2>3 DEF HandInOrder
<1> QED
  BY <1>2, <1>3, <1>5, <1>8, <1>9, <1>10 DEF Stream

\* What follows on the buffer in hand when a status has been taken from the queue.
LEMMA HandInTail ==
    ASSUME NEW q \in Seq(Status), q # <<>>, NEW number \in [1 .. Len(q) -> Nat],
           NEW m \in [1 .. Len(q) - 1 -> Nat],
           \A i \in 1 .. Len(q) - 1 : m[i] = number[i + 1],
           NEW l, QueueInOrder(q, number), LineInOrder(q, number, l)
    PROVE  /\ \A h, f : q[1].kind # "rx" /\ HandInOrder(q, number, l, h, f) =>
                 HandInOrder(Tail(q), m, l, h, f)
           /\ q[1].kind = "rx" /\ ~q[1].last =>
                 HandInOrder(Tail(q), m, l, number[1], q[1].frame)
<1> DEFINE n == Len(q) - 1
           p == Tail(q)
<1>1. /\ n \in Nat /\ Len(p) = n /\ Len(q) = n + 1
      /\ \A i \in 1 .. n : p[i] = q[i + 1]
  BY HeadTailProperties, EmptySeq
<1>2. \A i, j \in 0 .. n : NoBlock(p, i + 1, j) => NoBlock(q, i + 2, j + 1)
  BY OrderInTail
<1> HIDE DEF p
<1>3. ASSUME NEW j \in 1 .. n, NoBlock(p, 1, j - 1)
      PROVE  NoBlock(q, 2, j)
  <2>1. NoBlock(p, 0 + 1, j - 1) /\ 0 \in 0 .. n /\ j - 1 \in 0 .. n
    BY <1>1, <1>3
  <2>2. NoBlock(q, 0 + 2, (j - 1) + 1)
    BY <1>2, <2>1
  <2>3. 0 + 2 = 2 /\ (j - 1) + 1 = j
    OBVIOUS
  <2> QED
    BY <2>2, <2>3
<1>4. NoBlock(p, 1, n) => NoBlock(q, 2, n + 1)
  <2>1. 0 + 1 = 1 /\ 0 + 2 = 2 /\ 0 \in 0 .. n /\ n \in 0 .. n
    BY <1>1
  <2> QED
    BY <1>2, <2>1
<1>5. ASSUME NEW h, NEW f, q[1].kind # "rx", HandInOrder(q, number, l, h, f)
      PROVE  HandInOrder(p, m, l, h, f)
  <2>1. ASSUME NEW j \in 1 .. n, p[j].kind = "rx", NoBlock(p, 1, j - 1)
        PROVE  m[j] = h + 1 /\ p[j].frame = f
    <3> DEFINE z == j + 1
    <3>1. /\ z \in 1 .. Len(q) /\ p[j] = q[z] /\ m[j] = number[z]
          /\ NoBlock(q, 2, z - 1)
      BY <1>1, <1>3, <2>1
    <3> HIDE DEF z
    <3>2. NoBlock(q, 1, z - 1)
      BY <1>5, <3>1 DEF NoBlock
    <3> QED
      BY <1>5, <2>1, <3>1, <3>2 DEF HandInOrder
  <2>2. NoBlock(p, 1, n) => NoBlock(q, 1, Len(q))
    BY <1>1, <1>4, <1>5 DEF NoBlock
  <2> QED
    BY <1>1, <1>5, <2>1, <2>2 DEF HandInOrder
<1>6. ASSUME q[1].kind = "rx", ~q[1].last
      PROVE  HandInOrder(p, m, l, number[1], q[1].frame)
  <2>1. 1 \in 1 .. Len(q)
    BY <1>1
  <2>2. /\ q[1].frame \in Frames /\ q[1].frame \in Nat /\ number[1] \in 1 .. q[1].frame
        /\ number[1] # q[1].frame
    BY <1>6, <2>1, Sizes DEF QueueInOrder
  <2>3. ASSUME NEW j \in 1 .. n, p[j].kind = "rx", NoBlock(p, 1, j - 1)
        PROVE  m[j] = number[1] + 1 /\ p[j].frame = q[1].frame
    <3> DEFINE z == j + 1
    <3>1. /\ z \in 1 .. Len(q) /\ p[j] = q[z] /\ m[j] = number[z] /\ 1 < z
          /\ NoBlock(q, 1 + 1, z - 1)
      BY <1>1, <1>3, <2>3
    <3> HIDE DEF z
    <3> QED
      BY <1>6, <2>1, <2>3, <3>1 DEF QueueInOrder
  <2>4. NoBlock(p, 1, n) => l.left = q[1].frame - number[1] /\ l.frame = q[1].frame
    <3>1. 1 + 1 = 2 /\ n + 1 = Len(q)
      BY <1>1
    <3>2. NoBlock(p, 1, n) => NoBlock(q, 1 + 1, Len(q))
      BY <1>4, <3>1
    <3> QED
      BY <1>6, <2>1, <3>2 DEF LineInOrder
  <2> QED
    BY <1>1, <2>2, <2>3, <2>4 DEF HandInOrder
<1> QED
  BY <1>5, <1>6 DEF p

LEMMA StreamHead ==
    ASSUME Stream, StreamTypes
    PROVE  HeadFollows
<1> SUFFICES ASSUME status # <<>>, status[1].kind = "rx"
             PROVE  /\ status[1].frame \in Frames
                    /\ rx_hand.held =>
                          /\ ~status[1].first /\ status[1].frame = rx[rx_hand.next].frame
                          /\ rx_hand.length < status[1].frame
  BY DEF HeadFollows
<1>1. PICK number \in [1 .. Len(status) -> Nat] :
          /\ QueueInOrder(status, number)
          /\ rx_hand.held =>
                HandInOrder(status, number, line, rx_hand.length, rx[rx_hand.next].frame)
  BY DEF Stream
<1>2. 1 \in 1 .. Len(status) /\ NoBlock(status, 1, 1 - 1)
  BY EmptySeq DEF StreamTypes, NoBlock
<1>3. status[1].frame \in Frames /\ (status[1].first <=> number[1] = 1)
  BY <1>1, <1>2 DEF QueueInOrder
<1>4. ASSUME rx_hand.held
      PROVE  /\ ~status[1].first /\ status[1].frame = rx[rx_hand.next].frame
             /\ rx_hand.length < status[1].frame
  <2>1. /\ number[1] = rx_hand.length + 1 /\ status[1].frame = rx[rx_hand.next].frame
        /\ rx_hand.length > 0 /\ rx_hand.length < rx[rx_hand.next].frame
    BY <1>1, <1>2, <1>4 DEF HandInOrder
  <2>2. rx_hand.length \in Nat
    BY Sizes DEF StreamTypes, RxTypes
  <2> QED
    BY <1>3, <2>1, <2>2
<1> QED
  BY <1>3, <1>4

LEMMA StreamRead ==
    ASSUME Stream, StreamTypes, Waking => status # <<>>,
           TxStatus \/ ReceiveBlock \/ DiscardBlock
    PROVE  Stream'
<1> DEFINE n == Len(status) - 1
           s == status[1]
           b == rx_hand.next
<1>1. /\ Waking /\ status # <<>> /\ status \in Seq(Status)
      /\ status' = Tail(status) /\ line' = line
  BY DEF TxStatus, ReceiveBlock, DiscardBlock, ReadStatus, Waking, StreamTypes
<1>2. n \in Nat /\ Len(status') = n /\ Head(status) = s /\ 1 \in 1 .. Len(status) /\ s \in Status
  BY <1>1, HeadTailProperties, EmptySeq
<1>3. PICK number \in [1 .. Len(status) -> Nat] :
          /\ QueueInOrder(status, number)
          /\ LineInOrder(status, number, line)
          /\ rx_hand.held =>
                HandInOrder(status, number, line, rx_hand.length, rx[b].frame)
  BY DEF Stream
<1>4. PICK m \in [1 .. n -> Nat] : \A i \in 1 .. n : m[i] = number[i + 1]
  <2> DEFINE g == [i \in 1 .. n |-> number[i + 1]]
  <2>1. \A i \in 1 .. n : i + 1 \in 1 .. Len(status)
    BY <1>2
  <2>2. g \in [1 .. n -> Nat] /\ \A i \in 1 .. n : g[i] = number[i + 1]
    BY <1>3, <2>1
  <2> HIDE DEF g
  <2> QED
    BY <2>2
<1>5. QueueInOrder(status', m) /\ LineInOrder(status', m, line')
  BY <1>1, <1>3, <1>4, OrderInTail
<1>6. SUFFICES ASSUME rx_hand'.held
               PROVE  HandInOrder(status', m, line', rx_hand'.length, rx'[rx_hand'.next].frame)
  BY <1>2, <1>4, <1>5 DEF Stream
<1>7. CASE TxStatus
  <2>1. s.kind # "rx" /\ UNCHANGED <<rx, rx_hand>>
    BY <1>2, <1>7 DEF TxStatus
  <2>2. HandInOrder(status, number, line, rx_hand.length, rx[b].frame)
    BY <1>3, <1>6, <2>1
  <2>3. HandInOrder(Tail(status), m, line, rx_hand.length, rx[b].frame)
    BY <1>1, <1>3, <1>4, <2>1, <2>2, HandInTail
  <2> QED
    BY <1>1, <2>1, <2>3
<1>8. CASE ReceiveBlock
  <2>1. /\ s.kind = "rx" /\ Keeps(s)
        /\ rx' = [rx EXCEPT ![b].done = FALSE, ![b].ready = @ \/ s.last,
                            ![b].frame = IF s.first THEN s.frame ELSE @]
        /\ rx_hand' = [next |-> IF s.last THEN NextRx(b) ELSE b,
                       held |-> ~s.last,
                       length |-> IF s.last THEN 0
                                  ELSE IF s.first THEN 1 ELSE rx_hand.length + 1]
    BY <1>2, <1>8 DEF ReceiveBlock
  <2>2. ~s.last
    BY <1>6, <2>1
  <2>3. HandInOrder(Tail(status), m, line, number[1], s.frame)
    BY <1>1, <1>3, <1>4, <2>1, <2>2, HandInTail
  <2>4. /\ rx_hand'.next = b
        /\ rx_hand'.length = IF s.first THEN 1 ELSE rx_hand.length + 1
    BY <2>1, <2>2
  <2>5. rx'[b].frame = IF s.first THEN s.frame ELSE rx[b].frame
    BY <2>1 DEF StreamTypes, RxTypes
  <2>6. s.first <=> number[1] = 1
    BY <1>2, <1>3, <2>1 DEF QueueInOrder
  <2>7. CASE s.first
    BY <1>1, <2>3, <2>4, <2>5, <2>6, <2>7
  <2>8. CASE ~s.first
    <3>1. rx_hand.held /\ NoBlock(status, 1, 1 - 1)
      BY <2>1, <2>8 DEF Keeps, NoBlock
    <3>2. number[1] = rx_hand.length + 1 /\ s.frame = rx[b].frame
      BY <1>2, <1>3, <2>1, <3>1 DEF HandInOrder
    <3> QED
      BY <1>1, <2>3, <2>4, <2>5, <2>8, <3>2
  <2> QED
    BY <2>7, <2>8
<1>9. CASE DiscardBlock
  <2>1. rx_hand' = [rx_hand EXCEPT !.held = FALSE, !.length = 0]
    BY <1>9 DEF DiscardBlock
  <2>2. ~rx_hand'.held
    BY <2>1 DEF StreamTypes, RxTypes
  <2> QED
    BY <1>6, <2>2
<1> QED
  BY <1>7, <1>8, <1>9

LEMMA StreamNext ==
    ASSUME Stream, StreamTypes, Waking => status # <<>>, HwTypes, [Next]_vars
    PROVE  Stream'
<1> DEFINE Same == /\ UNCHANGED <<status, line, rx_hand>>
                   /\ rx'[rx_hand.next].frame = rx[rx_hand.next].frame
<1>1. Same => Stream'
  BY StreamSame
<1>2. CASE (\E p \in Packets : XmitFill(p)) \/ XmitGoesOn \/ IsrEnter \/ IsrExit
  BY <1>1, <1>2 DEF XmitFill, XmitGoesOn, XmitSetReady, XmitSignal, IsrEnter, IsrExit,
                    hardware, thread
<1>3. CASE IsrTake
  <2>1. /\ rx' = [rx EXCEPT ![rx_next_buffer_rxed].ready = FALSE]
        /\ UNCHANGED <<status, line, rx_hand>>
    BY <1>3 DEF IsrTake, hardware, thread
  <2>2. rx'[rx_hand.next].frame = rx[rx_hand.next].frame
    BY <2>1 DEF StreamTypes, RxTypes
  <2> QED
    BY <1>1, <2>1, <2>2
<1>4. CASE IsrSetDone
  <2>1. /\ rx' = [rx EXCEPT ![Taken].done = TRUE]
        /\ UNCHANGED <<status, line, rx_hand>>
    BY <1>4 DEF IsrSetDone, hardware, thread
  <2>2. rx'[rx_hand.next].frame = rx[rx_hand.next].frame
    BY <2>1 DEF StreamTypes, RxTypes
  <2> QED
    BY <1>1, <2>1, <2>2
<1>5. CASE Wake \/ NoStatus \/ HandleSoftIrq \/ HandleTxData \/ SendUnit \/ BurstSent \/ Deschedule
  BY <1>1, <1>5 DEF Wake, NoStatus, HandleSoftIrq, HandleTxData, SendUnit, BurstSent,
                    Deschedule, hardware
<1>6. CASE TxStatus \/ ReceiveBlock \/ DiscardBlock
  BY <1>6, StreamRead
<1>7. CASE MacReads \/ MacUnderruns
  <2> DEFINE s == [kind |-> "tx", first |-> FALSE, last |-> FALSE, frame |-> 0]
  <2>1. PICK k \in {0, 1} : MacSends(k)
    BY <1>7 DEF MacReads, MacUnderruns
  <2>2. UNCHANGED <<line, rx_hand, rx>>
    BY <2>1 DEF MacSends, thread
  <2>3. s \in Status /\ s.kind = "tx"
    BY DEF Status
  <2>4. status' = status \/ status' = Append(status, s)
    BY <2>1 DEF MacSends
  <2> HIDE DEF s
  <2> QED
    BY <1>1, <2>2, <2>3, <2>4, StreamTxStatus
<1>8. CASE FrameContinues \/ \E n \in Frames : FrameStarts(n)
  BY <1>8, StreamArrival
<1>9. CASE Present \/ TakeCommand \/ SetSemaphore \/ UNCHANGED vars
  BY <1>1, <1>9 DEF Present, TakeCommand, SetSemaphore, vars, hardware, thread
<1> QED
  BY <1>2, <1>3, <1>4, <1>5, <1>6, <1>7, <1>8, <1>9 DEF Next, Thread6, IsrGoesOn, Hardware
-------------------------------------------------------------------------------
(* Types *)

ControlTypes ==
    /\ pc \in {"asleep", "status", "soft_irq", "tx_data", "send", "sent", "exit"}
    /\ r12 \subseteq {"irq", "more"}
    /\ {r13, deps, sem} \subseteq SUBSET Semaphores
    /\ irq \in BOOLEAN
    /\ pending \subseteq Events
    /\ presented \in Events \cup {NoEvent}

LEMMA TypesAre ==
    TypeOK <=> /\ TxTypes /\ RxTypes /\ ControlTypes /\ HwTypes
               /\ fill \in Nat
               /\ Len(status) <= StatusDepth /\ Len(owed) <= NumRx /\ Len(posted) <= NumTx
BY DEF TypeOK, TxTypes, RxTypes, ControlTypes, HwTypes

LEMMA ControlNext == ControlTypes /\ HwTypes /\ [Next]_vars => ControlTypes'
<1> SUFFICES ASSUME ControlTypes, HwTypes, [Next]_vars
             PROVE  ControlTypes'
  OBVIOUS
<1> USE DEF ControlTypes, Semaphores, Events
<1>1. CASE (\E p \in Packets : XmitFill(p)) \/ XmitGoesOn \/ IsrEnter \/ IsrGoesOn
  BY <1>1 DEF XmitFill, XmitGoesOn, XmitSetReady, XmitSignal, IsrEnter, IsrGoesOn,
              IsrTake, IsrExit, IsrSetDone, thread, hardware
<1>2. CASE Wake
  BY <1>2 DEF Wake, hardware
<1>3. CASE NoStatus
  BY <1>3 DEF NoStatus, hardware
<1>4. CASE TxStatus
  BY <1>4 DEF TxStatus, ReadStatus
<1>5. CASE ReceiveBlock
  <2>1. r12' = r12 \/ r12' = r12 \cup {"irq"}
    BY <1>5 DEF ReceiveBlock
  <2> QED
    BY <1>5, <2>1 DEF ReceiveBlock, ReadStatus
<1>6. CASE DiscardBlock
  BY <1>6 DEF DiscardBlock, ReadStatus
<1>7. CASE HandleSoftIrq
  <2>1. r12' = r12 \/ r12' = r12 \cup {"more"}
    BY <1>7 DEF HandleSoftIrq
  <2> QED
    BY <1>7, <2>1 DEF HandleSoftIrq, hardware
<1>8. CASE HandleTxData
  <2>1. pc' \in {"send", "exit"}
    BY <1>8 DEF HandleTxData
  <2> QED
    BY <1>8, <2>1 DEF HandleTxData, hardware
<1>9. CASE SendUnit
  <2>1. pc' \in {"sent", "send"}
    BY <1>9 DEF SendUnit
  <2> QED
    BY <1>9, <2>1 DEF SendUnit
<1>10. CASE BurstSent
  <2>1. r12' = r12 \/ r12' = r12 \cup {"more"}
    BY <1>10 DEF BurstSent
  <2> QED
    BY <1>10, <2>1 DEF BurstSent
<1>11. CASE Deschedule
  <2>1. deps' \in SUBSET Semaphores /\ irq' \in BOOLEAN
    BY <1>11 DEF Deschedule
  <2> QED
    BY <1>11, <2>1 DEF Deschedule, hardware
<1>12. CASE \/ MacReads \/ MacUnderruns \/ Present \/ TakeCommand
            \/ FrameContinues \/ \E n \in Frames : FrameStarts(n)
  BY <1>12 DEF MacReads, MacUnderruns, MacSends, Present, TakeCommand,
               FrameContinues, FrameStarts, Arrives, thread
<1>13. CASE SetSemaphore
  <2>1. Head(headers) \in Events
    BY <1>13, HeadTailProperties DEF SetSemaphore, HwTypes
  <2> QED
    BY <1>13, <2>1 DEF SetSemaphore, thread
<1>14. CASE UNCHANGED vars
  BY <1>14 DEF vars, thread, hardware
<1> QED
  BY <1>1, <1>2, <1>3, <1>4, <1>5, <1>6, <1>7, <1>8, <1>9, <1>10, <1>11, <1>12, <1>13, <1>14
     DEF Next, Thread6, Hardware

LEMMA HeadersNext ==
    ASSUME HwTypes, [Next]_vars
    PROVE  headers' \in Seq(Events) /\ Len(headers') <= Headers
<1>1. headers \in Seq(Events) /\ Len(headers) \in Nat /\ Len(headers) <= Headers /\ Headers \in Nat
  BY Sizes DEF HwTypes
<1>2. CASE UNCHANGED headers
  BY <1>1, <1>2
<1>3. CASE ~TakeCommand /\ ~SetSemaphore
  BY <1>2, <1>3, HeadersKept
<1>6. CASE TakeCommand
  <2>1. /\ presented \in Events /\ headers' = Append(headers, presented)
        /\ Len(headers) < Headers
    BY <1>6 DEF TakeCommand, HwTypes
  <2>2. headers' \in Seq(Events) /\ Len(headers') = Len(headers) + 1
    BY <1>1, <2>1, AppendProperties
  <2> QED
    BY <1>1, <2>1, <2>2
<1>7. CASE SetSemaphore
  <2>1. headers # <<>> /\ headers' = Tail(headers)
    BY <1>7 DEF SetSemaphore
  <2>2. headers' \in Seq(Events) /\ Len(headers') = Len(headers) - 1
    BY <1>1, <2>1, HeadTailProperties
  <2> QED
    BY <1>1, <2>2
<1> QED
  BY <1>3, <1>6, <1>7

LEMMA HwNext ==
    ASSUME HwTypes, Len(status) <= StatusDepth, Waking => status # <<>>,
           TxInv, ControlTypes', [Next]_vars
    PROVE  HwTypes' /\ Len(status') <= StatusDepth
<1>1. /\ pending' \subseteq Events /\ presented' \in Events \cup {NoEvent}
      /\ headers' \in Seq(Events) /\ Len(headers') <= Headers
  BY HeadersNext DEF ControlTypes
<1>2. Len(status) \in Nat /\ StatusDepth \in Nat
  BY Sizes DEF HwTypes
<1>3. CASE UNCHANGED <<status, line, mac>>
  BY <1>1, <1>3 DEF HwTypes
<1>4. CASE (\E p \in Packets : XmitFill(p)) \/ XmitGoesOn \/ IsrEnter \/ IsrGoesOn
  BY <1>3, <1>4 DEF XmitFill, XmitGoesOn, XmitSetReady, XmitSignal, IsrEnter, IsrGoesOn,
                    IsrTake, IsrExit, IsrSetDone, hardware
<1>5. CASE Wake \/ NoStatus \/ HandleSoftIrq \/ HandleTxData \/ SendUnit \/ Deschedule
  BY <1>3, <1>5 DEF Wake, NoStatus, HandleSoftIrq, HandleTxData, SendUnit, Deschedule, hardware
<1>6. CASE BurstSent
  <2> DEFINE p == tx[tx_hand.next].packet
  <2>1. p \in Nat \ {0}
    <3>1. tx_hand.next \in Tx /\ posted # <<>>
      BY <1>6 DEF BurstSent, TxInv, TxHand, TxTypes
    <3>2. TxPos(tx_hand.next) = 0
      <4> DEFINE h == tx_hand.next
      <4>1. h \in Tx /\ TxPos(h) = IF h >= h THEN h - h ELSE h + NumTx - h
        BY <3>1, TxPlaces
      <4> HIDE DEF h
      <4>2. h \in Nat
        BY <4>1, Sizes DEF Tx
      <4>3. TxPos(h) = 0
        BY <4>1, <4>2
      <4> QED
        BY <4>3 DEF h
    <3>3. Len(posted) \in Nat /\ Len(posted) > 0
      BY <3>1, EmptySeq DEF TxInv, TxTypes
    <3>4. p = posted[1] /\ posted[1] \in Packets
      BY <3>1, <3>2, <3>3 DEF TxInv, TxRing, TxTypes
    <3> QED
      BY <3>4, Sizes
  <2>2. UNCHANGED <<status, line>> /\ (mac' = mac \/ mac' = Append(mac, p))
    BY <1>6 DEF BurstSent
  <2>3. mac' \in Seq(Nat \ {0})
    <3> HIDE DEF p
    <3>1. mac \in Seq(Nat \ {0})
      BY DEF HwTypes
    <3>2. Append(mac, p) \in Seq(Nat \ {0})
      BY <2>1, <3>1, AppendProperties
    <3> QED
      BY <2>2, <3>1, <3>2
  <2> QED
    BY <1>1, <2>2, <2>3 DEF HwTypes
<1>7. CASE TxStatus \/ ReceiveBlock \/ DiscardBlock
  <2>1. status # <<>> /\ status' = Tail(status) /\ UNCHANGED <<line, mac>>
    BY <1>7 DEF TxStatus, ReceiveBlock, DiscardBlock, ReadStatus, Waking
  <2>2. status' \in Seq(Status) /\ Len(status') = Len(status) - 1
    BY <2>1, HeadTailProperties DEF HwTypes
  <2> QED
    BY <1>1, <1>2, <2>1, <2>2 DEF HwTypes
<1>8. CASE MacReads \/ MacUnderruns
  <2> DEFINE s == [kind |-> "tx", first |-> FALSE, last |-> FALSE, frame |-> 0]
             left == Head(mac) - 1
  <2>1. PICK k \in {0, 1} : MacSends(k)
    BY <1>8 DEF MacReads, MacUnderruns
  <2>2. /\ mac \in Seq(Nat \ {0}) /\ mac # <<>> /\ UNCHANGED line
        /\ left = 0 => Len(status) < StatusDepth
        /\ mac' = IF left = 0 THEN Tail(mac) ELSE <<left>> \o Tail(mac)
        /\ status' = IF left > 0 THEN status ELSE Append(status, s)
    BY <2>1 DEF HwTypes, MacSends
  <2>3. Tail(mac) \in Seq(Nat \ {0}) /\ Head(mac) \in Nat \ {0}
    BY <2>2, HeadTailProperties
  <2>4. left \in Nat
    BY <2>3
  <2>5. s \in Status
    BY DEF Status
  <2> HIDE DEF left, s
  <2>6. mac' \in Seq(Nat \ {0})
    <3>1. CASE left = 0
      BY <2>2, <2>3, <3>1
    <3>2. CASE left # 0
      <4>1. <<left>> \in Seq(Nat \ {0})
        BY <2>4, <3>2
      <4> QED
        BY <2>2, <2>3, <3>2, <4>1, ConcatProperties
    <3> QED
      BY <3>1, <3>2
  <2>7. status' \in Seq(Status) /\ Len(status') <= StatusDepth
    <3>1. CASE left > 0
      BY <2>2, <3>1 DEF HwTypes
    <3>2. CASE left = 0
      BY <1>2, <2>2, <2>5, <3>2, AppendProperties DEF HwTypes
    <3> QED
      BY <2>4, <3>1, <3>2
  <2> QED
    BY <1>1, <2>2, <2>6, <2>7 DEF HwTypes
<1>9. CASE FrameContinues \/ \E n \in Frames : FrameStarts(n)
  <2>1. PICK s \in Status : Arrives(s)
    BY <1>9, ArrivingStatus
  <2>2. status' \in Seq(Status) /\ Len(status') <= StatusDepth /\ UNCHANGED mac
    BY <1>2, <2>1, AppendProperties DEF Arrives, HwTypes
  <2>3. line' \in [frame : Frames \cup {0}, left : Nat]
    <3>1. CASE FrameContinues
      <4>1. line.left - 1 \in Nat /\ line' = [line EXCEPT !.left = line.left - 1]
        BY <3>1 DEF FrameContinues, HwTypes
      <4> QED
        BY <4>1 DEF HwTypes
    <3>2. ASSUME NEW n \in Frames, FrameStarts(n)
          PROVE  line' \in [frame : Frames \cup {0}, left : Nat]
      <4>1. n - 1 \in Nat
        BY Sizes
      <4> QED
        BY <3>2, <4>1 DEF FrameStarts
    <3> QED
      BY <1>9, <3>1, <3>2
  <2> QED
    BY <1>1, <2>2, <2>3 DEF HwTypes
<1>10. CASE Present \/ TakeCommand \/ SetSemaphore \/ UNCHANGED vars
  BY <1>3, <1>10 DEF Present, TakeCommand, SetSemaphore, vars, hardware
<1> QED
  BY <1>4, <1>5, <1>6, <1>7, <1>8, <1>9, <1>10 DEF Next, Thread6, Hardware
-------------------------------------------------------------------------------
(* The theorems *)

LEMMA IInvNext == IInv /\ [Next]_vars => IInv'
<1> SUFFICES ASSUME IInv, [Next]_vars
             PROVE  IInv'
  OBVIOUS
<1>1. /\ TxInv /\ RxInv /\ ControlTypes /\ HwTypes /\ StreamTypes /\ fill \in Nat
      /\ Len(status) <= StatusDepth /\ StatusOnce /\ RoomAnnounced /\ Stream
  BY TypesAre DEF IInv, TxInv, RxInv, StreamTypes, HwTypes, LineTypes
<1>2. Waking => status # <<>>
  BY <1>1 DEF StatusOnce, Waking
<1>3. HeadFollows
  BY <1>1, StreamHead
<1>4. TxInv'
  BY <1>1, TxNext
<1>5. RxInv'
  BY <1>1, <1>2, <1>3, RxNext DEF HwTypes
<1>6. StatusOnce'
  BY <1>1, StatusOnceNext
<1>7. RoomAnnounced' /\ fill' \in Nat
  BY <1>1, <1>4, RoomAnnouncedNext
<1>8. Stream'
  BY <1>1, <1>2, StreamNext
<1>9. ControlTypes'
  BY <1>1, ControlNext
<1>10. HwTypes' /\ Len(status') <= StatusDepth
  BY <1>1, <1>2, <1>9, HwNext
<1>11. TypeOK'
  BY <1>4, <1>5, <1>7, <1>9, <1>10
     DEF TypeOK, TxInv, TxTypes, TxRing, RxInv, RxTypes, RxRing, ControlTypes, HwTypes
<1> QED
  BY <1>4, <1>5, <1>6, <1>7, <1>8, <1>11 DEF IInv, TxInv, RxInv

\* Every variable of the driver keeps its type, its queues their bounds.
THEOREM EthTypeCorrect == Spec => []TypeOK
<1>1. IInv => TypeOK
  BY DEF IInv
<1> QED
  BY <1>1, InitIInv, IInvNext, PTL DEF Spec

\* For any watermark and burst, and however many events the postbus source holds,
\* announcements of room that pile up overfill the transmit FIFO by no more than a
\* burst for every place they can pile up in.
THEOREM TransmitFifoBounded == Spec => []RoomInFifo
<1>1. IInv => RoomInFifo
  <2> SUFFICES ASSUME IInv PROVE RoomInFifo
    OBVIOUS
  <2>1. PICK units \in Nat : RoomFor(units)
    BY DEF IInv, RoomAnnounced
  <2> DEFINE coming == units + Bursts("tx_data_vwm" \in pending)
                             + Bursts(presented = "tx_data_vwm")
             set == Bursts("tx_data_vwm" \in sem)
             room == Watermark + (Headers + 3) * Burst
  <2>2. coming \in Nat /\ set \in Nat /\ fill \in Nat /\ tx_hand.burst \in Nat
    BY Sizes DEF Bursts, IInv, TypeOK, Units
  <2>3. room \in Nat
    BY Sizes
  <2>4. fill + tx_hand.burst + coming <= room \/ fill + coming + set <= room
    BY <2>1 DEF RoomFor
  <2> HIDE DEF coming, set, room
  <2>5. fill <= room
    BY <2>2, <2>3, <2>4
  <2> QED
    BY <2>5 DEF room, RoomInFifo
<1> QED
  BY <1>1, InitIInv, IInvNext, PTL DEF Spec

\* In rings of any size the buffers hold what was put into them, in order, until it
\* has been used, though neither side takes a lock.
THEOREM RingsInOrder == Spec => []QueuesKept
<1>1. IInv => QueuesKept
  <2> SUFFICES ASSUME IInv PROVE QueuesKept
    OBVIOUS
  <2>1. TxInv /\ RxInv
    BY TypesAre DEF IInv, TxInv, RxInv
  <2>2. ASSUME NEW i \in 1 .. Len(owed)
        PROVE  LET b == (rx_next_buffer_rxed + i - 1) % NumRx
               IN  rx[b].ready /\ ~rx[b].done /\ rx[b].frame = owed[i]
    <3> DEFINE h == rx_next_buffer_rxed
               b == (h + i - 1) % NumRx
    <3>1. h \in 0 .. NumRx - 1 /\ NumRx \in Nat \ {0} /\ i \in 1 .. NumRx /\ h \in Rx
      BY <2>1, Sizes DEF RxInv, RxTypes, RxRing, Rx
    <3>2. b \in 0 .. NumRx - 1 /\ (IF b >= h THEN b - h ELSE b + NumRx - h) = i - 1
      BY <3>1, PlaceAt
    <3> HIDE DEF b
    <3>3. b \in Rx /\ RxPos(b) = i - 1
      BY <3>1, <3>2, RxPlaces DEF Rx
    <3>4. i - 1 < Len(owed) /\ (i - 1) + 1 = i
      BY <2>1 DEF RxInv, RxTypes
    <3> QED
      BY <2>1, <3>3, <3>4 DEF RxInv, RxRing, b
  <2>3. ASSUME NEW i \in 1 .. Len(posted)
        PROVE  LET b == (tx_hand.next + i - 1) % NumTx
               IN  tx[b].ready /\ ~tx[b].done /\ tx[b].packet = posted[i]
    <3> DEFINE h == tx_hand.next
               b == (h + i - 1) % NumTx
    <3>1. h \in 0 .. NumTx - 1 /\ NumTx \in Nat \ {0} /\ i \in 1 .. NumTx /\ h \in Tx
      BY <2>1, Sizes DEF TxInv, TxTypes, TxRing, Tx
    <3>2. b \in 0 .. NumTx - 1 /\ (IF b >= h THEN b - h ELSE b + NumTx - h) = i - 1
      BY <3>1, PlaceAt
    <3> HIDE DEF b
    <3>3. b \in Tx /\ TxPos(b) = i - 1
      BY <3>1, <3>2, TxPlaces DEF Tx
    <3>4. i - 1 < Len(posted) /\ (i - 1) + 1 = i
      BY <2>1 DEF TxInv, TxTypes
    <3> QED
      BY <2>1, <3>3, <3>4 DEF TxInv, TxRing, b
  <2> QED
    BY <2>2, <2>3 DEF QueuesKept
<1> QED
  BY <1>1, InitIInv, IInvNext, PTL DEF Spec

\* Thread 6 never reads a status that is not there, and none waits unannounced.
THEOREM StatusesAnnounced == Spec => []StatusAnnounced
<1>1. IInv => StatusAnnounced
  BY DEF IInv, StatusOnce, StatusAnnounced, UnderWay, Brought, NoEvent
<1> QED
  BY <1>1, InitIInv, IInvNext, PTL DEF Spec
-------------------------------------------------------------------------------
(* If every frame fits a buffer *)

FramesFit == \A n \in Frames : n <= BufferBlocks

\* No block is refused for want of room in the buffer in hand, which alone gives a
\* buffer up half full.
LEMMA NoneGivenUpNext ==
    ASSUME FramesFit, IInv, NoneGivenUp, [Next]_vars
    PROVE  NoneGivenUp'
<1>1. /\ RxInv /\ StreamTypes /\ HeadFollows /\ (Waking => status # <<>>)
      /\ status \in Seq(Status)
  BY TypesAre, StreamHead DEF IInv, RxInv, StreamTypes, HwTypes, LineTypes, StatusOnce, Waking
<1>2. /\ rx_next_buffer_rxed \in Rx /\ rx_hand.next \in Rx /\ Taken \in Rx
      /\ \A x \in Rx : RxPos(x) \in 0 .. NumRx - 1 /\ (RxPos(x) = 0 <=> x = rx_next_buffer_rxed)
                       /\ \A y \in Rx : RxPos(x) = RxPos(y) => x = y
      /\ Len(owed) \in Nat /\ NumRx \in Nat /\ NumRx > 0
  BY <1>1, RxPosOf, Sizes DEF RxInv, RxTypes
<1>3. CASE /\ UNCHANGED <<rx, rx_hand, rx_next_buffer_rxed, owed>>
           /\ isr' = isr \/ isr # "set_done"
  BY <1>3 DEF NoneGivenUp, RxPos, Taken
<1>4. CASE (\E p \in Packets : XmitFill(p)) \/ XmitGoesOn
  BY <1>3, <1>4 DEF XmitFill, XmitGoesOn, XmitSetReady, XmitSignal, thread
<1>5. CASE IsrEnter \/ IsrExit
  BY <1>3, <1>5 DEF IsrEnter, IsrExit, Client, thread
<1>6. CASE IsrTake
  <2> DEFINE h == rx_next_buffer_rxed
             n == Len(owed)
  <2>1. /\ isr = "check" /\ isr' = "set_done" /\ rx[h].ready
        /\ owed' = Tail(owed) /\ rx_next_buffer_rxed' = NextRx(h)
        /\ rx' = [rx EXCEPT ![h].ready = FALSE]
        /\ UNCHANGED rx_hand
    BY <1>6 DEF IsrTake, thread
  <2>2. n > 0 /\ owed # <<>>
    BY <1>1, <1>2, <2>1, EmptySeq DEF RxInv, RxRing
  <2>3. Len(owed') = n - 1
    BY <1>1, <2>1, <2>2, HeadTailProperties DEF RxInv, RxTypes
  <2>4. Taken' = h
    BY <1>2, <2>1, TakenOf DEF Taken
  <2>5. \A x \in Rx : x # h => RxPos(x)' = RxPos(x) - 1
    <3> SUFFICES ASSUME NEW x \in Rx, x # h PROVE RxPos(x)' = RxPos(x) - 1
      OBVIOUS
    <3>1. RxPos(x)' = (x + NumRx - NextRx(h)) % NumRx
      BY <2>1 DEF RxPos
    <3> QED
      BY <1>2, <3>1, RxPlaces
  <2>6. \A x \in Rx : rx'[x].done = rx[x].done
    BY <1>1, <1>2, <2>1 DEF RxInv, RxTypes
  <2>7. ASSUME NEW x \in Rx
        PROVE  \/ RxPos(x)' < Len(owed')
               \/ rx'[x].done
               \/ rx_hand'.held /\ rx_hand'.next = x
               \/ isr' = "set_done" /\ Taken' = x
    <3>1. CASE x = h
      BY <2>1, <2>4, <3>1
    <3>2. CASE x # h
      <4>1. RxPos(x) < n => RxPos(x)' < Len(owed')
        BY <1>2, <2>3, <2>5, <3>2
      <4> QED
        BY <2>1, <2>6, <4>1 DEF NoneGivenUp
    <3> QED
      BY <3>1, <3>2
  <2> QED
    BY <2>7 DEF NoneGivenUp
<1>7. CASE IsrSetDone
  <2>1. /\ isr = "set_done" /\ rx' = [rx EXCEPT ![Taken].done = TRUE]
        /\ UNCHANGED <<rx_hand, rx_next_buffer_rxed, owed>>
    BY <1>7 DEF IsrSetDone, thread
  <2>2. \A x \in Rx : rx[x].done \/ x = Taken => rx'[x].done
    BY <1>1, <1>2, <2>1 DEF RxInv, RxTypes
  <2>3. \A x \in Rx : RxPos(x)' = RxPos(x)
    BY <2>1 DEF RxPos
  <2> QED
    BY <2>1, <2>2, <2>3 DEF NoneGivenUp
<1>8. CASE Wake \/ NoStatus \/ HandleSoftIrq \/ HandleTxData \/ SendUnit \/ BurstSent \/ Deschedule
  BY <1>3, <1>8 DEF Wake, NoStatus, HandleSoftIrq, HandleTxData, SendUnit, BurstSent,
                    Deschedule, client
<1>9. CASE TxStatus
  BY <1>3, <1>9 DEF TxStatus, ReadStatus, client
<1>10. CASE ReceiveBlock
  <2> DEFINE b == rx_hand.next
             n == Len(owed)
             s == Head(status)
  <2>1. /\ s.last \in BOOLEAN /\ s \in Status
        /\ rx' = [rx EXCEPT ![b].done = FALSE, ![b].ready = @ \/ s.last,
                            ![b].frame = IF s.first THEN s.frame ELSE @]
        /\ rx_hand'.next = IF s.last THEN NextRx(b) ELSE b
        /\ rx_hand'.held = ~s.last
        /\ owed' = IF s.last THEN Append(owed, s.frame) ELSE owed
        /\ UNCHANGED <<isr, rx_next_buffer_rxed>>
        /\ rx_hand.held \/ rx[b].done
    <3>1. status # <<>>
      BY <1>1, <1>10 DEF ReceiveBlock, ReadStatus, Waking
    <3>2. s \in Status
      BY <1>1, <3>1, HeadTailProperties
    <3> QED
      BY <1>10, <3>2 DEF ReceiveBlock, ReadStatus, Keeps, client, Status
  <2>2. \A x \in Rx : x # b => rx'[x] = rx[x]
    BY <1>1, <2>1 DEF RxInv, RxTypes
  <2>3. RxPos(b) = n
    <3>1. ~(RxPos(b) < n)
      BY <1>1, <1>2, <2>1 DEF RxInv, RxRing
    <3> QED
      BY <1>1, <1>2, <3>1 DEF RxInv, RxRing
  <2>4. Len(owed') = IF s.last THEN n + 1 ELSE n
    BY <1>1, <2>1, AppendProperties DEF RxInv, RxTypes
  <2>5. (\A x \in Rx : RxPos(x)' = RxPos(x)) /\ Taken' = Taken
    BY <2>1 DEF RxPos, Taken
  <2>6. ASSUME NEW x \in Rx
        PROVE  \/ RxPos(x)' < Len(owed')
               \/ rx'[x].done
               \/ rx_hand'.held /\ rx_hand'.next = x
               \/ isr' = "set_done" /\ Taken' = x
    <3>1. CASE x = b
      <4>1. CASE s.last
        <5>1. RxPos(x)' = n /\ Len(owed') = n + 1
          BY <1>2, <2>3, <2>4, <2>5, <3>1, <4>1
        <5> QED
          BY <1>2, <5>1
      <4>2. CASE ~s.last
        BY <2>1, <3>1, <4>2
      <4> QED
        BY <4>1, <4>2
    <3>2. CASE x # b
      <4>1. RxPos(x) < n => RxPos(x)' < Len(owed')
        BY <1>2, <2>4, <2>5
      <4> QED
        BY <2>1, <2>2, <2>5, <3>2, <4>1 DEF NoneGivenUp
    <3> QED
      BY <3>1, <3>2
  <2> QED
    BY <2>6 DEF NoneGivenUp
<1>11. CASE DiscardBlock
  <2>1. /\ rx_hand' = [rx_hand EXCEPT !.held = FALSE, !.length = 0]
        /\ UNCHANGED <<rx, isr, rx_next_buffer_rxed, owed>>
        /\ status # <<>> /\ Head(status).kind = "rx" /\ ~Keeps(Head(status))
    BY <1>1, <1>11 DEF DiscardBlock, ReadStatus, Waking, client
  <2>2. ~rx_hand.held
    <3>1. ASSUME rx_hand.held
          PROVE  FALSE
      <4>1. /\ Head(status) = status[1] /\ ~status[1].first
            /\ status[1].frame \in Frames /\ rx_hand.length < status[1].frame
        BY <1>1, <2>1, <3>1 DEF HeadFollows
      <4>2. ~(rx_hand.length < BufferBlocks)
        BY <2>1, <3>1, <4>1 DEF Keeps
      <4>3. rx_hand.length \in Nat /\ BufferBlocks \in Nat /\ status[1].frame \in Nat
            /\ status[1].frame <= BufferBlocks
        BY <1>1, <4>1, Sizes DEF RxInv, RxTypes, FramesFit
      <4> QED
        BY <4>1, <4>2, <4>3
    <3> QED
      BY <3>1
  <2> QED
    BY <2>1, <2>2 DEF NoneGivenUp, RxPos, Taken
<1>12. CASE Hardware \/ FrameContinues \/ \E n \in Frames : FrameStarts(n)
  BY <1>3, <1>12, HardwareTx
<1>13. CASE UNCHANGED vars
  BY <1>3, <1>13 DEF vars, client, thread
<1> QED
  BY <1>4, <1>5, <1>6, <1>7, <1>8, <1>9, <1>10, <1>11, <1>12, <1>13
     DEF Next, Thread6, IsrGoesOn

\* A driver whose buffers take the largest frame loses none of them, however long
\* it runs and whenever its ring is full.
THEOREM BuffersKept == FramesFit => (Spec => []NoBufferLost)
<1> SUFFICES ASSUME FramesFit PROVE Spec => []NoBufferLost
  OBVIOUS
<1>1. Init => NoneGivenUp
  BY DEF Init, NoneGivenUp
<1>2. IInv /\ NoneGivenUp => NoBufferLost
  <2> SUFFICES ASSUME IInv, NoneGivenUp PROVE NoBufferLost
    OBVIOUS
  <2>1. \A b \in Rx : \/ rx[b].done # rx[b].ready
                      \/ ~rx[b].done /\ rx_hand.held /\ rx_hand.next = b
                      \/ ~rx[b].done /\ isr = "set_done" /\ Taken = b
    <3>1. \A b \in Rx : rx[b].done \in BOOLEAN /\ rx[b].ready \in BOOLEAN
      BY DEF IInv, TypeOK
    <3> QED
      BY <3>1 DEF IInv, RxRing, NoneGivenUp
  <2>2. \A b \in Tx : \/ tx[b].done # tx[b].ready
                      \/ ~tx[b].done /\ xmit = "set_ready" /\ tx_next_buffer_done = b
    <3>1. \A b \in Tx : tx[b].done \in BOOLEAN /\ tx[b].ready \in BOOLEAN
      BY DEF IInv, TypeOK
    <3> QED
      BY <3>1 DEF IInv, TxRing
  <2> QED
    BY <2>1, <2>2 DEF NoBufferLost
<1>3. IInv /\ NoneGivenUp /\ [Next]_vars => IInv' /\ NoneGivenUp'
  BY IInvNext, NoneGivenUpNext
<1> QED
  BY <1>1, <1>2, <1>3, InitIInv, PTL DEF Spec
===============================================================================
