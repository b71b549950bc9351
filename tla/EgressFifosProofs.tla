--------------------------- MODULE EgressFifosProofs ---------------------------
(***************************************************************************)
(* Proofs about EgressFifos for every set of FIFOs, every ring size and    *)
(* every word: the pointers stay in order around the ring, the registered  *)
(* flags agree with them, no write reaches an uncommitted word, and each   *)
(* FIFO implements the queue of CommitFifo.                                *)
(***************************************************************************)
EXTENDS EgressFifos, SequenceTheorems, TLAPS
-------------------------------------------------------------------------------
(* Arithmetic of a ring of n + 1 entries *)

Ring(n) == [size_m_one : {n}, watermark : Nat]

\* One step around the ring stays in the ring.
LEMMA NextPtrInRing ==
    ASSUME NEW n \in Nat, NEW c \in Ring(n), NEW p \in 0..n
    PROVE  NextPtr(p, c) \in 0..n
BY DEF NextPtr, Ring

\* The distance between two pointers of the ring is at most n, and is zero
\* only between equal pointers.
LEMMA EntriesBounded ==
    ASSUME NEW n \in Nat, NEW c \in Ring(n), NEW a \in 0..n, NEW b \in 0..n
    PROVE  /\ Entries(a, b, c) \in 0..n
           /\ Entries(a, b, c) = 0 <=> a = b
BY DEF Entries, Ring

\* Moving the far pointer one step adds one to the distance, unless the ring
\* is already full.
LEMMA EntriesGrow ==
    ASSUME NEW n \in Nat, NEW c \in Ring(n), NEW a \in 0..n, NEW b \in 0..n,
           Entries(a, b, c) # n
    PROVE  Entries(a, NextPtr(b, c), c) = Entries(a, b, c) + 1
BY DEF Entries, NextPtr, Ring

\* Moving the near pointer one step takes one from the distance, unless the
\* pointers were equal.
LEMMA EntriesShrink ==
    ASSUME NEW n \in Nat, NEW c \in Ring(n), NEW a \in 0..n, NEW b \in 0..n, a # b
    PROVE  Entries(NextPtr(a, c), b, c) = Entries(a, b, c) - 1
BY DEF Entries, NextPtr, Ring
-------------------------------------------------------------------------------
(* Operations on one FIFO *)

InOrder(r, k, w, c) ==
    /\ r \in 0..c.size_m_one
    /\ k \in 0..c.size_m_one
    /\ w \in 0..c.size_m_one
    /\ Entries(k, r, c) + Entries(r, w, c) = Entries(k, w, c)

FlagsOf(s, c) ==
    /\ s.empty <=> s.read = s.write
    /\ s.full => Entries(s.commit, s.write, c) = c.size_m_one
    /\ Entries(s.commit, s.write, c) = c.size_m_one /\ c.size_m_one > 0 => s.full

WatermarkOf(s, c) == s.watermark <=> Entries(s.commit, s.write, c) > c.watermark

Sound(s, c) == s \in FifoState /\ InOrder(s.read, s.commit, s.write, c) /\ FlagsOf(s, c)

\* A configured size is an address of the SRAM part the FIFO owns.
LEMMA CfgIsRing ==
    ASSUME NEW c \in FifoCfg
    PROVE  c.size_m_one \in Nat /\ c \in Ring(c.size_m_one) /\ 0..c.size_m_one \subseteq Ptr
BY FifoAssumption DEF FifoCfg, Ring, Ptr

\* Whatever pointers an operation chooses, it leaves the flags in agreement
\* with them.
LEMMA MovedSound ==
    ASSUME NEW c \in FifoCfg, NEW s \in FifoState, NEW r, NEW k, NEW w,
           InOrder(r, k, w, c)
    PROVE  /\ Sound(Moved(s, c, r, k, w), c)
           /\ WatermarkOf(Moved(s, c, r, k, w), c)
<1> DEFINE m == Moved(s, c, r, k, w)
<1>1. /\ r \in Ptr /\ k \in Ptr /\ w \in Ptr
  BY CfgIsRing DEF InOrder
<1>2. m \in FifoState
  BY <1>1 DEF Moved, FifoState
<1>3. m.read = r /\ m.commit = k /\ m.write = w
  BY DEF Moved
<1>4. /\ m.empty <=> w = r
      /\ m.full <=> Entries(k, w, c) = c.size_m_one
      /\ m.watermark <=> Entries(k, w, c) > c.watermark
  BY DEF Moved
<1> QED
  BY <1>2, <1>3, <1>4 DEF Sound, FlagsOf, WatermarkOf, InOrder

\* Recording an overflow or an underflow changes nothing else.
LEMMA FlaggedSound ==
    ASSUME NEW c \in FifoCfg, NEW s, Sound(s, c)
    PROVE  /\ Sound([s EXCEPT !.overflowed = TRUE], c)
           /\ Sound([s EXCEPT !.underflowed = TRUE], c)
           /\ WatermarkOf(s, c) => /\ WatermarkOf([s EXCEPT !.overflowed = TRUE], c)
                                   /\ WatermarkOf([s EXCEPT !.underflowed = TRUE], c)
BY DEF Sound, FlagsOf, InOrder, WatermarkOf, FifoState

LEMMA IncWriteSound ==
    ASSUME NEW c \in FifoCfg, NEW s, Sound(s, c)
    PROVE  Sound(IncWrite(s, c), c) /\ WatermarkOf(IncWrite(s, c), c)
<1> DEFINE n == c.size_m_one
<1>1. n \in Nat /\ c \in Ring(n)
  BY CfgIsRing
<1>2. s \in FifoState /\ InOrder(s.read, s.commit, s.write, c)
  BY DEF Sound
<1>3. CASE s.full
  BY <1>2, <1>3, MovedSound, FlaggedSound DEF IncWrite
<1>4. CASE ~s.full
  <2>1. NextPtr(s.write, c) \in 0..n
    BY <1>1, <1>2, NextPtrInRing DEF InOrder
  <2>2. InOrder(s.read, s.commit, NextPtr(s.write, c), c)
    <3>1. CASE n = 0
      BY <1>1, <1>2, <2>1, <3>1 DEF InOrder, Entries, Ring
    <3>2. CASE n # 0
      <4>1. Entries(s.commit, s.write, c) # n
        BY <1>1, <1>4, <3>2 DEF Sound, FlagsOf
      <4>2. Entries(s.read, s.write, c) # n
        BY <1>1, <1>2, <4>1, EntriesBounded DEF InOrder
      <4> QED
        BY <1>1, <1>2, <2>1, <4>1, <4>2, EntriesGrow, EntriesBounded DEF InOrder
    <3> QED BY <3>1, <3>2
  <2> QED
    BY <1>2, <1>4, <2>2, MovedSound DEF IncWrite
<1> QED BY <1>3, <1>4, <1>2 DEF FifoState

LEMMA IncReadSound ==
    ASSUME NEW c \in FifoCfg, NEW s, Sound(s, c), NEW commit \in BOOLEAN
    PROVE  Sound(IncRead(s, c, commit), c) /\ WatermarkOf(IncRead(s, c, commit), c)
<1> DEFINE n == c.size_m_one
           next == NextPtr(s.read, c)
<1>1. n \in Nat /\ c \in Ring(n)
  BY CfgIsRing
<1>2. s \in FifoState /\ InOrder(s.read, s.commit, s.write, c)
  BY DEF Sound
<1>3. CASE s.empty
  BY <1>2, <1>3, MovedSound, FlaggedSound DEF IncRead
<1>4. CASE ~s.empty
  <2>1. next \in 0..n
    BY <1>1, <1>2, NextPtrInRing DEF InOrder
  <2>2. s.read # s.write
    BY <1>4 DEF Sound, FlagsOf
  <2>3. Entries(next, s.write, c) = Entries(s.read, s.write, c) - 1
    BY <1>1, <1>2, <2>2, EntriesShrink DEF InOrder
  <2>4. Entries(s.commit, next, c) = Entries(s.commit, s.read, c) + 1
    <3>1. Entries(s.commit, s.read, c) # n
      BY <1>1, <1>2, <2>2, EntriesBounded DEF InOrder
    <3> QED
      BY <1>1, <1>2, <3>1, EntriesGrow DEF InOrder
  <2>5. InOrder(next, s.commit, s.write, c)
    BY <1>1, <1>2, <2>1, <2>3, <2>4, EntriesBounded DEF InOrder
  <2>6. InOrder(next, next, s.write, c)
    BY <1>1, <1>2, <2>1, EntriesBounded DEF InOrder
  <2> QED
    BY <1>2, <1>4, <2>5, <2>6, MovedSound DEF IncRead
<1> QED BY <1>3, <1>4, <1>2 DEF FifoState

LEMMA CommitRevertSound ==
    ASSUME NEW c \in FifoCfg, NEW s, Sound(s, c)
    PROVE  /\ Sound(CommitRead(s, c), c) /\ WatermarkOf(CommitRead(s, c), c)
           /\ Sound(RevertRead(s, c), c) /\ WatermarkOf(RevertRead(s, c), c)
<1>1. c.size_m_one \in Nat /\ c \in Ring(c.size_m_one)
  BY CfgIsRing
<1>2. s \in FifoState /\ InOrder(s.read, s.commit, s.write, c)
  BY DEF Sound
<1>3. InOrder(s.read, s.read, s.write, c)
  BY <1>1, <1>2 DEF InOrder, Entries
<1>4. InOrder(s.commit, s.commit, s.write, c)
  BY <1>1, <1>2 DEF InOrder, Entries
<1> QED
  BY <1>2, <1>3, <1>4, MovedSound DEF CommitRead, RevertRead

\* An empty FIFO is sound under every configuration.
LEMMA ZeroedSound ==
    ASSUME NEW c \in FifoCfg
    PROVE  Sound(Zeroed, c) /\ WatermarkOf(Zeroed, c)
BY FifoAssumption
   DEF Sound, InOrder, FlagsOf, WatermarkOf, Zeroed, FifoState, FifoCfg, Entries, Ptr
-------------------------------------------------------------------------------
(* The inductive invariant *)

\* Why the flags can be trusted: every FIFO is sound under its configuration,
\* a command FIFO commits what it reads, and only a transmit FIFO has a
\* watermark flag.
FifosSound ==
    /\ \A f \in Fifos : Sound(fifo[f], cfg[f])
    /\ \A f \in CmdFifos : fifo[f].commit = fifo[f].read
    /\ \A f \in TxFifos : WatermarkOf(fifo[f], cfg[f])

IInv == TypeOK /\ FifosSound

\* What an operation on f must hand to SetFlags.
Storable(f, s) ==
    /\ Sound(s, cfg[f]) /\ WatermarkOf(s, cfg[f])
    /\ f \in CmdFifos => s.commit = s.read

LEMMA StoredSound ==
    ASSUME NEW f \in Fifos, NEW s, Storable(f, s)
    PROVE  /\ Sound(Stored(f, s), cfg[f])
           /\ f \in CmdFifos => Stored(f, s).commit = Stored(f, s).read
           /\ f \in TxFifos => WatermarkOf(Stored(f, s), cfg[f])
<1>1. CASE f \in CmdFifos
  BY <1>1, FifoAssumption
     DEF Storable, Stored, Sound, FlagsOf, InOrder, FifoState, Fifos
<1>2. CASE f \notin CmdFifos
  BY <1>2 DEF Storable, Stored
<1> QED BY <1>1, <1>2

\* An operation that only sets flags keeps the invariant, given what it stores.
LEMMA SetFlagsKeepsFifosSound ==
    ASSUME IInv, NEW f \in Fifos, NEW s, NEW type, Storable(f, s),
           SetFlags(f, s, type), UNCHANGED cfg
    PROVE  FifosSound' /\ fifo' \in [Fifos -> FifoState] /\ event'.fifo \in Fifos
<1>1. fifo' = [fifo EXCEPT ![f] = Stored(f, s)] /\ cfg' = cfg
  BY DEF SetFlags
<1>2. fifo \in [Fifos -> FifoState]
  BY DEF IInv, TypeOK
<1>3. \A g \in Fifos : fifo'[g] = IF g = f THEN Stored(f, s) ELSE fifo[g]
  BY <1>1, <1>2
<1>4. Stored(f, s) \in FifoState
  BY StoredSound DEF Sound
<1>5. \A g \in Fifos : Sound(fifo'[g], cfg'[g])
  BY <1>1, <1>3, StoredSound DEF IInv, FifosSound
<1>6. \A g \in CmdFifos : fifo'[g].commit = fifo'[g].read
  BY <1>3, StoredSound DEF IInv, FifosSound, Fifos
<1>7. \A g \in TxFifos : WatermarkOf(fifo'[g], cfg'[g])
  BY <1>1, <1>3, StoredSound DEF IInv, FifosSound, Fifos
<1>8. event'.fifo \in Fifos
  BY DEF SetFlags, IInv, TypeOK
<1> QED
  BY <1>1, <1>2, <1>4, <1>5, <1>6, <1>7, <1>8 DEF FifosSound

\* Withdrawing an event keeps its type.
LEMMA SilentIsEvent ==
    ASSUME NEW e \in FifoEvent
    PROVE  Silent(e) \in FifoEvent
BY DEF Silent, FifoEvent

\* The event registers keep their type.
LEMMA SetFlagsKeepsEvent ==
    ASSUME TypeOK, NEW f \in Fifos, NEW s \in FifoState, NEW type, SetFlags(f, s, type)
    PROVE  event' \in [fifo : Fifos, empty : FifoEvent, watermark : FifoEvent]
<1>1. CASE type = "none"
  BY <1>1, SilentIsEvent DEF SetFlags, TypeOK
<1>2. CASE type # "none"
  <2>1. /\ (type = "level" \/ s.empty # fifo[f].empty) \in BOOLEAN
        /\ (type = "level" \/ s.watermark # fifo[f].watermark) \in BOOLEAN
        /\ s.empty \in BOOLEAN /\ s.watermark \in BOOLEAN
    BY DEF FifoState
  <2> QED
    BY <1>2, <2>1, Zenon DEF SetFlags, FifoEvent
<1> QED BY <1>1, <1>2

\* Each pointer operation hands SetFlags something storable.
LEMMA OperationsStorable ==
    ASSUME IInv, NEW f \in Fifos
    PROVE  /\ Storable(f, IncWrite(fifo[f], cfg[f]))
           /\ Storable(f, IncRead(fifo[f], cfg[f], TRUE))
           /\ f \in TxFifos => /\ Storable(f, IncRead(fifo[f], cfg[f], FALSE))
                               /\ Storable(f, CommitRead(fifo[f], cfg[f]))
                               /\ Storable(f, RevertRead(fifo[f], cfg[f]))
<1> DEFINE s == fifo[f]
           c == cfg[f]
<1>1. c \in FifoCfg /\ s \in FifoState /\ Sound(s, c)
  BY DEF IInv, TypeOK, FifosSound
<1>2. f \in CmdFifos => s.commit = s.read
  BY DEF IInv, FifosSound
<1>3. f \in CmdFifos => IncWrite(s, c).commit = IncWrite(s, c).read
  BY <1>2 DEF IncWrite, Moved
<1>4. IncRead(s, c, TRUE).commit = IncRead(s, c, TRUE).read \/ f \notin CmdFifos
  BY <1>2 DEF IncRead, Moved
<1>5. f \in TxFifos => f \notin CmdFifos
  BY FifoAssumption
<1>6. Storable(f, IncWrite(s, c))
  BY <1>1, <1>3, IncWriteSound DEF Storable
<1>7. Storable(f, IncRead(s, c, TRUE))
  BY <1>1, <1>4, IncReadSound DEF Storable
<1>8. f \in TxFifos => Storable(f, IncRead(s, c, FALSE))
  BY <1>1, <1>5, IncReadSound DEF Storable
<1>9. f \in TxFifos => Storable(f, CommitRead(s, c)) /\ Storable(f, RevertRead(s, c))
  BY <1>1, <1>5, CommitRevertSound DEF Storable
<1> QED BY <1>6, <1>7, <1>8, <1>9
-------------------------------------------------------------------------------
(* Invariance *)

LEMMA InitIInv == Init => IInv
<1> SUFFICES ASSUME Init PROVE IInv
  OBVIOUS
<1>1. TypeOK
  <2>1. 0 \in Ptr
    BY FifoAssumption DEF Ptr
  <2>2. fifo \in [Fifos -> FifoState]
    BY <2>1 DEF Init, Zeroed, FifoState
  <2>3. cfg \in [Fifos -> FifoCfg]
    BY <2>1 DEF Init, FifoCfg
  <2>4. mem \in [Fifos -> [Ptr -> Words]] /\ sram_read_data \in Words
    BY DEF Init
  <2>5. fifo_op \in [op : FifoOps, fifo : Fifos]
    BY DEF Init, FifoOps
  <2>6. event \in [fifo : Fifos, empty : FifoEvent, watermark : FifoEvent]
    <3>1. Quiet \in FifoEvent
      BY DEF Quiet, FifoEvent
    <3> QED BY <3>1 DEF Init
  <2> QED BY <2>2, <2>3, <2>4, <2>5, <2>6 DEF TypeOK
<1>2. \A f \in Fifos : fifo[f] = Zeroed /\ cfg[f] \in FifoCfg
  BY <1>1 DEF Init, TypeOK
<1>3. FifosSound
  BY <1>2, ZeroedSound DEF FifosSound, Fifos, Zeroed
<1> QED BY <1>1, <1>3 DEF IInv

\* The steps that set flags differ only in what they store.
LEMMA FlagStepKeepsIInv ==
    ASSUME IInv, NEW f \in Fifos, NEW s, NEW type, NEW op \in FifoOps,
           Storable(f, s), SetFlags(f, s, type), Performs(op, f),
           mem' \in [Fifos -> [Ptr -> Words]], sram_read_data' \in Words,
           UNCHANGED cfg
    PROVE  IInv'
<1>1. FifosSound' /\ fifo' \in [Fifos -> FifoState]
  BY SetFlagsKeepsFifosSound
<1>2. event' \in [fifo : Fifos, empty : FifoEvent, watermark : FifoEvent]
  BY SetFlagsKeepsEvent DEF IInv, Storable, Sound
<1>3. cfg' \in [Fifos -> FifoCfg]
  BY DEF IInv, TypeOK
<1>4. fifo_op' \in [op : FifoOps, fifo : Fifos]
  BY DEF Performs
<1> QED
  BY <1>1, <1>2, <1>3, <1>4 DEF IInv, TypeOK

\* Writing a configuration and resetting both leave an empty FIFO.
LEMMA ClearStepKeepsIInv ==
    ASSUME IInv, NEW f \in Fifos, WriteCfg(f) \/ Reset(f)
    PROVE  IInv'
<1>1. fifo' = [fifo EXCEPT ![f] = Zeroed] /\ UNCHANGED <<mem, sram_read_data>>
  BY DEF WriteCfg, Reset
<1>2. cfg' \in [Fifos -> FifoCfg] /\ \A g \in Fifos : g # f => cfg'[g] = cfg[g]
  <2>1. CASE Reset(f)
    BY <2>1 DEF Reset, IInv, TypeOK
  <2>2. CASE WriteCfg(f)
    <3>1. PICK size \in Ptr, mark \in Ptr :
             cfg' = [cfg EXCEPT ![f] =
                       [size_m_one |-> size,
                        watermark |-> IF f \in CmdFifos THEN 0 ELSE mark]]
      BY <2>2 DEF WriteCfg
    <3> DEFINE c == [size_m_one |-> size,
                     watermark |-> IF f \in CmdFifos THEN 0 ELSE mark]
    <3>2. c \in FifoCfg
      BY FifoAssumption DEF FifoCfg, Ptr
    <3> HIDE DEF c
    <3> QED BY <3>1, <3>2 DEF IInv, TypeOK, c
  <2> QED BY <2>1, <2>2
<1>3. Zeroed \in FifoState
  BY FifoAssumption DEF Zeroed, FifoState, Ptr
<1>4. fifo' \in [Fifos -> FifoState]
      /\ \A g \in Fifos : fifo'[g] = IF g = f THEN Zeroed ELSE fifo[g]
  BY <1>1, <1>3 DEF IInv, TypeOK
<1>5. fifo_op' \in [op : FifoOps, fifo : Fifos]
  BY DEF WriteCfg, Reset, Performs, FifoOps
<1>6. event' \in [fifo : Fifos, empty : FifoEvent, watermark : FifoEvent]
  BY SilentIsEvent DEF WriteCfg, Reset, NoEvent, IInv, TypeOK
<1>7. \A g \in Fifos : Sound(fifo'[g], cfg'[g])
  BY <1>2, <1>4, ZeroedSound DEF IInv, FifosSound
<1>8. \A g \in CmdFifos : fifo'[g].commit = fifo'[g].read
  BY <1>4 DEF IInv, FifosSound, Fifos, Zeroed
<1>9. \A g \in TxFifos : WatermarkOf(fifo'[g], cfg'[g])
  BY <1>2, <1>4, ZeroedSound DEF IInv, FifosSound, Fifos
<1> QED
  BY <1>1, <1>2, <1>4, <1>5, <1>6, <1>7, <1>8, <1>9 DEF IInv, TypeOK, FifosSound

LEMMA NextIInv == IInv /\ [Next]_vars => IInv'
<1> SUFFICES ASSUME IInv, [Next]_vars PROVE IInv'
  OBVIOUS
<1> USE DEF Fifos
<1>1. ASSUME NEW f \in Fifos PROVE fifo[f].read \in Ptr /\ fifo[f].write \in Ptr
  BY DEF IInv, TypeOK, FifoState
<1>2. CASE \E f \in Fifos : WriteCfg(f)
  BY <1>2, ClearStepKeepsIInv
<1>3. CASE \E f \in Fifos : Reset(f)
  BY <1>3, ClearStepKeepsIInv
<1>4. ASSUME NEW f \in Fifos, NEW w \in Words, NEW type, IncWritePtr(f, w, type)
      PROVE  IInv'
  <2>1. mem' \in [Fifos -> [Ptr -> Words]]
    BY <1>1, <1>4 DEF IncWritePtr, IInv, TypeOK
  <2>2. sram_read_data' \in Words
    BY <1>4 DEF IncWritePtr, IInv, TypeOK
  <2> QED
    BY <1>4, <2>1, <2>2, OperationsStorable, FlagStepKeepsIInv DEF IncWritePtr, FifoOps
<1>5. ASSUME NEW f \in Fifos, ReadSram(f), UNCHANGED mem
      PROVE  mem' \in [Fifos -> [Ptr -> Words]] /\ sram_read_data' \in Words
  BY <1>1, <1>5 DEF ReadSram, IInv, TypeOK
<1>6. ASSUME NEW f \in Fifos, NEW type, IncReadPtr(f, type)
      PROVE  IInv'
  BY <1>5, <1>6, OperationsStorable, FlagStepKeepsIInv DEF IncReadPtr, FifoOps
<1>7. ASSUME NEW f \in TxFifos, NEW type, IncReadPtrWithoutCommit(f, type)
      PROVE  IInv'
  BY <1>5, <1>7, OperationsStorable, FlagStepKeepsIInv DEF IncReadPtrWithoutCommit, FifoOps
<1>8. ASSUME NEW f \in TxFifos, NEW type, CommitReadPtr(f, type)
      PROVE  IInv'
  BY <1>5, <1>8, OperationsStorable, FlagStepKeepsIInv DEF CommitReadPtr, FifoOps
<1>9. ASSUME NEW f \in TxFifos, NEW type, RevertReadPtr(f, type)
      PROVE  IInv'
  BY <1>5, <1>9, OperationsStorable, FlagStepKeepsIInv DEF RevertReadPtr, FifoOps
<1>10. CASE UNCHANGED vars
  BY <1>10 DEF vars, IInv, TypeOK, FifosSound
<1> QED
  BY <1>2, <1>3, <1>4, <1>6, <1>7, <1>8, <1>9, <1>10 DEF Next, Operate

LEMMA SpecIInv == Spec => []IInv
BY InitIInv, NextIInv, PTL DEF Spec
-------------------------------------------------------------------------------
(* Results *)

\* The registers stay in range for every number of FIFOs and every ring size:
\* no order of operations drives a pointer of io_egress_fifos out of its ring.
THEOREM TypeCorrect == Spec => []TypeOK
BY SpecIInv, PTL DEF IInv

\* The read pointer of each FIFO always lies between its commit pointer and its
\* write pointer, through every mix of reads ahead, commits, reverts, overflows,
\* underflows and reconfigurations.
THEOREM PointersStayInOrder == Spec => []PointersInOrder
<1>1. IInv => PointersInOrder
  <2> SUFFICES ASSUME IInv, NEW f \in Fifos
               PROVE  /\ fifo[f].read <= cfg[f].size_m_one
                      /\ fifo[f].commit <= cfg[f].size_m_one
                      /\ fifo[f].write <= cfg[f].size_m_one
                      /\ ReadAhead(f) + Unread(f) = Uncommitted(f)
    BY DEF PointersInOrder
  <2>1. InOrder(fifo[f].read, fifo[f].commit, fifo[f].write, cfg[f])
    BY DEF IInv, FifosSound, Sound
  <2> QED BY <2>1 DEF InOrder, ReadAhead, Unread, Uncommitted
<1> QED BY SpecIInv, <1>1, PTL

\* The flags the rest of the I/O block acts on a clock later always describe
\* the pointers they were registered with.
THEOREM FlagsAlwaysAgree == Spec => []FlagsAgree
<1>1. IInv => FlagsAgree
  BY DEF IInv, FifosSound, Sound, FlagsOf, WatermarkOf, FlagsAgree, Uncommitted, Fifos
<1> QED BY SpecIInv, <1>1, PTL

\* The entry a write goes to is never one of the uncommitted ones.
LEMMA WindowExcludesWrite ==
    ASSUME IInv, NEW f \in Fifos, NEW i \in 0..(Uncommitted(f) - 1)
    PROVE  At(f, i) # fifo[f].write
<1> DEFINE n == cfg[f].size_m_one
<1>1. n \in Nat
  BY CfgIsRing DEF IInv, TypeOK
<1>2. fifo[f].commit \in 0..n /\ fifo[f].write \in 0..n
  BY DEF IInv, FifosSound, Sound, InOrder
<1> QED BY <1>1, <1>2 DEF At, Uncommitted, Entries

\* No write, not even one into a full FIFO, changes a word the reader may still
\* read or replay.
THEOREM UncommittedWordsSurvive == Spec => UncommittedNeverOverwritten
<1> DEFINE Kept == \A f \in Fifos : \A i \in 0..(Uncommitted(f) - 1) :
                     mem'[f][At(f, i)] = mem[f][At(f, i)]
<1>1. IInv /\ [Next]_vars => Kept
  <2> SUFFICES ASSUME IInv, [Next]_vars PROVE Kept
    OBVIOUS
  <2>1. CASE UNCHANGED mem
    BY <2>1
  <2>2. ASSUME NEW g \in Fifos, NEW w \in Words, NEW type, IncWritePtr(g, w, type)
        PROVE  Kept
    <3>1. mem' = [mem EXCEPT ![g][fifo[g].write] = w]
      BY <2>2 DEF IncWritePtr
    <3>2. mem \in [Fifos -> [Ptr -> Words]]
      BY DEF IInv, TypeOK
    <3>3. ASSUME NEW f \in Fifos, NEW i \in 0..(Uncommitted(f) - 1)
          PROVE  mem'[f][At(f, i)] = mem[f][At(f, i)]
      <4>1. At(f, i) # fifo[f].write
        BY WindowExcludesWrite
      <4> HIDE DEF Kept
      <4> QED BY <3>1, <3>2, <4>1
    <3> QED BY <3>3
  <2> QED
    BY <2>1, <2>2
       DEF Next, Operate, WriteCfg, Reset, IncReadPtr, IncReadPtrWithoutCommit, CommitReadPtr,
           RevertReadPtr, vars, Fifos
<1> QED BY SpecIInv, <1>1, PTL DEF Spec, UncommittedNeverOverwritten
\* The distances of a configured FIFO.
LEMMA DistanceBounded ==
    ASSUME NEW c \in FifoCfg, NEW a \in 0..c.size_m_one, NEW b \in 0..c.size_m_one
    PROVE  /\ Entries(a, b, c) \in 0..c.size_m_one
           /\ Entries(a, b, c) = 0 <=> a = b
BY CfgIsRing, EntriesBounded
-------------------------------------------------------------------------------
(* Words around a ring *)

\* The entry i places after k, and the words from k up to w, oldest first.
RingAt(k, i, c) ==
    LET p == k + i IN IF p > c.size_m_one THEN p - (c.size_m_one + 1) ELSE p

Win(m, k, w, c) == [i \in 1..Entries(k, w, c) |-> m[RingAt(k, i - 1, c)]]

\* Going i places round the ring stays in it, and is a distance of i.
LEMMA RingAtInRing ==
    ASSUME NEW n \in Nat, NEW c \in Ring(n), NEW k \in 0..n, NEW i \in 0..n
    PROVE  RingAt(k, i, c) \in 0..n /\ Entries(k, RingAt(k, i, c), c) = i
BY DEF RingAt, Entries, Ring

\* The pointer w is found by going the distance from k to w.
LEMMA RingAtDistance ==
    ASSUME NEW n \in Nat, NEW c \in Ring(n), NEW k \in 0..n, NEW w \in 0..n
    PROVE  RingAt(k, Entries(k, w, c), c) = w
BY DEF RingAt, Entries, Ring

\* Two walks make one.
LEMMA RingAtAdds ==
    ASSUME NEW n \in Nat, NEW c \in Ring(n), NEW k \in 0..n, NEW r \in 0..n,
           NEW i \in 0..n, Entries(k, r, c) + i <= n
    PROVE  RingAt(r, i, c) = RingAt(k, Entries(k, r, c) + i, c)
BY DEF RingAt, Entries, Ring

\* The words of a window are words, as many as the pointers are apart.
LEMMA WinIsSeq ==
    ASSUME NEW n \in Nat, NEW c \in Ring(n), NEW k \in 0..n, NEW w \in 0..n,
           0..n \subseteq Ptr, NEW m \in [Ptr -> Words]
    PROVE  Win(m, k, w, c) \in Seq(Words) /\ Len(Win(m, k, w, c)) = Entries(k, w, c)
<1> DEFINE d == Entries(k, w, c)
<1>1. d \in 0..n
  BY EntriesBounded
<1>2. \A i \in 1..d : m[RingAt(k, i - 1, c)] \in Words
  BY <1>1, RingAtInRing
<1>3. Win(m, k, w, c) \in [1..d -> Words]
  BY <1>2 DEF Win
<1>4. d \in Nat
  BY <1>1
<1> HIDE DEF d
<1> QED BY <1>3, <1>4 DEF d

\* A word written at w, outside the window, leaves the window alone.
LEMMA WinUntouched ==
    ASSUME NEW n \in Nat, NEW c \in Ring(n), NEW k \in 0..n, NEW w \in 0..n,
           0..n \subseteq Ptr, NEW m \in [Ptr -> Words], NEW x \in Words
    PROVE  Win([m EXCEPT ![w] = x], k, w, c) = Win(m, k, w, c)
<1> DEFINE d == Entries(k, w, c)
<1>1. d \in 0..n
  BY EntriesBounded
<1>2. \A i \in 1..d : RingAt(k, i - 1, c) \in 0..n /\ RingAt(k, i - 1, c) # w
  <2> SUFFICES ASSUME NEW i \in 1..d
               PROVE  RingAt(k, i - 1, c) \in 0..n /\ RingAt(k, i - 1, c) # w
    OBVIOUS
  <2>1. i - 1 \in 0..n /\ i - 1 # d
    BY <1>1
  <2> QED BY <2>1, RingAtInRing
<1>3. \A i \in 1..d : [m EXCEPT ![w] = x][RingAt(k, i - 1, c)] = m[RingAt(k, i - 1, c)]
  BY <1>2
<1> QED BY <1>3 DEF Win

\* Moving the write pointer past a word just written appends it.
LEMMA WinAppend ==
    ASSUME NEW n \in Nat, NEW c \in Ring(n), NEW k \in 0..n, NEW w \in 0..n,
           0..n \subseteq Ptr, NEW m \in [Ptr -> Words], NEW x \in Words,
           Entries(k, w, c) # n
    PROVE  Win([m EXCEPT ![w] = x], k, NextPtr(w, c), c) = Append(Win(m, k, w, c), x)
<1> DEFINE d == Entries(k, w, c)
           m2 == [m EXCEPT ![w] = x]
           old == Win(m, k, w, c)
           new == Win(m2, k, NextPtr(w, c), c)
<1>1. d \in 0..n /\ NextPtr(w, c) \in 0..n /\ Entries(k, NextPtr(w, c), c) = d + 1
  BY EntriesBounded, NextPtrInRing, EntriesGrow
<1>2. m2 \in [Ptr -> Words]
  OBVIOUS
<1>3. old \in Seq(Words) /\ Len(old) = d
  BY WinIsSeq
<1>4. new \in Seq(Words) /\ Len(new) = d + 1
  BY <1>1, <1>2, WinIsSeq
<1>5. ASSUME NEW i \in 1..d PROVE new[i] = old[i]
  <2>1. new[i] = m2[RingAt(k, i - 1, c)] /\ old[i] = m[RingAt(k, i - 1, c)]
    BY <1>1 DEF Win
  <2>2. i - 1 \in 0..n /\ i - 1 # d
    BY <1>1
  <2>3. RingAt(k, i - 1, c) \in Ptr /\ RingAt(k, i - 1, c) # w
    BY <2>2, RingAtInRing
  <2> QED BY <2>1, <2>3
<1>6. new[d + 1] = x
  <2>1. new[d + 1] = m2[RingAt(k, d, c)]
    BY <1>1 DEF Win
  <2>2. RingAt(k, d, c) = w /\ w \in Ptr
    BY RingAtDistance
  <2> QED BY <2>1, <2>2
<1>7. d \in Nat
  BY <1>1
<1> HIDE DEF d, m2, old, new
<1>8. /\ Append(old, x) \in Seq(Words) /\ Len(Append(old, x)) = d + 1
      /\ \A i \in 1..d : Append(old, x)[i] = old[i]
      /\ Append(old, x)[d + 1] = x
  BY <1>3, <1>7, AppendProperties
<1>9. \A i \in 1..(d + 1) : new[i] = Append(old, x)[i]
  BY <1>5, <1>6, <1>7, <1>8
<1>10. new = Append(old, x)
  BY <1>4, <1>8, <1>9, SeqEqual
<1> QED BY <1>10 DEF m2, old, new

\* Moving the near pointer forward to r drops the words before r.
LEMMA WinDrop ==
    ASSUME NEW c \in FifoCfg, NEW m \in [Ptr -> Words], NEW r, NEW k, NEW w,
           InOrder(r, k, w, c)
    PROVE  Win(m, r, w, c)
             = SubSeq(Win(m, k, w, c), Entries(k, r, c) + 1, Entries(k, w, c))
<1> DEFINE n == c.size_m_one
           t == Entries(k, r, c)
           d == Entries(k, w, c)
           e == Entries(r, w, c)
           old == Win(m, k, w, c)
           new == Win(m, r, w, c)
           sub == SubSeq(old, t + 1, d)
<1>1. n \in Nat /\ c \in Ring(n) /\ 0..n \subseteq Ptr
  BY CfgIsRing
<1>2. r \in 0..n /\ k \in 0..n /\ w \in 0..n /\ t + e = d
  BY DEF InOrder
<1>3. t \in 0..n /\ d \in 0..n /\ e \in 0..n
  BY <1>1, <1>2, EntriesBounded
<1>4. old \in Seq(Words) /\ Len(old) = d
  BY <1>1, <1>2, WinIsSeq
<1>5. new \in Seq(Words) /\ Len(new) = e
  BY <1>1, <1>2, WinIsSeq
<1>6. ASSUME NEW i \in 1..e PROVE new[i] = old[t + i]
  <2>1. i - 1 \in 0..n /\ t + (i - 1) <= n /\ t + i \in 1..d /\ (t + i) - 1 = t + (i - 1)
    <3> HIDE DEF n, t, d, e
    <3> QED BY <1>1, <1>2, <1>3
  <2>2. RingAt(r, i - 1, c) = RingAt(k, t + (i - 1), c)
    BY <1>1, <1>2, <2>1, RingAtAdds
  <2>3. new[i] = m[RingAt(r, i - 1, c)] /\ old[t + i] = m[RingAt(k, (t + i) - 1, c)]
    BY <2>1 DEF Win
  <2> QED BY <2>1, <2>2, <2>3
<1> HIDE DEF n, t, d, e, old, new
<1>7. \A i \in (t + 1)..d : old[i] \in Words
  BY <1>3, <1>4
<1>8. /\ sub \in Seq(Words) /\ Len(sub) = e
      /\ \A i \in 1..e : sub[i] = old[t + i]
  <2>1. t + 1 \in Int /\ d \in Int
    BY <1>3
  <2>2. /\ sub \in Seq(Words)
        /\ Len(sub) = IF t + 1 <= d THEN d - (t + 1) + 1 ELSE 0
        /\ \A i \in 1..(d - (t + 1) + 1) : sub[i] = old[(t + 1) + i - 1]
    BY <1>7, <2>1, SubSeqProperties
  <2>3. d - (t + 1) + 1 = e /\ (~(t + 1 <= d) => e = 0)
    BY <1>2, <1>3
  <2>4. \A i \in 1..e : (t + 1) + i - 1 = t + i
    BY <1>3
  <2> HIDE DEF sub
  <2>5. Len(sub) = e
    BY <1>3, <2>2, <2>3
  <2>6. \A i \in 1..e : sub[i] = old[t + i]
    BY <2>2, <2>3, <2>4
  <2> QED BY <2>2, <2>5, <2>6
<1> HIDE DEF sub
<1>9. new = sub
  BY <1>5, <1>6, <1>8, SeqEqual
<1> QED BY <1>9 DEF sub, new, old, t, d

\* The next word to read is the one the read pointer addresses.
LEMMA WinRead ==
    ASSUME NEW c \in FifoCfg, NEW m, NEW r, NEW k, NEW w, InOrder(r, k, w, c), r # w
    PROVE  /\ Entries(k, r, c) < Entries(k, w, c)
           /\ Win(m, k, w, c)[Entries(k, r, c) + 1] = m[r]
<1> DEFINE n == c.size_m_one
           t == Entries(k, r, c)
<1>1. n \in Nat /\ c \in Ring(n)
  BY CfgIsRing
<1>2. r \in 0..n /\ k \in 0..n /\ w \in 0..n /\ t + Entries(r, w, c) = Entries(k, w, c)
  BY DEF InOrder
<1>3. t \in 0..n /\ Entries(r, w, c) \in 1..n
  BY <1>1, <1>2, EntriesBounded
<1>4. t + 1 \in 1..Entries(k, w, c) /\ (t + 1) - 1 = t
  BY <1>2, <1>3
<1>5. Win(m, k, w, c)[t + 1] = m[RingAt(k, (t + 1) - 1, c)]
  BY <1>4 DEF Win
<1>6. RingAt(k, t, c) = r
  BY <1>1, <1>2, RingAtDistance
<1> QED BY <1>1, <1>2, <1>3, <1>4, <1>5, <1>6
-------------------------------------------------------------------------------
(* Every FIFO implements CommitFifo *)

LEMMA WindowIsWin ==
    ASSUME NEW f \in Fifos
    PROVE  /\ Window(f) = Win(mem[f], fifo[f].commit, fifo[f].write, cfg[f])
           /\ Window(f)' = Win(mem'[f], fifo'[f].commit, fifo'[f].write, cfg'[f])
BY DEF Window, Uncommitted, At, Win, RingAt

\* What is known of a FIFO and its configuration, for the steps below.
LEMMA FifoFacts ==
    ASSUME IInv, NEW f \in Fifos
    PROVE  /\ fifo[f] \in FifoState /\ cfg[f] \in FifoCfg /\ mem[f] \in [Ptr -> Words]
           /\ Sound(fifo[f], cfg[f])
           /\ InOrder(fifo[f].read, fifo[f].commit, fifo[f].write, cfg[f])
           /\ cfg[f].size_m_one \in Nat /\ cfg[f] \in Ring(cfg[f].size_m_one)
           /\ 0..cfg[f].size_m_one \subseteq Ptr
           /\ Len(Window(f)) = Uncommitted(f)
<1>1. fifo[f] \in FifoState /\ cfg[f] \in FifoCfg /\ mem[f] \in [Ptr -> Words]
  BY DEF IInv, TypeOK
<1>2. Sound(fifo[f], cfg[f]) /\ InOrder(fifo[f].read, fifo[f].commit, fifo[f].write, cfg[f])
  BY DEF IInv, FifosSound, Sound
<1>3. /\ cfg[f].size_m_one \in Nat /\ cfg[f] \in Ring(cfg[f].size_m_one)
      /\ 0..cfg[f].size_m_one \subseteq Ptr
  BY <1>1, CfgIsRing
<1>4. Len(Win(mem[f], fifo[f].commit, fifo[f].write, cfg[f])) = Uncommitted(f)
  BY <1>1, <1>2, <1>3, WinIsSeq DEF InOrder, Uncommitted
<1> QED BY <1>1, <1>2, <1>3, <1>4, WindowIsWin

\* What SetFlags makes of the FIFO it is given: a command FIFO loses nothing,
\* for what it is given commits what it reads.
LEMMA SetFlagsStores ==
    ASSUME IInv, NEW f \in Fifos, NEW s, NEW type, Storable(f, s),
           SetFlags(f, s, type), UNCHANGED cfg
    PROVE  /\ fifo'[f].read = s.read /\ fifo'[f].commit = s.commit
           /\ fifo'[f].write = s.write
           /\ fifo'[f].overflowed = s.overflowed /\ fifo'[f].underflowed = s.underflowed
           /\ cfg'[f] = cfg[f]
<1>1. fifo'[f] = Stored(f, s) /\ cfg'[f] = cfg[f]
  BY DEF SetFlags, IInv, TypeOK
<1>2. s \in FifoState /\ (f \in CmdFifos => s.commit = s.read)
  BY DEF Storable, Sound
<1>3. /\ Stored(f, s).read = s.read /\ Stored(f, s).commit = s.commit
      /\ Stored(f, s).write = s.write
      /\ Stored(f, s).overflowed = s.overflowed /\ Stored(f, s).underflowed = s.underflowed
  BY <1>2 DEF Stored, FifoState
<1> QED BY <1>1, <1>3

LEMMA IncWriteContract ==
    ASSUME IInv, NEW f \in Fifos, NEW w \in Words, NEW type, IncWritePtr(f, w, type)
    PROVE  Contract(f)!Operation
<1> DEFINE s == fifo[f]
           c == cfg[f]
           x == IncWrite(s, c)
<1>1. Storable(f, x)
  BY OperationsStorable
<1>2. /\ fifo'[f].read = x.read /\ fifo'[f].commit = x.commit /\ fifo'[f].write = x.write
      /\ fifo'[f].overflowed = x.overflowed /\ fifo'[f].underflowed = x.underflowed
      /\ cfg'[f] = c
  BY <1>1, SetFlagsStores DEF IncWritePtr
<1>3. mem'[f] = [mem[f] EXCEPT ![s.write] = w]
  BY DEF IncWritePtr, IInv, TypeOK
<1>4. fifo_op'.fifo = f /\ fifo_op'.op = "inc_write_ptr"
  BY DEF IncWritePtr, Performs
<1>5. /\ s.commit \in 0..c.size_m_one /\ s.write \in 0..c.size_m_one
      /\ s.read \in 0..c.size_m_one
      /\ c.size_m_one \in Nat /\ c \in Ring(c.size_m_one) /\ 0..c.size_m_one \subseteq Ptr
      /\ mem[f] \in [Ptr -> Words] /\ Len(Window(f)) = Uncommitted(f)
      /\ Uncommitted(f) \in 0..c.size_m_one
  <2>1. /\ s.commit \in 0..c.size_m_one /\ s.write \in 0..c.size_m_one
        /\ s.read \in 0..c.size_m_one
    BY FifoFacts DEF InOrder
  <2>2. c.size_m_one \in Nat /\ c \in Ring(c.size_m_one)
    BY FifoFacts
  <2> QED BY <2>1, <2>2, FifoFacts, EntriesBounded DEF Uncommitted
<1>6. fifo'[f].read = s.read /\ fifo'[f].commit = s.commit
      /\ fifo'[f].underflowed = s.underflowed
  BY <1>2 DEF IncWrite, Moved
<1>7. ReadAhead(f)' = ReadAhead(f)
  BY <1>2, <1>6 DEF ReadAhead
<1>8. CASE ~s.full /\ Uncommitted(f) # c.size_m_one
  <2>1. x = Moved(s, c, s.read, s.commit, NextPtr(s.write, c))
    BY <1>8 DEF IncWrite
  <2>2. fifo'[f].write = NextPtr(s.write, c) /\ fifo'[f].overflowed = s.overflowed
    BY <1>2, <2>1 DEF Moved
  <2>3. Window(f)' = Append(Window(f), w)
    <3>1. Entries(s.commit, s.write, c) # c.size_m_one
      BY <1>8 DEF Uncommitted
    <3>2. Win([mem[f] EXCEPT ![s.write] = w], s.commit, NextPtr(s.write, c), c)
            = Append(Win(mem[f], s.commit, s.write, c), w)
      BY <1>5, <3>1, WinAppend
    <3>3. Window(f)' = Win([mem[f] EXCEPT ![s.write] = w], s.commit, NextPtr(s.write, c), c)
      BY <1>2, <1>3, <1>6, <2>2, WindowIsWin
    <3> QED BY <3>2, <3>3, WindowIsWin
  <2>4. Len(Window(f)) < c.size_m_one
    BY <1>5, <1>8
  <2>5. Contract(f)!Write(w)
    BY <1>2, <1>4, <1>6, <1>7, <2>2, <2>3, <2>4 DEF Contract!Write
  <2> QED BY <2>5 DEF Contract!Operation
<1>9. CASE s.full \/ Uncommitted(f) = c.size_m_one
  <2>1. Uncommitted(f) = c.size_m_one
    BY <1>9, FifoFacts DEF Sound, FlagsOf, Uncommitted
  <2>2. \/ s.full /\ fifo'[f].write = s.write /\ fifo'[f].overflowed = TRUE
        \/ /\ ~s.full /\ fifo'[f].write = NextPtr(s.write, c)
           /\ fifo'[f].overflowed = s.overflowed
    BY <1>2 DEF IncWrite, Moved
  <2>3. ~s.full => c.size_m_one = 0
    BY <1>5, <2>1, FifoFacts DEF Sound, FlagsOf, Uncommitted
  <2>4. fifo'[f].write = s.write
    BY <1>5, <2>2, <2>3 DEF NextPtr
  <2>5. fifo'[f].overflowed \in IF c.size_m_one = 0 THEN {s.overflowed, TRUE} ELSE {TRUE}
    BY <2>2, <2>3
  <2>6. Window(f)' = Window(f)
    <3>1. Win([mem[f] EXCEPT ![s.write] = w], s.commit, s.write, c)
            = Win(mem[f], s.commit, s.write, c)
      BY <1>5, WinUntouched
    <3>2. Window(f)' = Win([mem[f] EXCEPT ![s.write] = w], s.commit, s.write, c)
      BY <1>2, <1>3, <1>6, <2>4, WindowIsWin
    <3> QED BY <3>1, <3>2, WindowIsWin
  <2>7. Contract(f)!Refuse
    BY <1>2, <1>4, <1>5, <1>6, <1>7, <2>1, <2>5, <2>6 DEF Contract!Refuse
  <2> QED BY <2>7 DEF Contract!Operation
<1> QED BY <1>8, <1>9

\* A read, whether it commits or reads ahead.
LEMMA IncReadContract ==
    ASSUME IInv, NEW f \in Fifos, NEW type, NEW commit \in BOOLEAN,
           Storable(f, IncRead(fifo[f], cfg[f], commit)),
           SetFlags(f, IncRead(fifo[f], cfg[f], commit), type),
           Performs(IF commit THEN "inc_read_ptr" ELSE "inc_read_ptr_without_commit", f),
           ReadSram(f), UNCHANGED <<cfg, mem>>
    PROVE  Contract(f)!Operation
<1> DEFINE s == fifo[f]
           c == cfg[f]
           n == c.size_m_one
           next == NextPtr(s.read, c)
           x == IncRead(s, c, commit)
<1>1. /\ fifo'[f].read = x.read /\ fifo'[f].commit = x.commit /\ fifo'[f].write = x.write
      /\ fifo'[f].overflowed = x.overflowed /\ fifo'[f].underflowed = x.underflowed
      /\ cfg'[f] = c
  BY SetFlagsStores
<1>2. mem' = mem
  OBVIOUS
<1>3. Contract(f)!ReadOp(commit)
  BY DEF Contract!ReadOp, Performs
<1>4. /\ s \in FifoState /\ c \in FifoCfg /\ mem[f] \in [Ptr -> Words]
      /\ InOrder(s.read, s.commit, s.write, c)
      /\ n \in Nat /\ c \in Ring(n)
      /\ Len(Window(f)) = Uncommitted(f)
      /\ s.empty <=> s.read = s.write
  BY FifoFacts DEF Sound, FlagsOf
<1>5. s.read \in 0..n /\ s.commit \in 0..n /\ s.write \in 0..n
  BY <1>4 DEF InOrder
<1>6. ReadAhead(f) + Unread(f) = Uncommitted(f)
      /\ ReadAhead(f) \in 0..n /\ Unread(f) \in 0..n /\ Uncommitted(f) \in 0..n
      /\ (Unread(f) = 0 <=> s.read = s.write)
  <2>1. ReadAhead(f) + Unread(f) = Uncommitted(f)
    BY <1>4 DEF InOrder, ReadAhead, Unread, Uncommitted
  <2>2. ReadAhead(f) \in 0..n
    <3>1. Entries(s.commit, s.read, c) \in 0..c.size_m_one
      BY <1>4, <1>5, DistanceBounded
    <3> QED BY <3>1 DEF ReadAhead
  <2>3. Unread(f) \in 0..n /\ (Unread(f) = 0 <=> s.read = s.write)
    <3>1. /\ Entries(s.read, s.write, c) \in 0..c.size_m_one
          /\ Entries(s.read, s.write, c) = 0 <=> s.read = s.write
      <4>1. c \in FifoCfg
        BY <1>4
      <4> HIDE DEF s, c
      <4> QED BY <1>5, <4>1, DistanceBounded
    <3> QED BY <3>1 DEF Unread
  <2>4. Uncommitted(f) \in 0..n
    BY <1>4, <1>5, EntriesBounded DEF Uncommitted
  <2> QED BY <2>1, <2>2, <2>3, <2>4
<1>7. CASE s.empty
  <2>1. x = [Moved(s, c, s.read, s.commit, s.write) EXCEPT !.underflowed = TRUE]
    BY <1>7 DEF IncRead
  <2>2. /\ fifo'[f].read = s.read /\ fifo'[f].commit = s.commit /\ fifo'[f].write = s.write
        /\ fifo'[f].overflowed = s.overflowed /\ fifo'[f].underflowed = TRUE
    BY <1>1, <2>1 DEF Moved
  <2>3. ReadAhead(f) = Len(Window(f))
    BY <1>4, <1>6, <1>7
  <2>4. Window(f)' = Window(f) /\ ReadAhead(f)' = ReadAhead(f)
    BY <1>1, <1>2, <2>2, WindowIsWin DEF ReadAhead
  <2>5. Contract(f)!Starve
    BY <1>1, <1>3, <2>2, <2>3, <2>4 DEF Contract!Starve
  <2> QED BY <2>5 DEF Contract!Operation
<1>8. CASE ~s.empty
  <2>1. x = Moved(s, c, next, IF commit THEN next ELSE s.commit, s.write)
    BY <1>8 DEF IncRead
  <2>2. /\ fifo'[f].read = next /\ fifo'[f].commit = (IF commit THEN next ELSE s.commit)
        /\ fifo'[f].write = s.write
        /\ fifo'[f].overflowed = s.overflowed /\ fifo'[f].underflowed = s.underflowed
    BY <1>1, <2>1 DEF Moved
  <2>3. s.read # s.write
    BY <1>4, <1>8
  <2>4. /\ ReadAhead(f) < Len(Window(f))
        /\ sram_read_data' = Window(f)[ReadAhead(f) + 1]
    BY <1>4, <2>3, WinRead, WindowIsWin DEF ReadSram, ReadAhead, Uncommitted
  <2>5. next \in 0..n /\ Entries(s.commit, next, c) = ReadAhead(f) + 1
    <3>1. Entries(s.commit, s.read, c) # n
      BY <1>6, <2>3 DEF ReadAhead
    <3> QED BY <1>4, <1>5, <3>1, NextPtrInRing, EntriesGrow DEF ReadAhead
  <2>6. InOrder(next, s.commit, s.write, c)
    <3>1. Entries(next, s.write, c) = Unread(f) - 1
      BY <1>4, <1>5, <2>3, EntriesShrink DEF Unread
    <3> QED BY <1>5, <1>6, <2>5, <3>1 DEF InOrder, Uncommitted
  <2>7. ReadAhead(f)' = IF commit THEN 0 ELSE ReadAhead(f) + 1
    <3>1. Entries(next, next, c) = 0
      BY <1>4, <2>5, EntriesBounded
    <3> QED BY <1>1, <2>2, <2>5, <3>1 DEF ReadAhead
  <2>8. Window(f)' = IF commit THEN SubSeq(Window(f), ReadAhead(f) + 2, Len(Window(f)))
                              ELSE Window(f)
    <3>1. CASE commit
      <4>1. Win(mem[f], next, s.write, c)
              = SubSeq(Win(mem[f], s.commit, s.write, c),
                       Entries(s.commit, next, c) + 1, Entries(s.commit, s.write, c))
        BY <1>4, <2>6, WinDrop
      <4>2. Entries(s.commit, next, c) + 1 = ReadAhead(f) + 2
        BY <1>6, <2>5
      <4>3. Window(f)' = Win(mem[f], next, s.write, c)
        BY <1>1, <1>2, <2>2, <3>1, WindowIsWin
      <4> QED BY <1>4, <3>1, <4>1, <4>2, <4>3, WindowIsWin DEF Uncommitted
    <3>2. CASE ~commit
      BY <1>1, <1>2, <2>2, <3>2, WindowIsWin
    <3> QED BY <3>1, <3>2
  <2>9. Contract(f)!Read(commit)
    BY <1>1, <1>3, <2>2, <2>4, <2>7, <2>8 DEF Contract!Read
  <2> QED BY <2>9 DEF Contract!Operation
<1> QED BY <1>7, <1>8

LEMMA CommitRevertContract ==
    ASSUME IInv, NEW f \in TxFifos, NEW type,
           CommitReadPtr(f, type) \/ RevertReadPtr(f, type)
    PROVE  Contract(f)!Operation
<1> DEFINE s == fifo[f]
           c == cfg[f]
<1>1. f \in Fifos
  BY DEF Fifos
<1>2. /\ c \in FifoCfg /\ mem[f] \in [Ptr -> Words]
      /\ InOrder(s.read, s.commit, s.write, c)
      /\ c.size_m_one \in Nat /\ c \in Ring(c.size_m_one)
      /\ Len(Window(f)) = Uncommitted(f)
  BY <1>1, FifoFacts
<1>3. s.read \in 0..c.size_m_one /\ s.commit \in 0..c.size_m_one
  BY <1>2 DEF InOrder
<1>4. Entries(s.read, s.read, c) = 0 /\ Entries(s.commit, s.commit, c) = 0
  <2> HIDE DEF s, c
  <2> QED BY <1>2, <1>3 DEF Entries
<1>5. CASE CommitReadPtr(f, type)
  <2>1. /\ fifo'[f].read = s.read /\ fifo'[f].commit = s.read /\ fifo'[f].write = s.write
        /\ fifo'[f].overflowed = s.overflowed /\ fifo'[f].underflowed = s.underflowed
        /\ cfg'[f] = c /\ mem' = mem
    <3> DEFINE x == CommitRead(s, c)
    <3>1. Storable(f, x)
      BY <1>1, OperationsStorable
    <3>2. SetFlags(f, x, type) /\ cfg' = cfg /\ mem' = mem
      BY <1>5 DEF CommitReadPtr
    <3>3. /\ fifo'[f].read = x.read /\ fifo'[f].commit = x.commit
          /\ fifo'[f].write = x.write
          /\ fifo'[f].overflowed = x.overflowed /\ fifo'[f].underflowed = x.underflowed
          /\ cfg'[f] = c
      BY <1>1, <3>1, <3>2, SetFlagsStores
    <3> QED BY <3>2, <3>3 DEF CommitRead, Moved
  <2>2. fifo_op'.fifo = f /\ fifo_op'.op = "commit_read_ptr"
    BY <1>5 DEF CommitReadPtr, Performs
  <2>3. ReadAhead(f)' = 0
    BY <1>4, <2>1 DEF ReadAhead
  <2>4. Window(f)' = SubSeq(Window(f), ReadAhead(f) + 1, Len(Window(f)))
    BY <1>1, <1>2, <2>1, WinDrop, WindowIsWin DEF ReadAhead, Uncommitted
  <2>5. Contract(f)!Commit
    BY <2>1, <2>2, <2>3, <2>4 DEF Contract!Commit
  <2> QED BY <2>5 DEF Contract!Operation
<1>6. CASE RevertReadPtr(f, type)
  <2>1. /\ fifo'[f].read = s.commit /\ fifo'[f].commit = s.commit
        /\ fifo'[f].write = s.write
        /\ fifo'[f].overflowed = s.overflowed /\ fifo'[f].underflowed = s.underflowed
        /\ cfg'[f] = c /\ mem' = mem
    <3> DEFINE x == RevertRead(s, c)
    <3>1. Storable(f, x)
      BY <1>1, OperationsStorable
    <3>2. SetFlags(f, x, type) /\ cfg' = cfg /\ mem' = mem
      BY <1>6 DEF RevertReadPtr
    <3>3. /\ fifo'[f].read = x.read /\ fifo'[f].commit = x.commit
          /\ fifo'[f].write = x.write
          /\ fifo'[f].overflowed = x.overflowed /\ fifo'[f].underflowed = x.underflowed
          /\ cfg'[f] = c
      BY <1>1, <3>1, <3>2, SetFlagsStores
    <3> QED BY <3>2, <3>3 DEF RevertRead, Moved
  <2>2. fifo_op'.fifo = f /\ fifo_op'.op = "revert_read_ptr"
    BY <1>6 DEF RevertReadPtr, Performs
  <2>3. ReadAhead(f)' = 0
    BY <1>4, <2>1 DEF ReadAhead
  <2>4. Window(f)' = Window(f)
    BY <1>1, <2>1, WindowIsWin
  <2>5. Contract(f)!Revert
    BY <2>1, <2>2, <2>3, <2>4 DEF Contract!Revert
  <2> QED BY <2>5 DEF Contract!Operation
<1> QED BY <1>5, <1>6

\* An empty FIFO holds the empty queue.
LEMMA ZeroedIsEmpty ==
    ASSUME NEW c \in FifoCfg, NEW m
    PROVE  Win(m, 0, 0, c) = <<>> /\ Entries(0, 0, c) = 0
<1>1. Entries(0, 0, c) = 0
  BY DEF Entries
<1> QED BY <1>1 DEF Win

LEMMA ClearContract ==
    ASSUME IInv, NEW f \in Fifos, WriteCfg(f) \/ Reset(f)
    PROVE  Contract(f)!Operation
<1>1. IInv'
  BY ClearStepKeepsIInv
<1>2. fifo'[f] = Zeroed
  BY DEF WriteCfg, Reset, IInv, TypeOK
<1>3. cfg'[f] \in FifoCfg
  BY <1>1 DEF IInv, TypeOK
<1>4. Contract(f)!Cleared
  <2>1. Window(f)' = Win(mem'[f], 0, 0, cfg'[f])
    BY <1>2, WindowIsWin DEF Zeroed
  <2>2. Window(f)' = <<>> /\ ReadAhead(f)' = 0
    BY <1>2, <1>3, <2>1, ZeroedIsEmpty DEF ReadAhead, Zeroed
  <2> QED BY <1>2, <2>2 DEF Contract!Cleared, Zeroed
<1>5. CASE WriteCfg(f)
  <2>1. fifo_op'.fifo = f /\ fifo_op'.op = "write_cfg"
    BY <1>5 DEF WriteCfg, Performs
  <2>2. cfg'[f].size_m_one \in 0..MaxSizeMOne
    BY <1>3 DEF FifoCfg, Ptr
  <2>3. Contract(f)!Configure
    BY <1>4, <2>1, <2>2 DEF Contract!Configure
  <2> QED BY <2>3 DEF Contract!Operation
<1>6. CASE Reset(f)
  <2>1. fifo_op'.fifo = f /\ fifo_op'.op = "reset" /\ cfg' = cfg
    BY <1>6 DEF Reset, Performs
  <2>2. Contract(f)!Clear
    BY <1>4, <2>1 DEF Contract!Clear
  <2> QED BY <2>2 DEF Contract!Operation
<1> QED BY <1>5, <1>6

\* While another FIFO is served, a FIFO sees a step in which nothing is asked
\* of it.
LEMMA ElsewhereContract ==
    ASSUME IInv, NEW f \in Fifos, NEW g \in Fifos, g # f, Operate(g)
    PROVE  Contract(f)!Operation
<1>1. /\ fifo'[f] = fifo[f] /\ cfg'[f] = cfg[f] /\ mem'[f] = mem[f]
      /\ fifo_op'.fifo = g
  <2> USE DEF IInv, TypeOK, Performs
  <2>1. CASE WriteCfg(g) \/ Reset(g)
    BY <2>1 DEF WriteCfg, Reset
  <2>2. CASE \E w \in Words, type \in PostbusEvents : IncWritePtr(g, w, type)
    BY <2>2 DEF IncWritePtr, SetFlags
  <2>3. CASE \E type \in PostbusEvents \cup {"edge"} : IncReadPtr(g, type)
    <3>1. PICK type : IncReadPtr(g, type)
      BY <2>3
    <3>2. /\ fifo' = [fifo EXCEPT ![g] = Stored(g, IncRead(fifo[g], cfg[g], TRUE))]
          /\ cfg' = cfg /\ mem' = mem /\ fifo_op'.fifo = g
      BY <3>1 DEF IncReadPtr, SetFlags
    <3> QED BY <3>2
  <2>4. CASE IncReadPtrWithoutCommit(g, "edge")
    BY <2>4 DEF IncReadPtrWithoutCommit, SetFlags
  <2>5. CASE CommitReadPtr(g, "edge") \/ RevertReadPtr(g, "edge")
    BY <2>5 DEF CommitReadPtr, RevertReadPtr, SetFlags
  <2> QED BY <2>1, <2>2, <2>3, <2>4, <2>5 DEF Operate
<1>2. Window(f)' = Window(f) /\ ReadAhead(f)' = ReadAhead(f)
  BY <1>1, WindowIsWin DEF ReadAhead
<1>3. Contract(f)!Elsewhere
  BY <1>1, <1>2 DEF Contract!Elsewhere
<1> QED BY <1>3 DEF Contract!Operation

LEMMA ServedContract ==
    ASSUME IInv, NEW f \in Fifos, Operate(f)
    PROVE  Contract(f)!Operation
<1>1. CASE WriteCfg(f) \/ Reset(f)
  BY <1>1, ClearContract
<1>2. ASSUME NEW w \in Words, NEW type, IncWritePtr(f, w, type)
      PROVE  Contract(f)!Operation
  BY <1>2, IncWriteContract
<1>3. ASSUME NEW type, IncReadPtr(f, type)
      PROVE  Contract(f)!Operation
  BY <1>3, IncReadContract, OperationsStorable DEF IncReadPtr
<1>4. ASSUME f \in TxFifos, NEW type, IncReadPtrWithoutCommit(f, type)
      PROVE  Contract(f)!Operation
  BY <1>4, IncReadContract, OperationsStorable DEF IncReadPtrWithoutCommit
<1>5. ASSUME f \in TxFifos, NEW type, CommitReadPtr(f, type) \/ RevertReadPtr(f, type)
      PROVE  Contract(f)!Operation
  BY <1>5, CommitRevertContract
<1> QED BY <1>1, <1>2, <1>3, <1>4, <1>5 DEF Operate

\* Each FIFO of the block, whatever the others are asked, is a bounded queue
\* with reads ahead, commits and reverts: words leave it once and in order, a
\* revert replays exactly the uncommitted ones, and every refused write and
\* every read of nothing is recorded.
THEOREM FifosImplementCommitFifo == Spec => ImplementsCommitFifo
<1>1. Init => \A f \in Fifos : Contract(f)!Init
  <2> SUFFICES ASSUME Init, NEW f \in Fifos PROVE Contract(f)!Init
    OBVIOUS
  <2>1. fifo[f] = Zeroed /\ cfg[f] \in FifoCfg /\ cfg[f].size_m_one = 0
    BY InitIInv DEF Init, IInv, TypeOK
  <2>2. Window(f) = <<>> /\ ReadAhead(f) = 0
    BY <2>1, WindowIsWin, ZeroedIsEmpty DEF ReadAhead, Zeroed
  <2> QED BY <2>1, <2>2 DEF Contract!Init, Init, Zeroed
<1>2. IInv /\ [Next]_vars => \A f \in Fifos : [Contract(f)!Next]_(Contract(f)!vars)
  <2> SUFFICES ASSUME IInv, [Next]_vars, NEW f \in Fifos
               PROVE  [Contract(f)!Next]_(Contract(f)!vars)
    OBVIOUS
  <2>1. CASE UNCHANGED vars
    <3>1. Window(f)' = Window(f)
      BY <2>1, WindowIsWin DEF vars
    <3> QED BY <2>1, <3>1 DEF vars, Contract!vars, ReadAhead
  <2>2. ASSUME NEW g \in Fifos, Operate(g) PROVE Contract(f)!Next
    <3>1. Contract(f)!Operation
      BY <2>2, ServedContract, ElsewhereContract
    <3>2. sram_read_data' \in Words
      BY NextIInv DEF IInv, TypeOK
    <3> QED BY <3>1, <3>2 DEF Contract!Next
  <2> QED BY <2>1, <2>2 DEF Next
<1>3. [][\A f \in Fifos : [Contract(f)!Next]_(Contract(f)!vars)]_vars
        /\ (\A f \in Fifos : Contract(f)!Init) => ImplementsCommitFifo
  BY PTL DEF ImplementsCommitFifo
<1> QED BY SpecIInv, <1>1, <1>2, <1>3, PTL DEF Spec
===============================================================================
