---------------------------- MODULE GipCoreProofs ----------------------------
(***************************************************************************)
(* The back end first, GipPipeline, by itself.  For every register file,   *)
(* word size and set of offered instructions, in every order the decoder   *)
(* may offer them: the instructions in the ALU work on the values of the   *)
(* unpipelined machine, and the registers and the memory become its        *)
(* registers and its memory.                                               *)
(*                                                                         *)
(* Then the core.  The decoder is one of the environments the back end is  *)
(* proved for: what is proved of the back end holds of the core running    *)
(* any program.  What the decoder decodes ahead and the jumps flush is     *)
(* proved to leave the order of the program: OrderInv says which opcodes   *)
(* the stages and the decoder hold, as the machine without a pipeline      *)
(* numbers them.  Last, how long an instruction takes to complete.         *)
(***************************************************************************)
EXTENDS GipCore, TLAPS

(* The shape of the stages the invariants need: when the register file     *)
(* takes a result, and that only loads bring one back from the memory.     *)
Shape ==
    /\ rf.accepting_alu_rd <=> rf.alu_rd = "none" \/ rf.mem_rd = "none"
    /\ mem.op # "load" => mem.rd = "none"

Inv == TypeOK /\ Shape /\ BlockedOnce /\ OperandsFresh /\ RegistersAgree /\ MemoryAgrees

-----------------------------------------------------------------------------
(* Words are closed under the arithmetic.                                  *)
LEMMA WordClosed ==
    ASSUME NEW x \in Word, NEW y \in Word, NEW op \in {"mov", "add", "sub", "clear"}
    PROVE  /\ 0 \in Word /\ Add(x, y) \in Word /\ Sub(x, y) \in Word
           /\ Add(1, 0) \in Word /\ Compute(op, x, y) \in Word
<1> WordSize \in Nat \ {0} BY IsaAssumption
<1>1. \A k \in Int : k % WordSize \in 0 .. WordSize - 1
    OBVIOUS
<1>2. x \in Int /\ y \in Int /\ x + y \in Int /\ x - y \in Int /\ 1 + 0 \in Int
    BY DEF Word
<1>3. 0 \in Word BY DEF Word
<1>4. Add(x, y) \in Word BY <1>1, <1>2 DEF Word, Add
<1>5. Sub(x, y) \in Word BY <1>1, <1>2 DEF Word, Sub
<1>6. Add(1, 0) \in Word BY <1>1, <1>2 DEF Word, Add
<1> QED
    BY <1>3, <1>4, <1>5, <1>6 DEF Compute

(* A valid instruction of the ALU is an instruction.                       *)
LEMMA ValidInstruction ==
    ASSUME TypeOK
    PROVE  /\ Bubble \notin Instruction
           /\ alu.inst # Bubble => alu.inst \in Instruction
           /\ rf.inst # Bubble => rf.inst \in Instruction
<1>1. Bubble \notin Instruction
  <2>1. \A i \in Instruction : i.class \in {"alu", "load", "store"} BY DEF Instruction
  <2>2. Bubble.class = "bubble" BY DEF Bubble
  <2> QED BY <2>1, <2>2
<1> QED
    BY <1>1 DEF TypeOK

(* With fresh operands, the ALU computes what the unpipelined machine      *)
(* computes for the same instruction.                                      *)
LEMMA AluAgrees ==
    ASSUME TypeOK, OperandsFresh, alu.inst # Bubble
    PROVE  /\ ConditionPassed <=> Passes(isa, alu.inst)
           /\ AluOp1 = OperandA(isa, alu.inst)
           /\ AluResult = Result(isa, alu.inst)
           /\ NextCp <=> Condition(isa, alu.inst)
<1>1. ConditionPassed <=> Passes(isa, alu.inst)
    BY DEF ConditionPassed, Passes, OperandsFresh
<1>2. AluOp1 = OperandA(isa, alu.inst)
    BY DEF AluOp1, OperandA, OperandsFresh
<1>3. AluOp2 = OperandB(isa, alu.inst)
    BY DEF AluOp2, OperandB, OperandsFresh
<1>4. AluResult = Result(isa, alu.inst)
    BY <1>2, <1>3 DEF AluResult, Result
<1> QED
    BY <1>1, <1>2, <1>4 DEF NextCp, Condition

(* The results of the ALU are words.                                       *)
LEMMA AluTypes ==
    ASSUME TypeOK, alu.inst # Bubble
    PROVE  /\ AluOp1 \in Word /\ AluResult \in Word
           /\ AluRd \in Dest /\ MemRd \in Dest
<1>1. alu.inst \in Instruction BY ValidInstruction
<1>2. /\ alu.inst.op \in {"mov", "add", "sub", "clear"}
      /\ alu.inst.rd \in Dest
    BY <1>1 DEF Instruction, Dest
<1>3. alu.a \in Word /\ alu.b \in Word /\ alu.acc \in Word
    BY DEF TypeOK
<1>4. Add(1, 0) \in Word BY <1>2, <1>3, WordClosed
<1>5. AluOp1 \in Word /\ AluOp2 \in Word
    BY <1>3, <1>4 DEF AluOp1, AluOp2
<1>6. AluResult \in Word BY <1>2, <1>5, WordClosed DEF AluResult
<1>7. "none" \in Dest BY DEF Dest
<1> QED
    BY <1>2, <1>5, <1>6, <1>7 DEF AluRd, MemRd

(* The access handed to the memory stage.                                  *)
LEMMA AccessTypes ==
    ASSUME TypeOK
    PROVE  /\ MemAccess \in [op : {"none", "load", "store"}, rd : Dest,
                             address : Word, data : Word, result : Word]
           /\ MemAccess.rd = MemRd
           /\ MemAccess.op # "load" => MemRd = "none"
           /\ MemRd # "none" => alu.inst # Bubble /\ ConditionPassed
           /\ alu.inst = Bubble => MemAccess = NoAccess
           /\ 0 \in Word
<1>1. 0 \in Word BY IsaAssumption DEF Word
<1>2. "none" \in Dest BY DEF Dest
<1>3. NoAccess \in [op : {"none", "load", "store"}, rd : Dest,
                    address : Word, data : Word, result : Word]
    BY <1>1, <1>2 DEF NoAccess
<1>4. CASE ~ConditionPassed
  <2>1. MemAccess = NoAccess /\ MemRd = "none" BY <1>4 DEF MemAccess, MemRd
  <2> QED BY <2>1, <1>1, <1>3 DEF NoAccess
<1>5. CASE ConditionPassed
  <2>1. alu.inst # Bubble BY <1>5 DEF ConditionPassed
  <2>2. alu.inst \in Instruction BY <2>1, ValidInstruction
  <2>3. alu.inst.class \in {"alu", "load", "store"} BY <2>2 DEF Instruction
  <2>4. AluOp1 \in Word /\ AluResult \in Word /\ MemRd \in Dest BY <2>1, AluTypes
  <2>5. alu.b \in Word BY DEF TypeOK
  <2>6. CASE alu.inst.class = "alu"
    <3>1. MemAccess = NoAccess /\ MemRd = "none" BY <2>6 DEF MemAccess, MemRd
    <3> QED BY <3>1, <2>1, <1>1, <1>3 DEF NoAccess
  <2>7. CASE alu.inst.class # "alu"
    <3>1. MemAccess = [op |-> alu.inst.class, rd |-> MemRd,
                       address |-> IF alu.inst.pre THEN AluResult ELSE AluOp1,
                       data |-> alu.b, result |-> 0]
        BY <1>5, <2>7 DEF MemAccess
    <3>2. alu.inst.class # "load" => MemRd = "none" BY DEF MemRd
    <3> QED BY <3>1, <3>2, <2>1, <2>3, <2>4, <2>5, <2>7, <1>1, <1>5
  <2> QED BY <2>6, <2>7
<1> QED BY <1>4, <1>5

-----------------------------------------------------------------------------
LEMMA InitInv == Init => Inv
<1> SUFFICES ASSUME Init PROVE Inv OBVIOUS
<1> USE DEF Init, NoAccess
<1>1. 0 \in Word BY IsaAssumption DEF Word
<1>2. "none" \in Dest /\ \A r \in Reg : r # "none"
    BY IsaAssumption DEF Dest, NotRegisters
<1>3. TypeOK BY <1>1, <1>2 DEF TypeOK, State, Memory
<1>4. Shape /\ BlockedOnce /\ OperandsFresh
    BY DEF Shape, BlockedOnce, OperandsFresh
<1>5. RegistersAgree BY <1>2 DEF RegistersAgree, Settled
<1>6. MemoryAgrees BY DEF MemoryAgrees, Stored
<1> QED BY <1>3, <1>4, <1>5, <1>6 DEF Inv

-----------------------------------------------------------------------------
(* The values of an instruction are words.                                 *)
LEMMA ValueTypes ==
    ASSUME NEW s \in State, NEW i \in Instruction
    PROVE  /\ PortB(s, i) \in Word /\ Result(s, i) \in Word
           /\ Address(s, i) \in Word /\ Written(s, i) \in Word
<1>1. \A r : Port(s, i, r) \in Word BY DEF Port, State, Instruction
<1>2. PortB(s, i) \in Word BY <1>1 DEF PortB, Instruction
<1>3. OperandA(s, i) \in Word BY <1>1 DEF OperandA, State
<1>4. i.op \in {"mov", "add", "sub", "clear"} BY DEF Instruction
<1>5. Add(1, 0) \in Word BY <1>3, <1>4, WordClosed
<1>6. OperandB(s, i) \in Word BY <1>2, <1>5 DEF OperandB, State
<1>7. Result(s, i) \in Word BY <1>3, <1>4, <1>6, WordClosed DEF Result
<1>8. Address(s, i) \in Word BY <1>3, <1>7 DEF Address
<1>9. Written(s, i) \in Word BY <1>7, <1>8 DEF Written, State, Memory
<1> QED BY <1>2, <1>7, <1>8, <1>9

(* What the unpipelined machine makes of an instruction is a state.        *)
LEMMA ExecuteTypes ==
    ASSUME NEW s \in State, NEW i \in Instruction
    PROVE  Execute(s, i) \in State
<1>1. /\ PortB(s, i) \in Word /\ Result(s, i) \in Word
      /\ Address(s, i) \in Word /\ Written(s, i) \in Word
    BY ValueTypes
<1>10. Condition(s, i) \in BOOLEAN
    BY DEF Condition
<1> DEFINE R == IF Passes(s, i) /\ i.rd \in Reg
                THEN [s.regs EXCEPT ![i.rd] = Written(s, i)] ELSE s.regs
           M == IF Passes(s, i) /\ i.class = "store"
                THEN [s.memory EXCEPT ![Address(s, i)] = PortB(s, i)] ELSE s.memory
           A == IF Passes(s, i) /\ i.a THEN Result(s, i) ELSE s.acc
<1>11. R \in [Reg -> Word] BY <1>1 DEF State
<1>12. M \in Memory BY <1>1 DEF State, Memory
<1>13. A \in Word BY <1>1 DEF State
<1>14. Execute(s, i) = [regs |-> R, memory |-> M, acc |-> A, cp |-> Condition(s, i)]
    BY DEF Execute
<1> HIDE DEF R, M, A
<1> QED
    BY <1>10, <1>11, <1>12, <1>13, <1>14 DEF State

(* A port of the register file gives a word.                               *)
LEMMA PortTypes ==
    ASSUME TypeOK, rf.inst # Bubble
    PROVE  \A r : ReadPort(r) \in Word
<1>1. rf.inst.pc \in Word BY ValidInstruction DEF Instruction
<1> QED BY <1>1 DEF ReadPort, TypeOK

LEMMA TypeStep ==
    ASSUME TypeOK, NEW offer \in Instruction \cup {Bubble}, Clock(offer)
    PROVE  TypeOK'
<1> "none" \in Dest BY DEF Dest
<1> 0 \in Word BY IsaAssumption DEF Word
<1>1. AluRd \in Dest /\ (AluRd # "none" => AluResult \in Word)
  <2>1. alu.inst = Bubble => AluRd = "none" BY DEF AluRd, ConditionPassed
  <2> QED BY <2>1, AluTypes
<1>2. (rf \in [inst : Instruction \cup {Bubble}, alu_rd : Dest,
               alu_result : Word, mem_rd : Dest, mem_result : Word,
               accepting_alu_rd : BOOLEAN])'
    BY <1>1 DEF Clock, RfClock, TypeOK
<1>3. (regs \in [Reg -> Word])'
    BY DEF Clock, WriteClock, WriteRd, WriteData, TypeOK
<1>4. (memory \in Memory)'
    BY DEF Clock, MemClock, TypeOK, Memory
<1>5. (mem \in [op : {"none", "load", "store"}, rd : Dest, address : Word,
                data : Word, result : Word])'
  <2> DEFINE Accesses == [op : {"none", "load", "store"}, rd : Dest,
                          address : Word, data : Word, result : Word]
  <2>1. MemAccess \in Accesses BY AccessTypes
  <2>2. memory'[MemAccess.address] \in Word BY <1>4, <2>1 DEF Memory
  <2>3. mem' = IF MemAccess.op = "load"
               THEN [MemAccess EXCEPT !.result = memory'[MemAccess.address]]
               ELSE MemAccess
      BY DEF Clock, MemClock
  <2> QED BY <2>1, <2>2, <2>3
<1>6. (alu \in [inst : Instruction \cup {Bubble}, a : Word, b : Word,
                acc : Word, cp : BOOLEAN])'
  <2>1. rf.inst # Bubble =>
           \A r : ReadPort(r) \in Word /\ (rf.inst.rm = "imm" => rf.inst.imm \in Word)
      BY PortTypes, ValidInstruction DEF Instruction
  <2>2. Completes /\ ConditionPassed => AluResult \in Word
      BY AluTypes DEF Completes
  <2>3. NextCp \in BOOLEAN BY DEF NextCp
  <2>4. /\ alu.inst \in Instruction \cup {Bubble} /\ rf.inst \in Instruction \cup {Bubble}
        /\ alu.a \in Word /\ alu.b \in Word /\ alu.acc \in Word /\ alu.cp \in BOOLEAN
      BY DEF TypeOK
  <2> DEFINE inst == CASE Flush -> Bubble
                       [] ~Flush /\ ~AluAccepts -> alu.inst
                       [] OTHER -> IF Held THEN Bubble ELSE rf.inst
             a == CASE ~AluAccepts -> alu.a
                    [] ~~AluAccepts /\ inst = Bubble -> 0
                    [] OTHER -> ReadPort(rf.inst.rn)
             b == CASE ~AluAccepts -> alu.b
                    [] ~~AluAccepts /\ inst = Bubble -> 0
                    [] OTHER -> IF rf.inst.rm = "imm" THEN rf.inst.imm
                                ELSE ReadPort(rf.inst.rm)
             acc == IF Completes /\ ConditionPassed /\ alu.inst.a
                    THEN AluResult ELSE alu.acc
             cp == IF Completes THEN NextCp ELSE alu.cp
  <2>5. inst \in Instruction \cup {Bubble} BY <2>4
  <2>6. AluAccepts /\ inst # Bubble => rf.inst # Bubble BY DEF Flush
  <2>7. a \in Word /\ b \in Word BY <2>1, <2>4, <2>6
  <2>8. acc \in Word /\ cp \in BOOLEAN BY <2>2, <2>3, <2>4
  <2>9. alu' = [inst |-> inst, a |-> a, b |-> b, acc |-> acc, cp |-> cp]
      BY DEF Clock, AluClock
  <2> HIDE DEF inst, a, b, acc, cp
  <2> QED BY <2>5, <2>7, <2>8, <2>9
<1>7. (isa \in State)'
  <2>1. Completes => alu.inst \in Instruction BY ValidInstruction DEF Completes
  <2> QED BY <2>1, ExecuteTypes DEF Clock, TypeOK
<1> QED BY <1>2, <1>3, <1>4, <1>5, <1>6, <1>7 DEF TypeOK

-----------------------------------------------------------------------------
(* The write port: a result that has to wait finds no load behind it.      *)
LEMMA ShapeStep ==
    ASSUME TypeOK, Shape, BlockedOnce, NEW offer, Clock(offer)
    PROVE  Shape' /\ BlockedOnce'
<1>1. /\ mem'.rd = MemRd
      /\ mem'.op = MemAccess.op
      /\ mem'.op # "load" => mem'.rd = "none"
  <2>1. mem' = IF MemAccess.op = "load"
               THEN [MemAccess EXCEPT !.result = memory'[MemAccess.address]]
               ELSE MemAccess
      BY DEF Clock, MemClock
  <2> QED BY <2>1, AccessTypes
<1>2. /\ rf'.mem_rd = mem.rd
      /\ rf'.alu_rd = IF rf.accepting_alu_rd THEN AluRd ELSE rf.alu_rd
      /\ rf'.accepting_alu_rd <=> rf'.alu_rd = "none" \/ rf'.mem_rd = "none"
    BY DEF Clock, RfClock
<1>3. Shape' BY <1>1, <1>2 DEF Shape
<1>4. AluRd # "none" => MemRd = "none" BY DEF AluRd, MemRd
<1>5. BlockedOnce'
  <2>1. CASE rf.accepting_alu_rd BY <2>1, <1>1, <1>2, <1>4 DEF BlockedOnce
  <2>2. CASE ~rf.accepting_alu_rd BY <2>2, <1>2 DEF BlockedOnce
  <2> QED BY <2>1, <2>2
<1> QED BY <1>3, <1>5

(* What the unpipelined machine does in a clock, seen from the ALU.        *)
LEMMA IsaStep ==
    ASSUME TypeOK, OperandsFresh, NEW offer, Clock(offer)
    PROVE  /\ ~Completes => isa' = isa
           /\ Completes /\ ~ConditionPassed =>
                 isa'.regs = isa.regs /\ isa'.memory = isa.memory
           /\ Completes /\ ConditionPassed /\ alu.inst.class # "store" =>
                 isa'.memory = isa.memory
           /\ Completes /\ ConditionPassed /\ alu.inst.class = "store" =>
                 isa'.memory = Stored(isa.memory, MemAccess)
           /\ Completes /\ ConditionPassed /\ alu.inst.rd \notin Reg =>
                 isa'.regs = isa.regs
           /\ \A r \in Reg : Completes /\ ConditionPassed /\ alu.inst.rd \in Reg =>
                 isa'.regs[r] = IF r = alu.inst.rd THEN Written(isa, alu.inst)
                                ELSE isa.regs[r]
           /\ Completes => isa'.acc = alu'.acc /\ isa'.cp = alu'.cp
<1>1. ~Completes => isa' = isa BY DEF Clock
<1> SUFFICES ASSUME Completes
             PROVE  /\ ~ConditionPassed =>
                          isa'.regs = isa.regs /\ isa'.memory = isa.memory
                    /\ ConditionPassed /\ alu.inst.class # "store" =>
                          isa'.memory = isa.memory
                    /\ ConditionPassed /\ alu.inst.class = "store" =>
                          isa'.memory = Stored(isa.memory, MemAccess)
                    /\ ConditionPassed /\ alu.inst.rd \notin Reg =>
                          isa'.regs = isa.regs
                    /\ \A r \in Reg : ConditionPassed /\ alu.inst.rd \in Reg =>
                          isa'.regs[r] = IF r = alu.inst.rd THEN Written(isa, alu.inst)
                                         ELSE isa.regs[r]
                    /\ isa'.acc = alu'.acc /\ isa'.cp = alu'.cp
    BY <1>1
<1>2. alu.inst # Bubble BY DEF Completes
<1>3. /\ ConditionPassed <=> Passes(isa, alu.inst)
      /\ AluOp1 = OperandA(isa, alu.inst)
      /\ AluResult = Result(isa, alu.inst)
      /\ NextCp <=> Condition(isa, alu.inst)
    BY <1>2, AluAgrees
<1>4. isa' = Execute(isa, alu.inst) BY DEF Clock
<1>5. /\ isa'.regs = IF ConditionPassed /\ alu.inst.rd \in Reg
                     THEN [isa.regs EXCEPT ![alu.inst.rd] = Written(isa, alu.inst)]
                     ELSE isa.regs
      /\ isa'.memory = IF ConditionPassed /\ alu.inst.class = "store"
                       THEN [isa.memory EXCEPT ![Address(isa, alu.inst)] = PortB(isa, alu.inst)]
                       ELSE isa.memory
      /\ isa'.acc = IF ConditionPassed /\ alu.inst.a THEN AluResult ELSE isa.acc
      /\ isa'.cp = Condition(isa, alu.inst)
    BY <1>3, <1>4 DEF Execute
<1>6. ASSUME ConditionPassed, alu.inst.class = "store"
      PROVE  isa'.memory = Stored(isa.memory, MemAccess)
  <2>1. MemAccess = [op |-> "store", rd |-> MemRd,
                     address |-> IF alu.inst.pre THEN AluResult ELSE AluOp1,
                     data |-> alu.b, result |-> 0]
      BY <1>6 DEF MemAccess
  <2>2. MemAccess.address = Address(isa, alu.inst)
      BY <2>1, <1>3 DEF Address
  <2>3. MemAccess.data = PortB(isa, alu.inst)
      BY <2>1, <1>2 DEF OperandsFresh
  <2> QED BY <2>1, <2>2, <2>3, <1>5, <1>6 DEF Stored
<1>7. \A r \in Reg : ConditionPassed /\ alu.inst.rd \in Reg =>
         isa'.regs[r] = IF r = alu.inst.rd THEN Written(isa, alu.inst) ELSE isa.regs[r]
    BY <1>5 DEF TypeOK, State
<1>8. isa'.acc = alu'.acc
  <2>1. alu'.acc = IF Completes /\ ConditionPassed /\ alu.inst.a
                   THEN AluResult ELSE alu.acc
      BY DEF Clock, AluClock
  <2> QED BY <2>1, <1>5 DEF OperandsFresh
<1>9. isa'.cp = alu'.cp
  <2>1. alu'.cp = NextCp BY DEF Clock, AluClock
  <2>2. NextCp \in BOOLEAN /\ Condition(isa, alu.inst) \in BOOLEAN
      BY DEF NextCp, Condition
  <2> QED BY <2>1, <2>2, <1>3, <1>5
<1> QED BY <1>5, <1>6, <1>7, <1>8, <1>9

(* The memory, with the store under way done, and what a load reads.       *)
LEMMA MemoryStep ==
    ASSUME Inv, NEW offer, Clock(offer)
    PROVE  /\ MemoryAgrees'
           /\ MemAccess.op = "load" =>
                 mem'.result = isa.memory[Address(isa, alu.inst)]
<1> USE DEF Inv
<1>1. memory' = Stored(memory, mem) BY DEF Clock, MemClock, Stored
<1>2. \A m : Stored(m, mem') = Stored(m, MemAccess)
  <2>1. mem' = IF MemAccess.op = "load"
               THEN [MemAccess EXCEPT !.result = memory'[MemAccess.address]]
               ELSE MemAccess
      BY DEF Clock, MemClock
  <2>2. MemAccess \in [op : {"none", "load", "store"}, rd : Dest,
                       address : Word, data : Word, result : Word]
      BY AccessTypes
  <2>3. MemAccess.op = "load" => mem'.op = "load" BY <2>1, <2>2
  <2>4. MemAccess.op # "load" => mem' = MemAccess BY <2>1
  <2> QED BY <2>3, <2>4 DEF Stored
<1>3. \A m \in Memory : Stored(Stored(m, MemAccess), MemAccess) = Stored(m, MemAccess)
  <2>1. MemAccess.address \in Word BY AccessTypes
  <2> QED BY <2>1 DEF Stored, Memory
<1>4. isa.memory \in Memory BY DEF TypeOK, State
<1>5. MemAccess.op # "store" => \A m : Stored(m, MemAccess) = m BY DEF Stored
<1>6. /\ MemAccess.op = "store" =>
           ConditionPassed /\ alu.inst # Bubble /\ alu.inst.class = "store"
      /\ MemAccess.op = "load" =>
           ConditionPassed /\ alu.inst # Bubble /\ alu.inst.class = "load"
    BY DEF MemAccess, NoAccess, ConditionPassed
<1>7. MemAccess.op # "store" => memory' = isa.memory
    BY <1>1, <1>5 DEF MemoryAgrees
<1>8. Stored(memory', mem') = Stored(isa.memory, MemAccess)
  <2>1. CASE Stored(memory, mem) = isa.memory BY <2>1, <1>1, <1>2
  <2>2. CASE Stored(memory, mem) = Stored(isa.memory, MemAccess)
      BY <2>2, <1>1, <1>2, <1>3, <1>4
  <2> QED BY <2>1, <2>2 DEF MemoryAgrees
<1>9. MemoryAgrees'
  <2>1. CASE Completes
    <3>1. isa'.memory = Stored(isa.memory, MemAccess)
      <4>1. CASE ConditionPassed /\ alu.inst.class = "store"
          BY <4>1, <2>1, IsaStep
      <4>2. CASE ~(ConditionPassed /\ alu.inst.class = "store")
        <5>1. isa'.memory = isa.memory BY <4>2, <2>1, IsaStep
        <5> QED BY <5>1, <4>2, <1>5, <1>6
      <4> QED BY <4>1, <4>2
    <3> QED BY <3>1, <1>8 DEF MemoryAgrees
  <2>2. CASE ~Completes /\ alu.inst = Bubble
    <3>1. isa' = isa BY <2>2, IsaStep
    <3>2. MemAccess.op # "store" BY <2>2, <1>6
    <3> QED BY <3>1, <3>2, <1>5, <1>8 DEF MemoryAgrees
  <2>3. CASE ~Completes /\ alu.inst # Bubble
    <3>1. isa' = isa BY <2>3, IsaStep
    <3>2. ConditionPassed /\ ~AluAccepts BY <2>3 DEF Completes, AluAccepts
    <3>3. alu' = alu
      <4>1. /\ alu'.inst = alu.inst /\ alu'.a = alu.a /\ alu'.b = alu.b
            /\ alu'.acc = alu.acc /\ alu'.cp = alu.cp
          BY <2>3, <3>2 DEF Clock, AluClock, Flush
      <4>2. alu' = [inst |-> alu'.inst, a |-> alu'.a, b |-> alu'.b,
                    acc |-> alu'.acc, cp |-> alu'.cp]
          BY DEF Clock, AluClock
      <4>3. alu = [inst |-> alu.inst, a |-> alu.a, b |-> alu.b,
                   acc |-> alu.acc, cp |-> alu.cp]
          BY DEF TypeOK
      <4> QED BY <4>1, <4>2, <4>3
    <3>4. ConditionPassed' /\ MemAccess' = MemAccess
        BY <3>2, <3>3 DEF ConditionPassed, MemAccess, MemRd, AluResult, AluOp1, AluOp2
    <3> QED BY <3>1, <3>4, <1>8 DEF MemoryAgrees
  <2> QED BY <2>1, <2>2, <2>3
<1>10. ASSUME MemAccess.op = "load"
       PROVE  mem'.result = isa.memory[Address(isa, alu.inst)]
  <2>1. MemAccess = [op |-> "load", rd |-> MemRd,
                     address |-> IF alu.inst.pre THEN AluResult ELSE AluOp1,
                     data |-> alu.b, result |-> 0]
      BY <1>6, <1>10 DEF MemAccess
  <2>2. mem'.result = memory'[MemAccess.address]
      BY <2>1 DEF Clock, MemClock
  <2>3. MemAccess.address = Address(isa, alu.inst)
      BY <1>6, <1>10, <2>1, AluAgrees DEF Address
  <2> QED BY <2>2, <2>3, <1>7, <1>10
<1> QED BY <1>9, <1>10

-----------------------------------------------------------------------------
(* The registers: which write is done in a clock, and which ones wait.     *)
LEMMA RegisterStep ==
    ASSUME Inv, NEW offer, Clock(offer)
    PROVE  RegistersAgree'
<1> USE DEF Inv
<1> SUFFICES ASSUME NEW r \in Reg PROVE Settled(r)' = isa'.regs[r]
    BY DEF RegistersAgree
<1>1. r # "none" /\ \A x \in Reg : x # "none" /\ x # "pc" /\ x # "eq" /\ x # "ne"
    BY IsaAssumption DEF NotRegisters
<1>2. Settled(r) = isa.regs[r] BY DEF RegistersAgree
<1>3. /\ rf'.mem_rd = mem.rd
      /\ rf'.mem_result = mem.result
      /\ rf'.alu_rd = IF rf.accepting_alu_rd THEN AluRd ELSE rf.alu_rd
      /\ rf'.alu_result = IF ~rf.accepting_alu_rd THEN rf.alu_result
                          ELSE IF AluRd = "none" THEN 0 ELSE AluResult
    BY DEF Clock, RfClock
<1>4. mem'.rd = MemRd
  <2>1. mem' = IF MemAccess.op = "load"
               THEN [MemAccess EXCEPT !.result = memory'[MemAccess.address]]
               ELSE MemAccess
      BY DEF Clock, MemClock
  <2> QED BY <2>1, AccessTypes
<1>5. regs'[r] = IF WriteRd = r THEN WriteData ELSE regs[r]
    BY DEF Clock, WriteClock, TypeOK
(* A load that passes leaves the memory with the value of the unpipelined  *)
(* machine, an ALU result that passes is its result.                       *)
<1>6. ASSUME MemRd = r
      PROVE  Completes /\ mem'.result = isa'.regs[r]
  <2>1. ConditionPassed /\ alu.inst # Bubble /\ alu.inst.class = "load" /\ alu.inst.rd = r
      BY <1>1, <1>6 DEF MemRd, ConditionPassed
  <2>2. Completes BY <2>1 DEF Completes, AluAccepts
  <2>3. MemAccess.op = "load" BY <1>1, <1>6, AccessTypes
  <2>4. mem'.result = isa.memory[Address(isa, alu.inst)] BY <2>3, MemoryStep
  <2>5. isa'.regs[r] = Written(isa, alu.inst) BY <2>1, <2>2, IsaStep
  <2> QED BY <2>1, <2>2, <2>4, <2>5 DEF Written
<1>7. ASSUME rf.accepting_alu_rd, AluRd = r
      PROVE  isa'.regs[r] = AluResult
  <2>1. ConditionPassed /\ alu.inst # Bubble /\ alu.inst.class # "load" /\ alu.inst.rd = r
      BY <1>1, <1>7 DEF AluRd, ConditionPassed
  <2>2. Completes BY <1>7, <2>1 DEF Completes, AluAccepts
  <2>3. isa'.regs[r] = Written(isa, alu.inst) BY <2>1, <2>2, IsaStep
  <2> QED BY <2>1, <2>3, AluAgrees DEF Written
<1>8. ASSUME MemRd # r, rf.accepting_alu_rd => AluRd # r
      PROVE  isa'.regs[r] = isa.regs[r]
  <2>1. CASE ~Completes BY <2>1, IsaStep
  <2>2. CASE Completes /\ ~ConditionPassed BY <2>2, IsaStep
  <2>3. CASE Completes /\ ConditionPassed /\ alu.inst.rd \notin Reg BY <2>3, IsaStep
  <2>4. CASE Completes /\ ConditionPassed /\ alu.inst.rd \in Reg
    <3>1. alu.inst.class # "load" => rf.accepting_alu_rd
        BY <2>4 DEF Completes, AluAccepts
    <3>2. alu.inst.rd # r BY <3>1, <1>8, <2>4 DEF MemRd, AluRd
    <3> QED BY <3>2, <2>4, IsaStep
  <2> QED BY <2>1, <2>2, <2>3, <2>4
<1>9. CASE rf.accepting_alu_rd
  <2>1. regs'[r] = IF rf.alu_rd = r THEN rf.alu_result
                   ELSE IF rf.mem_rd = r THEN rf.mem_result ELSE regs[r]
      BY <1>1, <1>5, <1>9 DEF Shape, WriteRd, WriteData
  <2>2. isa.regs[r] = IF mem.rd = r THEN mem.result ELSE regs'[r]
      BY <1>2, <2>1 DEF Settled
  <2>3. CASE MemRd = r BY <2>3, <1>4, <1>6 DEF Settled
  <2>4. CASE MemRd # r /\ AluRd = r
    <3>1. AluRd # "none" BY <2>4, <1>1
    <3> QED BY <2>4, <3>1, <1>3, <1>4, <1>7, <1>9 DEF Settled
  <2>5. CASE MemRd # r /\ AluRd # r
    <3>1. Settled(r)' = IF mem.rd = r THEN mem.result ELSE regs'[r]
        BY <2>5, <1>3, <1>4, <1>9 DEF Settled
    <3> QED BY <3>1, <2>2, <2>5, <1>8
  <2> QED BY <2>3, <2>4, <2>5
<1>10. CASE ~rf.accepting_alu_rd
  <2>1. mem.rd = "none" /\ rf.mem_rd # "none"
      BY <1>10 DEF Shape, BlockedOnce
  <2>2. regs'[r] = IF rf.mem_rd = r THEN rf.mem_result ELSE regs[r]
      BY <1>5, <2>1 DEF WriteRd, WriteData
  <2>3. isa.regs[r] = IF rf.alu_rd = r THEN rf.alu_result ELSE regs'[r]
      BY <1>1, <1>2, <2>1, <2>2 DEF Settled
  <2>4. CASE MemRd = r BY <2>4, <1>4, <1>6 DEF Settled
  <2>5. CASE MemRd # r
    <3>1. Settled(r)' = IF rf.alu_rd = r THEN rf.alu_result ELSE regs'[r]
        BY <1>1, <1>3, <1>4, <1>10, <2>1, <2>5 DEF Settled
    <3> QED BY <3>1, <2>3, <2>5, <1>8, <1>10
  <2> QED BY <2>4, <2>5
<1> QED BY <1>9, <1>10

(* A register that is not waited for: the port gives what the instruction  *)
(* now in the ALU leaves in the register.                                  *)
LEMMA PortFresh ==
    ASSUME Inv, NEW offer, Clock(offer), NEW r \in Reg, ~NotReady(r)
    PROVE  ReadPort(r) = isa'.regs[r]
<1> USE DEF Inv
<1>1. /\ alu.inst # Bubble => alu.inst.rd # r
      /\ mem.rd # r
      /\ rf.mem_rd = "none" \/ rf.alu_rd # r
    BY DEF NotReady
<1>2. r # "none" BY IsaAssumption DEF NotRegisters
<1>3. Settled(r) = isa.regs[r] BY DEF RegistersAgree
<1>4. ReadPort(r) = Settled(r) BY <1>1, <1>2 DEF ReadPort, Settled
<1>5. isa'.regs[r] = isa.regs[r]
  <2>1. CASE ~Completes BY <2>1, IsaStep
  <2>2. CASE Completes /\ ~ConditionPassed BY <2>2, IsaStep
  <2>3. CASE Completes /\ ConditionPassed /\ alu.inst.rd \notin Reg BY <2>3, IsaStep
  <2>4. CASE Completes /\ ConditionPassed /\ alu.inst.rd \in Reg
    <3>1. alu.inst # Bubble BY <2>4 DEF Completes
    <3> QED BY <3>1, <1>1, <2>4, IsaStep
  <2> QED BY <2>1, <2>2, <2>3, <2>4
<1> QED BY <1>3, <1>4, <1>5

LEMMA OperandStep ==
    ASSUME Inv, NEW offer, Clock(offer)
    PROVE  OperandsFresh'
<1> USE DEF Inv
<1>1. alu'.acc = isa'.acc /\ alu'.cp = isa'.cp
  <2>1. CASE Completes BY <2>1, IsaStep
  <2>2. CASE ~Completes
    <3>1. isa' = isa BY <2>2, IsaStep
    <3>2. alu'.acc = alu.acc /\ alu'.cp = alu.cp
        BY <2>2 DEF Clock, AluClock
    <3> QED BY <3>1, <3>2 DEF OperandsFresh
  <2> QED BY <2>1, <2>2
<1>2. ASSUME alu'.inst # Bubble
      PROVE  /\ alu'.a = Port(isa', alu'.inst, alu'.inst.rn)
             /\ alu'.b = PortB(isa', alu'.inst)
  <2>1. CASE AluAccepts
    <3>1. ~Flush /\ ~Held /\ rf.inst # Bubble /\ alu'.inst = rf.inst
        BY <1>2, <2>1 DEF Clock, AluClock
    <3>2. /\ alu'.a = ReadPort(rf.inst.rn)
          /\ alu'.b = IF rf.inst.rm = "imm" THEN rf.inst.imm ELSE ReadPort(rf.inst.rm)
        BY <2>1, <3>1 DEF Clock, AluClock
    <3>3. \A r \in {rf.inst.rn, rf.inst.rm} \cap Reg : ReadPort(r) = isa'.regs[r]
        BY <3>1, PortFresh DEF Held
    <3>4. \A r : r \notin Reg => ReadPort(r) = rf.inst.pc
        BY DEF ReadPort
    <3>5. alu'.a = Port(isa', alu'.inst, alu'.inst.rn)
        BY <3>1, <3>2, <3>3, <3>4 DEF Port
    <3>6. alu'.b = PortB(isa', alu'.inst)
        BY <3>1, <3>2, <3>3, <3>4 DEF Port, PortB
    <3> QED BY <3>5, <3>6
  <2>2. CASE ~AluAccepts
    <3>1. alu'.inst = alu.inst /\ alu'.a = alu.a /\ alu'.b = alu.b
        BY <2>2 DEF Clock, AluClock, Flush
    <3>2. isa' = isa BY <2>2 DEF Clock, Completes
    <3> QED BY <1>2, <3>1, <3>2 DEF OperandsFresh
  <2> QED BY <2>1, <2>2
<1> QED BY <1>1, <1>2 DEF OperandsFresh

-----------------------------------------------------------------------------
(* A clock with any instruction offered.                                   *)
LEMMA ClockInv ==
    ASSUME Inv, NEW offer \in Instruction \cup {Bubble}, Clock(offer)
    PROVE  Inv'
<1>1. TypeOK' BY TypeStep DEF Inv
<1>2. Shape' /\ BlockedOnce' BY ShapeStep DEF Inv
<1>3. OperandsFresh' BY OperandStep
<1>4. RegistersAgree' BY RegisterStep
<1>5. MemoryAgrees' BY MemoryStep
<1> QED BY <1>1, <1>2, <1>3, <1>4, <1>5 DEF Inv

LEMMA InvStutter == Inv /\ UNCHANGED vars => Inv'
BY DEF Inv, vars, TypeOK, Shape, BlockedOnce, OperandsFresh, RegistersAgree,
   Settled, MemoryAgrees, ConditionPassed, MemAccess, MemRd, AluResult, AluOp1, AluOp2

LEMMA InvStep == Inv /\ [Next]_vars => Inv'
<1> SUFFICES ASSUME Inv, Next PROVE Inv' BY InvStutter
<1> PICK offer \in Offered \cup {Bubble} : Clock(offer) BY DEF Next
<1> QED BY ClockInv, OfferedAssumption

LEMMA Invariance == Spec => []Inv
<1> QED BY InitInv, InvStep, PTL DEF Spec

(* Every variable stays in its type.                                       *)
THEOREM PipelineTypeCorrect == Spec => []TypeOK
<1>1. Inv => TypeOK BY DEF Inv
<1> QED BY <1>1, Invariance, PTL

(* Whatever the pipeline overlaps, each instruction in the ALU works on    *)
(* the values the unpipelined machine would give it.                       *)
THEOREM OperandsAreFresh == Spec => []OperandsFresh
<1>1. Inv => OperandsFresh BY DEF Inv
<1> QED BY <1>1, Invariance, PTL

(* The registers become those of the unpipelined machine: no write is      *)
(* lost, repeated or overtaken.                                            *)
THEOREM RegistersBecomeIsa == Spec => []RegistersAgree
<1>1. Inv => RegistersAgree BY DEF Inv
<1> QED BY <1>1, Invariance, PTL

(* The memory becomes that of the unpipelined machine.                     *)
THEOREM MemoryBecomesIsa == Spec => []MemoryAgrees
<1>1. Inv => MemoryAgrees BY DEF Inv
<1> QED BY <1>1, Invariance, PTL

(* An instruction is blocked by the write port for one clock at most.      *)
THEOREM BlocksOneClock == Spec => []BlockedOnce
<1>1. Inv => BlockedOnce BY DEF Inv
<1> QED BY <1>1, Invariance, PTL

-----------------------------------------------------------------------------
(* The decoder.                                                            *)

LEMMA CoreWords == /\ 0 \in Word
                   /\ \A x, y \in Word : Add(x, y) \in Word
                   /\ \A x \in Word : Add(x, 4) \in Word /\ Add(x, 1) \in Word
<1>1. \A k \in Int : k % WordSize \in 0 .. WordSize - 1
    BY IsaAssumption
<1> QED BY <1>1, IsaAssumption DEF Word, Add

(* Every opcode of a program decodes to an instruction.                    *)
LEMMA DecodedInstruction ==
    ASSUME NEW o \in Opcode, NEW d, d.pc \in Word, d.ext \in Reg \cup {"pc", NoDest}
    PROVE  DecodeInst(d, o) \in Instruction
<1>1. Ahead(d.pc) \in Word /\ 0 \in Word BY CoreWords DEF Ahead
<1>2. /\ o.op \in {"mov", "add", "sub"} /\ o.rd \in Reg \cup {"pc"}
      /\ o.rm \in Reg \cup {"acc", "imm"} /\ o.imm \in Word
      /\ o.kind = "load" => o.rm # "imm"
    BY DEF Opcode
<1>3. Nop(d) \in Instruction BY <1>1 DEF Nop, Instruction
<1>4. /\ MapRd(d, o.rd) \in Reg \cup {"pc"}
      /\ MapRn(o.rd) \in Reg \cup {"acc"}
      /\ \A b : Cc(b) \in {"always", "cp"}
    BY <1>2 DEF MapRd, MapRn, Cc, NoDest
<1>5. DecodeAlu(d, o) \in Instruction
    BY <1>1, <1>2, <1>4 DEF DecodeAlu, Nop, Instruction
<1>6. DecodeCond(d, o) \in Instruction
    BY <1>1, <1>2, <1>4 DEF DecodeCond, Nop, Instruction
<1>7. o.kind = "load" => DecodeLoad(d, o) \in Instruction
    BY <1>1, <1>2, <1>4 DEF DecodeLoad, Nop, Instruction
<1>8. DecodeStore(d, o) \in Instruction
    BY <1>1, <1>2, <1>4 DEF DecodeStore, Nop, Instruction
<1>9. DecodeBranch(d, o) \in Instruction
    BY <1>1, <1>2 DEF DecodeBranch, Nop, Instruction
<1> QED BY <1>3, <1>5, <1>6, <1>7, <1>8, <1>9 DEF DecodeInst

LEMMA CurrentTypes ==
    ASSUME CoreTypeOK
    PROVE  CurrentOpcode \in Opcode /\ DecInst \in Instruction \cup {Bubble}
<1>1. CurrentOpcode \in Opcode BY DEF CoreTypeOK, CurrentOpcode
<1>2. DecodeInst(dec, CurrentOpcode) \in Instruction
    BY <1>1, DecodedInstruction DEF CoreTypeOK
<1> QED BY <1>1, <1>2 DEF DecInst

LEMMA DecoderStep ==
    ASSUME TypeOK, CoreTypeOK, CoreNext
    PROVE  CoreTypeOK'
<1> DEFINE o == CurrentOpcode
           next == DecodeNext(dec, o)
<1>1. o \in Opcode BY CurrentTypes
<1>2. o.imm \in Word /\ o.rd \in Reg \cup {"pc"} BY <1>1 DEF Opcode
<1>3. dec.pc \in Word /\ dec.delay_pc \in Word /\ Ahead(dec.pc) \in Word
      /\ Add(dec.pc, 1) \in Word /\ 0 \in Word
    BY CoreWords DEF CoreTypeOK, Ahead
<1>4. Add(Ahead(dec.pc), o.imm) \in Word BY <1>2, <1>3, CoreWords
<1>5. /\ next.pc \in Word /\ next.delay_pc \in Word
      /\ next.ext \in Reg \cup {"pc", NoDest}
    BY <1>2, <1>3, <1>4 DEF DecodeNext
<1> HIDE DEF next, o
<1>6. WriteData \in Word BY DEF WriteData, TypeOK
<1>7. dec'.pc \in Word BY <1>3, <1>5, <1>6 DEF CoreNext, DecClock, next, o
<1>8. dec'.delay_pc \in Word BY <1>3, <1>5 DEF CoreNext, DecClock, next, o
<1>9. dec'.ext \in Reg \cup {"pc", NoDest}
    BY <1>5 DEF CoreNext, DecClock, CoreTypeOK, next, o
<1>10. dec'.word \in Nat /\ 2 * dec'.word \in Word
  <2>1. \A k \in Nat : k \div 2 \in Nat /\ 2 * (k \div 2) =< k OBVIOUS
  <2>2. dec.pc \in Nat /\ \A k \in Nat : k =< dec.pc => k \in Word
      BY <1>3, IsaAssumption DEF Word
  <2>3. dec'.word = IF dec.valid THEN dec.pc \div 2 ELSE dec.word
      BY DEF CoreNext, DecClock
  <2>4. dec.pc \div 2 \in Nat /\ 2 * (dec.pc \div 2) \in Word
    <3>1. dec.pc \div 2 \in Nat /\ 2 * (dec.pc \div 2) =< dec.pc BY <2>1, <2>2
    <3>2. 2 * (dec.pc \div 2) \in Nat BY <3>1
    <3> QED BY <3>1, <3>2, <2>2
  <2> QED BY <2>3, <2>4 DEF CoreTypeOK
<1>11. code' \in [Word -> Opcode] BY DEF CoreNext, CoreTypeOK
<1>12. {dec'.valid, dec'.follow, dec'.shadow, dec'.immediate} \subseteq BOOLEAN
    BY DEF CoreNext, DecClock, CoreTypeOK, DecodeNext, Taken, WritePc
<1> QED BY <1>7, <1>8, <1>9, <1>10, <1>11, <1>12 DEF CoreTypeOK

LEMMA DecoderInit == Programs \subseteq [Word -> Opcode] /\ CoreInit => CoreTypeOK
<1> QED BY CoreWords DEF CoreInit, CoreTypeOK

LEMMA CoreInvariance ==
    ASSUME Programs \subseteq [Word -> Opcode]
    PROVE  CoreSpec => [](Inv /\ CoreTypeOK)
<1>1. CoreInit => Inv /\ CoreTypeOK
    BY InitInv, DecoderInit DEF CoreInit
<1>2. Inv /\ CoreTypeOK /\ [CoreNext]_coreVars => (Inv /\ CoreTypeOK)'
  <2> SUFFICES ASSUME Inv, CoreTypeOK, [CoreNext]_coreVars
               PROVE  (Inv /\ CoreTypeOK)'
      OBVIOUS
  <2>1. CASE CoreNext
    <3>1. Clock(DecInst) BY <2>1 DEF CoreNext
    <3>2. Inv' BY <3>1, CurrentTypes, ClockInv
    <3> QED BY <2>1, <3>2, DecoderStep DEF Inv
  <2>2. CASE UNCHANGED coreVars
    <3>1. Inv' BY <2>2, InvStutter DEF coreVars
    <3> QED BY <2>2, <3>1 DEF coreVars, CoreTypeOK
  <2> QED BY <2>1, <2>2
<1> QED BY <1>1, <1>2, PTL DEF CoreSpec

(* The decoder never leaves the program it decodes: a pc, a delay slot's   *)
(* target and the word read last are always within it.                     *)
THEOREM DecoderTypeCorrect ==
    ASSUME Programs \subseteq [Word -> Opcode]
    PROVE  CoreSpec => []CoreTypeOK
BY CoreInvariance, PTL

(* One step of the core is one step of the back end.                       *)
LEMMA CoreStep ==
    ASSUME Offered = Instruction, CoreTypeOK, [CoreNext]_coreVars
    PROVE  [Next]_vars
<1>1. CASE CoreNext
  <2>1. DecInst \in Offered \cup {Bubble} BY CurrentTypes
  <2>2. Clock(DecInst) BY <1>1 DEF CoreNext
  <2> QED BY <2>1, <2>2 DEF Next
<1>2. CASE UNCHANGED coreVars BY <1>2 DEF coreVars
<1> QED BY <1>1, <1>2

(* Running any program, the core takes only steps of the back end: the     *)
(* decoder offers it instructions, one in a clock at most.                 *)
THEOREM CoreImplementsBackEnd ==
    ASSUME Offered = Instruction, Programs \subseteq [Word -> Opcode]
    PROVE  CoreSpec => Spec
<1>1. CoreInit => Init BY DEF CoreInit
<1>2. Inv /\ CoreTypeOK /\ [CoreNext]_coreVars => [Next]_vars BY CoreStep
<1> QED BY <1>1, <1>2, CoreInvariance, PTL DEF CoreSpec, Spec

(* So the operands, the registers and the memory of the core running any   *)
(* program are those of the unpipelined machine.                           *)
THEOREM CoreAgreesWithIsa ==
    ASSUME Programs \subseteq [Word -> Opcode]
    PROVE  CoreSpec => [](OperandsFresh /\ RegistersAgree /\ MemoryAgrees)
<1>1. Inv => OperandsFresh /\ RegistersAgree /\ MemoryAgrees BY DEF Inv
<1> QED BY <1>1, CoreInvariance, PTL

-----------------------------------------------------------------------------
(* The write of the pc.                                                    *)

(* The decoder's part of a clock, field by field.                          *)
LEMMA DecoderFields ==
    ASSUME CoreNext
    PROVE  /\ dec'.valid <=> IF Flush THEN WritePc ELSE dec.valid \/ WritePc
           /\ dec'.pc = IF WritePc THEN WriteData
                        ELSE IF RfAccepts /\ dec.valid
                        THEN DecodeNext(dec, CurrentOpcode).pc ELSE dec.pc
           /\ dec'.ext = IF Flush THEN NoDest
                         ELSE IF RfAccepts THEN DecodeNext(dec, CurrentOpcode).ext
                         ELSE dec.ext
           /\ dec'.delay_pc = IF RfAccepts THEN DecodeNext(dec, CurrentOpcode).delay_pc
                              ELSE dec.delay_pc
           /\ dec'.follow <=> IF RfAccepts
                              THEN DecodeNext(dec, CurrentOpcode).follow /\ ~Flush
                              ELSE dec.follow
           /\ dec'.shadow <=> /\ ~Flush
                              /\ IF RfAccepts THEN DecodeNext(dec, CurrentOpcode).shadow
                                 ELSE dec.shadow
           /\ dec'.immediate <=> IF RfAccepts
                                 THEN DecodeNext(dec, CurrentOpcode).immediate /\ ~Flush
                                 ELSE dec.immediate
BY DEF CoreNext, DecClock

(* Which writes of the pc are under way after a clock.                     *)
LEMMA WritesInStep ==
    ASSUME Inv, NEW offer, Clock(offer)
    PROVE  /\ mem'.rd = MemRd
           /\ rf'.mem_rd = mem.rd /\ rf'.mem_result = mem.result
           /\ rf'.alu_rd = IF rf.accepting_alu_rd THEN AluRd ELSE rf.alu_rd
           /\ rf'.alu_result = IF ~rf.accepting_alu_rd THEN rf.alu_result
                               ELSE IF AluRd = "none" THEN 0 ELSE AluResult
           /\ rf'.inst = IF Flush THEN Bubble
                         ELSE IF RfAccepts THEN offer ELSE rf.inst
           /\ alu'.inst = IF Flush THEN Bubble
                          ELSE IF ~AluAccepts THEN alu.inst
                          ELSE IF Held THEN Bubble ELSE rf.inst
<1>1. mem' = IF MemAccess.op = "load"
             THEN [MemAccess EXCEPT !.result = memory'[MemAccess.address]]
             ELSE MemAccess
    BY DEF Clock, MemClock
<1>2. mem'.rd = MemRd BY <1>1, AccessTypes DEF Inv
<1>3. alu'.inst = IF Flush THEN Bubble
                  ELSE IF ~AluAccepts THEN alu.inst
                  ELSE IF Held THEN Bubble ELSE rf.inst
    BY DEF Clock, AluClock
<1> QED BY <1>2, <1>3 DEF Clock, RfClock

(* An instruction that jumps flushes the pipeline, and no other does.      *)
Flushes(i) == i # Bubble => (i.rd = "pc" <=> i.f)

(* While the pc is valid no write of it is under way; while it is not, one *)
(* is, in a pipeline that is empty.                                        *)
PcPhase ==
    IF dec.valid THEN mem.rd # "pc" /\ rf.mem_rd # "pc" /\ rf.alu_rd # "pc"
    ELSE /\ rf.inst = Bubble /\ alu.inst = Bubble
         /\ \/ mem.rd = "pc" /\ rf.mem_rd # "pc" /\ rf.alu_rd # "pc"
            \/ mem.rd # "pc" /\ rf.mem_rd = "pc" /\ rf.alu_rd # "pc"
            \/ mem.rd # "pc" /\ rf.mem_rd # "pc" /\ rf.alu_rd = "pc"

LEMMA PhaseStep ==
    ASSUME Inv, PcPhase, CoreNext,
           ConditionPassed => (alu.inst.rd = "pc" <=> alu.inst.f)
    PROVE  PcPhase'
<1>1. Clock(DecInst) BY DEF CoreNext
<1> USE WritesInStep, <1>1
<1>2. dec'.valid <=> IF Flush THEN WritePc ELSE dec.valid \/ WritePc
    BY DecoderFields
<1>3. WriteRd = IF rf.mem_rd # "none" THEN rf.mem_rd ELSE rf.alu_rd BY DEF WriteRd
<1>4. WritePc <=> WriteRd = "pc" BY DEF WritePc
<1>5. CASE dec.valid
  <2>1. mem.rd # "pc" /\ rf.mem_rd # "pc" /\ rf.alu_rd # "pc" BY <1>5 DEF PcPhase
  <2>2. ~WritePc BY <2>1, <1>3, <1>4
  <2>3. CASE Flush
    <3>1. ~dec'.valid BY <2>2, <2>3, <1>2
    <3>2. rf'.inst = Bubble /\ alu'.inst = Bubble BY <2>3
    <3>3. ConditionPassed /\ AluAccepts /\ alu.inst.rd = "pc" BY <2>3 DEF Flush
    <3>4. CASE alu.inst.class = "load"
      <4>1. MemRd = "pc" /\ AluRd = "none" BY <3>3, <3>4 DEF MemRd, AluRd
      <4> QED BY <4>1, <3>1, <3>2, <2>1 DEF PcPhase
    <3>5. CASE alu.inst.class # "load"
      <4>1. MemRd = "none" /\ AluRd = "pc" BY <3>3, <3>5 DEF MemRd, AluRd
      <4>2. rf.accepting_alu_rd BY <3>3, <3>5 DEF AluAccepts
      <4> QED BY <4>1, <4>2, <3>1, <3>2, <2>1 DEF PcPhase
    <3> QED BY <3>4, <3>5
  <2>4. CASE ~Flush
    <3>1. dec'.valid BY <2>4, <1>2, <1>5
    <3>2. MemRd # "pc"
      <4> SUFFICES ASSUME MemRd = "pc" PROVE FALSE OBVIOUS
      <4>1. ConditionPassed /\ alu.inst.class = "load" /\ alu.inst.rd = "pc" BY DEF MemRd
      <4> QED BY <4>1, <2>4 DEF Flush, AluAccepts
    <3>3. rf.accepting_alu_rd => AluRd # "pc"
      <4> SUFFICES ASSUME rf.accepting_alu_rd, AluRd = "pc" PROVE FALSE OBVIOUS
      <4>1. ConditionPassed /\ alu.inst.rd = "pc" BY DEF AluRd
      <4> QED BY <4>1, <2>4 DEF Flush, AluAccepts
    <3> QED BY <3>1, <3>2, <3>3, <2>1 DEF PcPhase
  <2> QED BY <2>3, <2>4
<1>6. CASE ~dec.valid
  <2>1. rf.inst = Bubble /\ alu.inst = Bubble BY <1>6 DEF PcPhase
  <2>2. ~ConditionPassed BY <2>1 DEF ConditionPassed
  <2>3. ~Flush /\ AluRd = "none" /\ MemRd = "none" /\ DecInst = Bubble
      BY <1>6, <2>2 DEF Flush, AluRd, MemRd, DecInst
  <2>4. rf'.inst = Bubble /\ alu'.inst = Bubble BY <2>1, <2>3
  <2>5. CASE WritePc
    <3>1. dec'.valid BY <2>3, <2>5, <1>2
    <3>2. mem'.rd # "pc" BY <2>3
    <3>3. rf.mem_rd = "pc" \/ (rf.mem_rd = "none" /\ rf.alu_rd = "pc")
        BY <2>5 DEF WritePc, WriteRd
    <3>4. mem.rd # "pc"
      <4>1. \/ mem.rd # "pc"
            \/ rf.mem_rd # "pc" /\ rf.alu_rd # "pc"
          BY <1>6 DEF PcPhase
      <4> QED BY <4>1, <3>3
    <3>5. CASE rf.mem_rd = "pc"
      <4>1. rf.alu_rd # "pc" BY <3>5, <1>6 DEF PcPhase
      <4> QED BY <4>1, <3>1, <3>2, <3>4, <2>3 DEF PcPhase
    <3>6. CASE rf.mem_rd = "none" /\ rf.alu_rd = "pc"
      <4>1. rf.accepting_alu_rd BY <3>6 DEF Inv, Shape
      <4> QED BY <4>1, <3>1, <3>2, <3>4, <2>3 DEF PcPhase
    <3> QED BY <3>3, <3>5, <3>6
  <2>6. CASE ~WritePc
    <3>1. ~dec'.valid BY <2>3, <2>6, <1>2, <1>6
    <3>2. rf.mem_rd # "pc" BY <2>6, <1>3, <1>4
    <3>3. CASE mem.rd = "pc"
      <4>1. rf.alu_rd # "pc" BY <3>3, <1>6 DEF PcPhase
      <4> QED BY <4>1, <3>1, <3>3, <2>3, <2>4 DEF PcPhase
    <3>4. CASE mem.rd # "pc"
      <4>1. rf.alu_rd = "pc" BY <3>2, <3>4, <1>6 DEF PcPhase
      <4>2. rf.mem_rd # "none" BY <4>1, <2>6, <1>3, <1>4
      <4>3. ~rf.accepting_alu_rd BY <4>1, <4>2 DEF Inv, Shape
      <4> QED BY <4>1, <4>3, <3>1, <3>4, <2>3, <2>4 DEF PcPhase
    <3> QED BY <3>3, <3>4
  <2> QED BY <2>5, <2>6
<1> QED BY <1>5, <1>6

LEMMA PhaseWritesWhenEmpty == PcPhase => PcWrittenWhenEmpty
BY DEF PcPhase, PcWrittenWhenEmpty, WritePc, WriteRd

(* Whatever is decoded to an instruction that writes the pc flushes, and   *)
(* nothing else does.                                                      *)
LEMMA DecodedJump ==
    ASSUME NEW o, NEW d
    PROVE  DecodeInst(d, o).f <=> DecodeInst(d, o).rd = "pc"
<1>1. DecodeAlu(d, o).f <=> DecodeAlu(d, o).rd = "pc" BY DEF DecodeAlu, Nop
<1>2. DecodeLoad(d, o).f <=> DecodeLoad(d, o).rd = "pc" BY DEF DecodeLoad, Nop
<1>3. ~DecodeCond(d, o).f /\ DecodeCond(d, o).rd # "pc" BY DEF DecodeCond, Nop
<1>4. DecodeStore(d, o).f <=> DecodeStore(d, o).rd = "pc" BY DEF DecodeStore, Nop
<1>5. DecodeBranch(d, o).f <=> DecodeBranch(d, o).rd = "pc" BY DEF DecodeBranch, Nop
<1>6. ~Nop(d).f /\ Nop(d).rd # "pc" BY DEF Nop
<1> QED BY <1>1, <1>2, <1>3, <1>4, <1>5, <1>6 DEF DecodeInst

PhaseInv == Flushes(rf.inst) /\ Flushes(alu.inst) /\ PcPhase

LEMMA PhaseInvStep ==
    ASSUME Inv, CoreTypeOK, PhaseInv, CoreNext
    PROVE  PhaseInv'
<1>1. Clock(DecInst) BY DEF CoreNext
<1>2. Flushes(DecInst)
  <2>1. Flushes(DecodeInst(dec, CurrentOpcode)) BY DecodedJump DEF Flushes
  <2> QED BY <2>1 DEF DecInst, Flushes
<1>3. Flushes(Bubble) BY DEF Flushes
<1>4. Flushes(rf.inst)' BY <1>1, <1>2, <1>3, WritesInStep DEF PhaseInv, Flushes
<1>5. Flushes(alu.inst)' BY <1>1, <1>3, WritesInStep DEF PhaseInv, Flushes
<1>6. PcPhase'
    BY PhaseStep DEF PhaseInv, Flushes, ConditionPassed
<1> QED BY <1>4, <1>5, <1>6 DEF PhaseInv

LEMMA PhaseInvInit ==
    ASSUME CoreInit
    PROVE  PhaseInv
BY DEF CoreInit, Init, NoAccess, PhaseInv, Flushes, PcPhase

(* The pc is written into an empty pipeline while the decoder waits for    *)
(* it, whatever its value took: no flush follows and takes the new path    *)
(* away.                                                                   *)
THEOREM PcIsWrittenWhenEmpty ==
    ASSUME Programs \subseteq [Word -> Opcode]
    PROVE  CoreSpec => []PcWrittenWhenEmpty
<1>1. CoreInit => PhaseInv BY PhaseInvInit
<1>2. Inv /\ CoreTypeOK /\ PhaseInv /\ [CoreNext]_coreVars => PhaseInv'
  <2> SUFFICES ASSUME Inv, CoreTypeOK, PhaseInv, [CoreNext]_coreVars PROVE PhaseInv'
      OBVIOUS
  <2>1. CASE CoreNext BY <2>1, PhaseInvStep
  <2>2. CASE UNCHANGED coreVars
      BY <2>2 DEF coreVars, vars, PhaseInv, Flushes, PcPhase
  <2> QED BY <2>1, <2>2
<1>3. PhaseInv => PcWrittenWhenEmpty BY PhaseWritesWhenEmpty DEF PhaseInv
<1> QED BY <1>1, <1>2, <1>3, CoreInvariance, PTL DEF CoreSpec

-----------------------------------------------------------------------------
(* Prefixes.                                                               *)

LEMMA Euclid ==
    ASSUME NEW v \in Int, NEW w \in Int, w > 0
    PROVE  /\ v \div w \in Int /\ v % w \in 0 .. w - 1
           /\ v = (v \div w) * w + (v % w)
OBVIOUS

(* Addresses wrap around at the end of the program.                        *)
LEMMA Wraps ==
    ASSUME NEW x \in Word, NEW k \in Word
    PROVE  Add(x, k) = IF x + k < WordSize THEN x + k ELSE x + k - WordSize
<1> DEFINE s == x + k
           q == s \div WordSize
           r == s % WordSize
<1>1. WordSize \in Int /\ WordSize > 0 /\ s \in Int /\ 0 =< s /\ s < 2 * WordSize
    BY IsaAssumption DEF Word
<1> HIDE DEF s
<1>2. q \in Int /\ r \in 0 .. WordSize - 1 /\ s = q * WordSize + r
    BY <1>1, Euclid
<1>0. s = x + k /\ Add(x, k) = r BY DEF s, r, Add
<1> HIDE DEF s, q, r
<1>3. q >= 2 => q * WordSize >= 2 * WordSize
  <2> SUFFICES ASSUME q >= 2 PROVE q * WordSize >= 2 * WordSize OBVIOUS
  <2>1. (q - 2) * WordSize >= 0 BY <1>1, <1>2
  <2>2. (q - 2) * WordSize = q * WordSize - 2 * WordSize BY <1>1, <1>2
  <2>3. q * WordSize \in Int BY <1>1, <1>2
  <2> QED BY <2>1, <2>2, <2>3, <1>1
<1>4. q =< -1 => q * WordSize =< -WordSize
  <2> SUFFICES ASSUME q =< -1 PROVE q * WordSize =< -WordSize OBVIOUS
  <2>1. (-1 - q) * WordSize >= 0 BY <1>1, <1>2
  <2>2. (-1 - q) * WordSize = -WordSize - q * WordSize BY <1>1, <1>2
  <2>3. q * WordSize \in Int BY <1>1, <1>2
  <2> QED BY <2>1, <2>2, <2>3, <1>1
<1>5. q \in {0, 1}
  <2>1. q * WordSize \in Int BY <1>1, <1>2
  <2>2. q * WordSize < 2 * WordSize /\ q * WordSize > -WordSize BY <2>1, <1>1, <1>2
  <2> QED BY <2>1, <2>2, <1>1, <1>2, <1>3, <1>4
<1>6. r = IF s < WordSize THEN s ELSE s - WordSize
  <2>1. CASE q = 0
    <3>1. q * WordSize = 0 BY <2>1, <1>1
    <3> QED BY <3>1, <1>1, <1>2
  <2>2. CASE q = 1
    <3>1. q * WordSize = WordSize BY <2>2, <1>1
    <3> QED BY <3>1, <1>1, <1>2
  <2> QED BY <2>1, <2>2, <1>5
<1>7. x + k = s /\ x \in Int /\ k \in Int BY <1>0, <1>1 DEF Word
<1> QED BY <1>0, <1>1, <1>6, <1>7

(* One address on and then k, or k + 1 on.                                 *)
LEMMA AddNext ==
    ASSUME NEW x \in Word, NEW k \in Word
    PROVE  /\ Add(x, 0) = x
           /\ k + 1 \in Word => Add(Add(x, 1), k) = Add(x, k + 1)
           /\ k + 1 = WordSize => Add(Add(x, 1), k) = x
<1>1. WordSize \in Int /\ WordSize > 0 /\ x \in 0 .. WordSize - 1 /\ k \in 0 .. WordSize - 1
    BY IsaAssumption DEF Word
<1>2. 0 \in Word /\ Add(x, 0) = x
  <2>1. 0 \in Word BY <1>1 DEF Word
  <2> QED BY <2>1, <1>1, Wraps
<1>3. CASE WordSize = 1
  <2>1. k = 0 /\ k + 1 \notin Word /\ x = 0 BY <1>1, <1>3 DEF Word
  <2>2. Add(x, 1) = 0
    <3>1. Add(x, 1) \in Word BY CoreWords
    <3> QED BY <3>1, <1>3 DEF Word
  <2> QED BY <2>1, <2>2, <1>2
<1>4. CASE WordSize > 1
  <2>1. 1 \in Word BY <1>1, <1>4 DEF Word
  <2>2. Add(x, 1) = IF x + 1 < WordSize THEN x + 1 ELSE 0
      BY <2>1, <1>1, Wraps
  <2>3. Add(x, 1) \in Word BY CoreWords
  <2>4. Add(Add(x, 1), k) = IF Add(x, 1) + k < WordSize THEN Add(x, 1) + k
                            ELSE Add(x, 1) + k - WordSize
      BY <2>3, Wraps
  <2>5. k + 1 \in Word => Add(x, k + 1) = IF x + (k + 1) < WordSize THEN x + (k + 1)
                                           ELSE x + (k + 1) - WordSize
      BY Wraps
  <2>6. CASE x + 1 < WordSize
    <3> DEFINE y == Add(x, 1)
               z == Add(y, k)
    <3>1. y = x + 1 BY <2>2, <2>6
    <3>2. z = IF (x + 1) + k < WordSize THEN (x + 1) + k ELSE (x + 1) + k - WordSize
        BY <2>4, <3>1
    <3> HIDE DEF y, z
    <3>3. k + 1 = WordSize => z = x BY <3>2, <1>1
    <3>4. k + 1 \in Word => z = Add(x, k + 1)
      <4> SUFFICES ASSUME k + 1 \in Word PROVE z = Add(x, k + 1) OBVIOUS
      <4>1. x + (k + 1) = (x + 1) + k BY <1>1
      <4>2. x + (k + 1) \in Int /\ (x + 1) + k \in Int BY <1>1
      <4> QED BY <4>1, <4>2, <3>2, <2>5, <1>1
    <3> QED BY <3>3, <3>4, <1>2 DEF y, z
  <2>7. CASE ~(x + 1 < WordSize)
    <3>1. Add(x, 1) = 0 /\ x = WordSize - 1 BY <2>2, <2>7, <1>1
    <3>2. Add(Add(x, 1), k) = k
      <4>1. 0 + k = k /\ k < WordSize BY <1>1
      <4> QED BY <4>1, <3>1, <2>4
    <3>3. k + 1 = WordSize => k = x BY <3>1, <1>1
    <3>4. k + 1 \in Word => Add(x, k + 1) = k
      <4> SUFFICES ASSUME k + 1 \in Word PROVE Add(x, k + 1) = k OBVIOUS
      <4>1. ~(x + (k + 1) < WordSize) /\ x + (k + 1) - WordSize = k BY <3>1, <1>1
      <4> QED BY <4>1, <2>5
    <3> QED BY <3>2, <3>3, <3>4, <1>2
  <2> QED BY <2>6, <2>7
<1> QED BY <1>1, <1>2, <1>3, <1>4

(* The end of a row of prefixes is one number, and one less one address    *)
(* on.                                                                     *)
LEMMA PrefixesUnique ==
    ASSUME NEW x, NEW n \in Prefixes(code, x), NEW m \in Prefixes(code, x)
    PROVE  n = m
<1>1. n \in Nat /\ m \in Nat BY IsaAssumption DEF Prefixes, Word
<1>2. ~(n < m)
  <2> SUFFICES ASSUME n < m PROVE FALSE OBVIOUS
  <2>1. n \in 0 .. m - 1 BY <1>1
  <2> QED BY <2>1 DEF Prefixes
<1>3. ~(m < n)
  <2> SUFFICES ASSUME m < n PROVE FALSE OBVIOUS
  <2>1. m \in 0 .. n - 1 BY <1>1
  <2> QED BY <2>1 DEF Prefixes
<1> QED BY <1>1, <1>2, <1>3

LEMMA PrefixesNext ==
    ASSUME NEW x \in Word, Prefix(code, x), NEW n \in Int
    PROVE  n \in Prefixes(code, x) <=> n - 1 \in Prefixes(code, Add(x, 1))
<1> DEFINE y == Add(x, 1)
<1>1. WordSize \in Int /\ WordSize > 0 /\ y \in Word BY IsaAssumption, CoreWords
<1>2. Add(x, 0) = x
  <2>1. 0 \in Word BY CoreWords
  <2> QED BY <2>1, AddNext
<1>3. \A k \in Word : k + 1 \in Word => Add(y, k) = Add(x, k + 1) BY AddNext
<1>4. \A k \in Word : k + 1 = WordSize => Add(y, k) = x BY AddNext
<1> HIDE DEF y
<1>5. ASSUME n \in Prefixes(code, x)
      PROVE  n - 1 \in Prefixes(code, y)
  <2>1. n \in Word /\ ~Prefix(code, Add(x, n)) /\ \A m \in 0 .. n - 1 : Prefix(code, Add(x, m))
      BY <1>5 DEF Prefixes
  <2>2. n # 0 BY <2>1, <1>2
  <2>3. n - 1 \in Word BY <2>1, <2>2, <1>1 DEF Word
  <2>4. ~Prefix(code, Add(y, n - 1))
    <3>1. (n - 1) + 1 = n OBVIOUS
    <3>2. Add(y, n - 1) = Add(x, n) BY <3>1, <2>1, <2>3, <1>3
    <3> QED BY <3>2, <2>1
  <2>5. ASSUME NEW m \in 0 .. (n - 1) - 1
        PROVE  Prefix(code, Add(y, m))
    <3>1. m \in Word /\ m + 1 \in Word /\ m + 1 \in 0 .. n - 1
        BY <2>1, <1>1 DEF Word
    <3> QED BY <3>1, <2>1, <1>3
  <2> QED BY <2>3, <2>4, <2>5 DEF Prefixes
<1>6. ASSUME n - 1 \in Prefixes(code, y)
      PROVE  n \in Prefixes(code, x)
  <2>1. /\ n - 1 \in Word /\ ~Prefix(code, Add(y, n - 1))
        /\ \A m \in 0 .. (n - 1) - 1 : Prefix(code, Add(y, m))
      BY <1>6 DEF Prefixes
  <2>2. (n - 1) + 1 = n OBVIOUS
  <2>3. n # WordSize
    <3> SUFFICES ASSUME n = WordSize PROVE FALSE OBVIOUS
    <3>1. Add(y, n - 1) = x BY <2>1, <2>2, <1>4
    <3> QED BY <3>1, <2>1
  <2>4. n \in Word BY <2>1, <2>3, <1>1 DEF Word
  <2>5. ~Prefix(code, Add(x, n)) BY <2>1, <2>2, <2>4, <1>3
  <2>6. ASSUME NEW m \in 0 .. n - 1
        PROVE  Prefix(code, Add(x, m))
    <3>1. CASE m = 0 BY <3>1, <1>2
    <3>2. CASE m # 0
      <4>1. /\ m - 1 \in 0 .. (n - 1) - 1 /\ m - 1 \in Word /\ m \in Word
            /\ (m - 1) + 1 = m
          BY <3>2, <2>4, <1>1 DEF Word
      <4> QED BY <4>1, <2>1, <1>3
    <3> QED BY <3>1, <3>2
  <2> QED BY <2>4, <2>5, <2>6 DEF Prefixes
<1> QED BY <1>5, <1>6 DEF y

LEMMA PrefixedAt ==
    ASSUME NEW p, NEW e
    PROVE  [At(p) EXCEPT !.ext = e] =
               [pc |-> p, follow |-> FALSE, delay_pc |-> 0, shadow |-> FALSE,
                immediate |-> FALSE, ext |-> e]
<1> DEFINE r == [At(p) EXCEPT !.ext = e]
<1>1. DOMAIN r = {"pc", "follow", "delay_pc", "shadow", "immediate", "ext"} BY DEF At
<1>2. /\ r.pc = p /\ r.follow = FALSE /\ r.delay_pc = 0 /\ r.shadow = FALSE
      /\ r.immediate = FALSE /\ r.ext = e
    BY DEF At
<1>3. r = [x \in DOMAIN r |-> r[x]] BY DEF At
<1> HIDE DEF r
<1>4. r = [pc |-> p, follow |-> FALSE, delay_pc |-> 0, shadow |-> FALSE,
           immediate |-> FALSE, ext |-> e]
    BY <1>1, <1>2, <1>3
<1> QED BY <1>4 DEF r

(* To go past the prefixes is to take the first and go past the others.    *)
LEMMA PastOnePrefix ==
    ASSUME NEW s, s.pc \in Word, s.delay_pc \in Word, Prefix(code, s.pc),
           code \in [Word -> Opcode]
    PROVE  PastPrefixes(code, DecodeNext(s, code[s.pc])) = PastPrefixes(code, s)
<1> DEFINE o == code[s.pc]
           first == DecodeNext(s, o)
           p == first.pc
           n == CHOOSE n \in Prefixes(code, p) : TRUE
<1>1. o.kind = "extend" BY DEF Prefix
<1>2. first = [At(p) EXCEPT !.ext = o.rd] /\ p \in Word
  <2>1. first = [pc |-> IF s.follow THEN s.delay_pc ELSE Add(s.pc, 1),
                 follow |-> FALSE, delay_pc |-> 0, shadow |-> FALSE,
                 immediate |-> FALSE, ext |-> o.rd]
      BY <1>1 DEF DecodeNext, Taken
  <2>2. p \in Word BY <2>1, CoreWords
  <2>3. p = first.pc OBVIOUS
  <2> HIDE DEF first, o, p, n
  <2>4. p = IF s.follow THEN s.delay_pc ELSE Add(s.pc, 1) BY <2>1, <2>3
  <2>5. first = [pc |-> p, follow |-> FALSE, delay_pc |-> 0, shadow |-> FALSE,
                 immediate |-> FALSE, ext |-> o.rd]
      BY <2>1, <2>4
  <2> QED BY <2>2, <2>5, PrefixedAt
<1>3. PastPrefixes(code, s) =
         IF Prefixes(code, p) = {} THEN At(0)
         ELSE [At(Add(p, n)) EXCEPT
                  !.ext = IF n = 0 THEN first.ext ELSE code[Add(p, n - 1)].rd]
    BY DEF PastPrefixes
<1> HIDE DEF first
<1>4. Add(p, 0) = p /\ 0 \in Word
  <2>1. 0 \in Word BY CoreWords
  <2> QED BY <2>1, <1>2, AddNext
<1>5. first.ext = o.rd BY <1>2 DEF At
<1>6. CASE ~Prefix(code, p)
  <2>1. 0 \in Prefixes(code, p) BY <1>4, <1>6 DEF Prefixes
  <2>2. n = 0 BY <2>1, PrefixesUnique
  <2>3. PastPrefixes(code, s) = [At(p) EXCEPT !.ext = first.ext]
      BY <2>1, <2>2, <1>3, <1>4
  <2>4. PastPrefixes(code, first) = first BY <1>6 DEF PastPrefixes
  <2> QED BY <2>3, <2>4, <1>2, <1>5 DEF first
<1>7. CASE Prefix(code, p)
  <2> DEFINE second == DecodeNext(first, code[p])
             q == Add(p, 1)
             m == CHOOSE m \in Prefixes(code, q) : TRUE
  <2>1. code[p].kind = "extend" BY <1>7 DEF Prefix
  <2>2. second.pc = q /\ second.ext = code[p].rd
    <3>1. ~first.follow BY <1>2 DEF At
    <3> HIDE DEF p
    <3>2. second.pc = Add(first.pc, 1) /\ second.ext = code[p].rd
        BY <2>1, <3>1 DEF DecodeNext, Taken
    <3> QED BY <3>2 DEF p
  <2>3. PastPrefixes(code, first) =
           IF Prefixes(code, q) = {} THEN At(0)
           ELSE [At(Add(q, m)) EXCEPT
                    !.ext = IF m = 0 THEN code[p].rd ELSE code[Add(q, m - 1)].rd]
      BY <1>7, <2>2 DEF PastPrefixes
  <2> HIDE DEF second, p, m, n
  <2>4. \A k \in Int : k \in Prefixes(code, p) <=> k - 1 \in Prefixes(code, q)
      BY <1>2, <1>7, PrefixesNext
  <2>5. Prefixes(code, p) \subseteq Word /\ Prefixes(code, q) \subseteq Word /\ Word \subseteq Int
      BY DEF Prefixes, Word
  <2> HIDE DEF q
  <2>6. CASE Prefixes(code, p) = {}
    <3>1. Prefixes(code, q) = {}
      <4> SUFFICES ASSUME NEW k \in Prefixes(code, q) PROVE FALSE OBVIOUS
      <4>1. k \in Int BY <2>5
      <4>2. k + 1 \in Int /\ (k + 1) - 1 = k BY <4>1
      <4>3. k + 1 \in Prefixes(code, p) BY <4>2, <2>4
      <4> QED BY <4>3, <2>6
    <3> QED BY <3>1, <2>3, <2>6, <1>3 DEF first, p
  <2>7. CASE Prefixes(code, p) # {}
    <3>1. n \in Prefixes(code, p) BY <2>7 DEF n
    <3>2. n \in Word /\ n \in Int BY <3>1, <2>5
    <3>3. n - 1 \in Prefixes(code, q) BY <3>1, <3>2, <2>4
    <3>4. m \in Prefixes(code, q) BY <3>3 DEF m
    <3>5. m = n - 1 BY <3>3, <3>4, PrefixesUnique
    <3>6. m \in Word /\ m + 1 = n BY <3>2, <3>4, <3>5, <2>5
    <3>7. Add(q, m) = Add(p, n) BY <1>2, <3>2, <3>6, AddNext DEF q
    <3>8. n # 0 BY <3>6, IsaAssumption DEF Word
    <3>9. (IF m = 0 THEN code[p].rd ELSE code[Add(q, m - 1)].rd) = code[Add(p, n - 1)].rd
      <4>1. CASE m = 0
        <5>1. n - 1 = 0 BY <4>1, <3>5
        <5> QED BY <5>1, <4>1, <1>4
      <4>2. CASE m # 0
        <5>1. m - 1 \in Word /\ (m - 1) + 1 = m BY <4>2, <3>6, IsaAssumption DEF Word
        <5>2. Add(q, m - 1) = Add(p, m) BY <5>1, <3>6, <1>2, AddNext DEF q
        <5> QED BY <5>2, <4>2, <3>5
      <4> QED BY <4>1, <4>2
    <3>10. Prefixes(code, q) # {} BY <3>3
    <3>11. PastPrefixes(code, s) = [At(Add(p, n)) EXCEPT !.ext = code[Add(p, n - 1)].rd]
        BY <1>3, <2>7, <3>8
    <3>12. PastPrefixes(code, first) = [At(Add(p, n)) EXCEPT !.ext = code[Add(p, n - 1)].rd]
        BY <2>3, <3>7, <3>9, <3>10
    <3> QED BY <3>11, <3>12 DEF first, p
  <2> QED BY <2>6, <2>7
<1> QED BY <1>6, <1>7

-----------------------------------------------------------------------------
(* The order of execution.  What the decoder holds, as a decoder state of  *)
(* the machine without a pipeline.                                         *)
Decoding ==
    [pc |-> dec.pc, follow |-> dec.follow, delay_pc |-> dec.delay_pc,
     shadow |-> dec.shadow, immediate |-> dec.immediate, ext |-> dec.ext]

Decoded(p, s) == DecodeInst(s, p[s.pc])
Follows(p, s) == PastPrefixes(p, DecodeNext(s, p[s.pc]))

(* The opcode the decoder gives an instruction for next.                   *)
Upcoming == PastPrefixes(code, Decoding)

LEMMA DecodesAlike ==
    ASSUME NEW o
    PROVE  /\ DecodeInst(dec, o) = DecodeInst(Decoding, o)
           /\ DecodeNext(dec, o) = DecodeNext(Decoding, o)
<1> USE DEF Decoding, Nop, MapRd
<1>1. DecodeAlu(dec, o) = DecodeAlu(Decoding, o) BY DEF DecodeAlu
<1>2. DecodeCond(dec, o) = DecodeCond(Decoding, o) BY DEF DecodeCond
<1>3. DecodeLoad(dec, o) = DecodeLoad(Decoding, o) BY DEF DecodeLoad
<1>4. DecodeStore(dec, o) = DecodeStore(Decoding, o) BY DEF DecodeStore
<1>5. DecodeBranch(dec, o) = DecodeBranch(Decoding, o) BY DEF DecodeBranch
<1>6. Nop(dec) = Nop(Decoding) OBVIOUS
<1>7. DecodeInst(dec, o) = DecodeInst(Decoding, o)
    BY <1>1, <1>2, <1>3, <1>4, <1>5, <1>6 DEF DecodeInst
<1>8. DecodeNext(dec, o) = DecodeNext(Decoding, o) BY DEF DecodeNext, Taken
<1> QED BY <1>7, <1>8

(* In a clock the decoder moves on by one opcode, or not at all.           *)
LEMMA DecodingStep ==
    ASSUME CoreTypeOK, CoreNext, dec.valid, ~Flush, ~WritePc
    PROVE  IF RfAccepts THEN Decoding' = DecodeNext(Decoding, code[dec.pc])
                        ELSE Decoding' = Decoding
<1>1. CurrentOpcode = code[dec.pc] BY DEF CurrentOpcode
<1>2. CASE RfAccepts
  <2>1. Decoding' = DecodeNext(dec, CurrentOpcode)
      BY <1>2 DEF CoreNext, DecClock, Decoding, DecodeNext, Taken
  <2> QED BY <2>1, <1>1, <1>2, DecodesAlike
<1>3. CASE ~RfAccepts
    BY <1>3 DEF CoreNext, DecClock, Decoding, CoreTypeOK
<1> QED BY <1>2, <1>3

(* An opcode the program has, and no prefix.                               *)
Executable(p, s) == s.pc \in Word /\ ~Prefix(p, s.pc)

(* What the decoder offers in a clock is the instruction of the opcode     *)
(* that was to come, and then the opcode after it is.                      *)
LEMMA UpcomingStep ==
    ASSUME CoreTypeOK, CoreNext, dec.valid, ~Flush, ~WritePc
    PROVE  /\ RfAccepts =>
                 \/ Prefix(code, dec.pc) /\ DecInst = Bubble /\ Upcoming' = Upcoming
                 \/ /\ DecInst # Bubble /\ DecInst = Decoded(code, Upcoming)
                    /\ Executable(code, Upcoming)
                    /\ Upcoming' = Follows(code, Upcoming)
           /\ ~RfAccepts => Upcoming' = Upcoming
<1>1. code' = code BY DEF CoreNext
<1>2. CurrentOpcode = code[dec.pc] BY DEF CurrentOpcode
<1>3. Decoding.pc = dec.pc /\ Decoding.delay_pc = dec.delay_pc BY DEF Decoding
<1>4. CASE RfAccepts
  <2>1. Upcoming' = PastPrefixes(code, DecodeNext(Decoding, code[Decoding.pc]))
      BY <1>1, <1>3, <1>4, DecodingStep DEF Upcoming
  <2>2. CASE Prefix(code, dec.pc)
    <3>1. DecInst = Bubble BY <2>2, <1>2 DEF DecInst, Prefix
    <3>2. Upcoming' = Upcoming
        BY <2>1, <2>2, <1>3, PastOnePrefix DEF Upcoming, CoreTypeOK
    <3> QED BY <3>1, <3>2, <2>2, <1>4
  <2>3. CASE ~Prefix(code, dec.pc)
    <3>1. Upcoming = Decoding BY <2>3, <1>3 DEF Upcoming, PastPrefixes
    <3>2. DecInst = DecodeInst(dec, code[dec.pc])
        BY <2>3, <1>2 DEF DecInst, Prefix
    <3>3. DecInst = Decoded(code, Upcoming)
        BY <3>1, <3>2, <1>3, DecodesAlike DEF Decoded
    <3>4. DecInst # Bubble
      <4>1. code[dec.pc] \in Opcode BY DEF CoreTypeOK
      <4>2. DecInst \in Instruction BY <4>1, <3>2, DecodedInstruction DEF CoreTypeOK
      <4>3. DecInst.class \in {"alu", "load", "store"} BY <4>2 DEF Instruction
      <4>4. Bubble.class = "bubble" BY DEF Bubble
      <4> QED BY <4>3, <4>4
    <3> QED BY <2>1, <2>3, <3>1, <3>3, <3>4, <1>3, <1>4 DEF Follows, Executable, CoreTypeOK
  <2> QED BY <2>2, <2>3
<1>5. CASE ~RfAccepts BY <1>1, <1>5, DecodingStep DEF Upcoming
<1> QED BY <1>4, <1>5

(* A program without prefixes and delay slots.                             *)
Plain(p) ==
    \A w \in Word : p[w].kind # "extend" /\ (p[w].kind = "branch" => ~p[w].delay)

(* What is asked of an instruction that jumps: that the program has no     *)
(* prefix or delayed branch to be found behind it.                         *)
Orderly == SeqInst.rd = "pc" /\ Passes(isa, SeqInst) => Plain(code)

LEMMA PlainPast ==
    ASSUME NEW p, Plain(p), NEW s, s.pc \in Word
    PROVE  Executable(p, s) /\ PastPrefixes(p, s) = s
BY DEF Plain, Executable, Prefix, PastPrefixes

(* A comparison fetched behind a jump marks the opcode the jump goes to as *)
(* one in its shadow.                                                      *)
Marked(pc) ==
    [pc |-> pc, follow |-> FALSE, delay_pc |-> 0, shadow |-> TRUE,
     immediate |-> TRUE, ext |-> NoDest]

(* A jump was the last instruction executed.                               *)
Landed == Plain(code) /\ isa.cp /\ seq = At(seq.pc)

(* A mark changes nothing: the instruction marked depends on the condition *)
(* bit, which the jump has set.  A branch is executed as a jump.           *)
LEMMA MarkedFields ==
    ASSUME NEW x, NEW y, NEW o, x.pc = y.pc, x.ext = y.ext,
           NEW m, m = DecodeInst(x, o), NEW i, i = DecodeInst(y, o)
    PROVE  /\ m.pc = i.pc
           /\ o.kind # "branch" =>
                 /\ m.class = i.class /\ m.op = i.op /\ m.rd = i.rd /\ m.rn = i.rn
                 /\ m.rm = i.rm /\ m.imm = i.imm
                 /\ (m.a <=> i.a) /\ (m.f <=> i.f) /\ (m.pre <=> i.pre)
<1> USE DEF Nop, MapRd, Ahead
<1>1. CASE o.kind = "alu"
  <2>1. m = DecodeAlu(x, o) /\ i = DecodeAlu(y, o) BY <1>1 DEF DecodeInst
  <2> QED BY <2>1 DEF DecodeAlu
<1>2. CASE o.kind = "cond"
  <2>1. m = DecodeCond(x, o) /\ i = DecodeCond(y, o) BY <1>2 DEF DecodeInst
  <2> QED BY <2>1 DEF DecodeCond
<1>3. CASE o.kind = "load"
  <2>1. m = DecodeLoad(x, o) /\ i = DecodeLoad(y, o) BY <1>3 DEF DecodeInst
  <2> QED BY <2>1 DEF DecodeLoad
<1>4. CASE o.kind = "store"
  <2>1. m = DecodeStore(x, o) /\ i = DecodeStore(y, o) BY <1>4 DEF DecodeInst
  <2> QED BY <2>1 DEF DecodeStore
<1>5. CASE o.kind = "branch"
  <2>1. m = DecodeBranch(x, o) /\ i = DecodeBranch(y, o) BY <1>5 DEF DecodeInst
  <2> QED BY <1>5, <2>1 DEF DecodeBranch
<1>6. CASE o.kind \notin {"alu", "cond", "load", "store", "branch"}
  <2>1. m = Nop(x) /\ i = Nop(y) BY <1>6 DEF DecodeInst
  <2> QED BY <2>1, <1>6
<1> QED BY <1>1, <1>2, <1>3, <1>4, <1>5, <1>6

LEMMA DecodedPc ==
    ASSUME NEW d, NEW o
    PROVE  DecodeInst(d, o).pc = Ahead(d.pc)
<1> USE DEF Nop
<1>1. DecodeAlu(d, o).pc = Ahead(d.pc) BY DEF DecodeAlu
<1>2. DecodeCond(d, o).pc = Ahead(d.pc) BY DEF DecodeCond
<1>3. DecodeLoad(d, o).pc = Ahead(d.pc) BY DEF DecodeLoad
<1>4. DecodeStore(d, o).pc = Ahead(d.pc) BY DEF DecodeStore
<1>5. DecodeBranch(d, o).pc = Ahead(d.pc) BY DEF DecodeBranch
<1>6. Nop(d).pc = Ahead(d.pc) OBVIOUS
<1> QED BY <1>1, <1>2, <1>3, <1>4, <1>5, <1>6 DEF DecodeInst

(* The two instructions of a branch, with and without a mark.              *)
LEMMA MarkedBranchFields ==
    ASSUME NEW d, NEW o, o.kind = "branch", NEW i, i = DecodeInst(d, o)
    PROVE  /\ i.class = "alu" /\ i.pc = Ahead(d.pc) /\ i.rn = "pc" /\ i.rm = "imm"
           /\ ~i.a /\ ~i.pre
           /\ d.shadow => i.op = "add" /\ i.rd = "pc" /\ i.imm = o.imm /\ i.f
           /\ ~d.shadow => i.op = "clear" /\ i.rd = "eq" /\ i.cc = "always" /\ ~i.f
<1>1. i = DecodeBranch(d, o) BY DEF DecodeInst
<1>2. CASE d.shadow BY <1>1, <1>2 DEF DecodeBranch, Nop
<1>3. CASE ~d.shadow BY <1>1, <1>3 DEF DecodeBranch, Nop
<1> QED BY <1>2, <1>3

(* Two instructions that differ in their condition only have the same      *)
(* effect when the condition bit is set.                                   *)
LEMMA SameEffect ==
    ASSUME NEW s, s.cp, NEW m, NEW i, m.pc = i.pc,
           m.class = i.class /\ m.op = i.op /\ m.rd = i.rd /\ m.rn = i.rn,
           m.rm = i.rm /\ m.imm = i.imm, (m.a <=> i.a) /\ (m.pre <=> i.pre)
    PROVE  /\ Passes(s, m) /\ Passes(s, i)
           /\ Written(s, m) = Written(s, i)
           /\ Execute(s, m) = Execute(s, i)
<1>1. Passes(s, m) /\ Passes(s, i) BY DEF Passes
<1>2. PortB(s, m) = PortB(s, i) BY DEF PortB, Port
<1>3. OperandA(s, m) = OperandA(s, i) BY DEF OperandA, Port
<1>4. OperandB(s, m) = OperandB(s, i) BY <1>2 DEF OperandB
<1>5. Result(s, m) = Result(s, i) BY <1>3, <1>4 DEF Result
<1>6. Address(s, m) = Address(s, i) BY <1>3, <1>5 DEF Address
<1>7. Written(s, m) = Written(s, i) BY <1>5, <1>6 DEF Written
<1>8. Condition(s, m) = Condition(s, i) BY <1>1, <1>5 DEF Condition
<1> QED BY <1>1, <1>2, <1>5, <1>6, <1>7, <1>8 DEF Execute

(* A branch that is executed as a jump goes where the branch would, and    *)
(* has the same effect as the instruction that marks the branch.           *)
LEMMA BranchEffect ==
    ASSUME NEW s, s.cp, NEW o, o.kind = "branch",
           NEW x, x.shadow, NEW y, ~y.shadow,
           NEW m, m = DecodeInst(x, o), NEW i, i = DecodeInst(y, o)
    PROVE  /\ Passes(s, m) /\ Written(s, m) = Add(Ahead(x.pc), o.imm)
           /\ Execute(s, m) = Execute(s, i)
<1>0. "pc" \notin Reg /\ "eq" \notin Reg BY IsaAssumption DEF NotRegisters
<1>1. /\ m.class = "alu" /\ m.pc = Ahead(x.pc) /\ m.rn = "pc" /\ m.rm = "imm"
      /\ ~m.a /\ m.op = "add" /\ m.rd = "pc" /\ m.imm = o.imm
    BY MarkedBranchFields
<1>2. /\ i.class = "alu" /\ ~i.a /\ i.op = "clear" /\ i.rd = "eq" /\ i.cc = "always"
    BY MarkedBranchFields
<1>3. Passes(s, m) /\ Passes(s, i) BY <1>2 DEF Passes
<1>4. Result(s, m) = Add(Ahead(x.pc), o.imm)
    BY <1>0, <1>1 DEF Result, Compute, OperandA, OperandB, Port, PortB
<1>5. Written(s, m) = Result(s, m) BY <1>1 DEF Written
<1>6. Result(s, i) = 0 BY <1>2 DEF Result, Compute
<1>7. Condition(s, m) = TRUE /\ Condition(s, i) = TRUE
    BY <1>1, <1>2, <1>3, <1>6 DEF Condition
<1>8. Execute(s, m) = Execute(s, i)
    BY <1>0, <1>1, <1>2, <1>7 DEF Execute
<1> QED BY <1>3, <1>4, <1>5, <1>8

-----------------------------------------------------------------------------
(* The inductive invariant.  The instruction nearest its execution, in the *)
(* ALU or behind an empty ALU.                                             *)
Oldest == IF alu.inst # Bubble THEN alu.inst ELSE rf.inst

(* What comes after the ALU's instruction, and after the one behind it.    *)
Head == IF alu.inst # Bubble THEN Follows(code, seq) ELSE seq
Tail == IF rf.inst # Bubble THEN Follows(code, Head) ELSE Head

(* The stages hold the opcodes of the machine without a pipeline from seq  *)
(* on, in a row, and the decoder has the one after them.                   *)
Chain ==
    /\ Oldest # Bubble =>
           /\ Executable(code, seq)
           /\ \/ Oldest = Decoded(code, seq)
              \/ /\ Landed /\ code[seq.pc].kind # "branch"
                 /\ Oldest = Decoded(code, Marked(seq.pc))
    /\ alu.inst # Bubble /\ rf.inst # Bubble =>
           Executable(code, Head) /\ rf.inst = Decoded(code, Head)
    /\ Upcoming = Tail

(* The pc a jump has written, with a mark, has not been decoded yet.       *)
MarkedTarget == Landed /\ Oldest = Bubble /\ Decoding = Marked(seq.pc)

(* It was the address of a branch, which jumps in its turn: what is behind *)
(* it will be flushed.                                                     *)
MarkedJump ==
    /\ Landed /\ Oldest # Bubble /\ Executable(code, seq)
    /\ code[seq.pc].kind = "branch" /\ Oldest = Decoded(code, Marked(seq.pc))

(* The pc a jump writes is under way.                                      *)
Waiting ==
    /\ Landed
    /\ mem.rd = "pc" => mem.result = seq.pc
    /\ rf.mem_rd = "pc" => rf.mem_result = seq.pc
    /\ rf.alu_rd = "pc" => rf.alu_result = seq.pc

PlainDecoder ==
    Plain(code) => ~dec.follow /\ dec.delay_pc = 0 /\ dec.ext = NoDest

OrderInv ==
    /\ PcPhase /\ PlainDecoder
    /\ dec.valid => Chain \/ MarkedTarget \/ MarkedJump
    /\ ~dec.valid => Waiting

(* The instruction in the ALU has the effect of the one that is due, and   *)
(* jumps where that one does.                                              *)
LEMMA DueInAlu ==
    ASSUME OrderInv, Orderly, Inv, alu.inst # Bubble
    PROVE  /\ dec.valid
           /\ alu.inst.pc = Ahead(seq.pc)
           /\ Execute(isa, alu.inst) = Execute(isa, SeqInst)
           /\ ConditionPassed => (alu.inst.rd = "pc" <=> alu.inst.f)
           /\ Chain =>
                 /\ ConditionPassed <=> Passes(isa, SeqInst)
                 /\ alu.inst.f <=> SeqInst.f
                 /\ Written(isa, alu.inst) = Written(isa, SeqInst)
<1>1. dec.valid BY DEF OrderInv, PcPhase
<1>2. Oldest = alu.inst BY DEF Oldest
<1>3. ConditionPassed <=> Passes(isa, alu.inst) BY AluAgrees DEF Inv
<1>4. /\ alu.inst.f <=> alu.inst.rd = "pc"
      /\ \/ alu.inst = Decoded(code, seq)
         \/ Landed /\ alu.inst = Decoded(code, Marked(seq.pc))
      /\ Chain => \/ alu.inst = Decoded(code, seq)
                  \/ /\ Landed /\ code[seq.pc].kind # "branch"
                     /\ alu.inst = Decoded(code, Marked(seq.pc))
  <2>1. ~MarkedTarget BY <1>2 DEF MarkedTarget
  <2>2. /\ \/ alu.inst = Decoded(code, seq)
           \/ Landed /\ alu.inst = Decoded(code, Marked(seq.pc))
        /\ Chain => \/ alu.inst = Decoded(code, seq)
                    \/ /\ Landed /\ code[seq.pc].kind # "branch"
                       /\ alu.inst = Decoded(code, Marked(seq.pc))
    <3>1. Chain \/ MarkedJump BY <1>1, <2>1 DEF OrderInv
    <3>2. Chain => \/ alu.inst = Decoded(code, seq)
                   \/ /\ Landed /\ code[seq.pc].kind # "branch"
                      /\ alu.inst = Decoded(code, Marked(seq.pc))
        BY <1>2 DEF Chain
    <3>3. MarkedJump => Landed /\ alu.inst = Decoded(code, Marked(seq.pc))
        BY <1>2 DEF MarkedJump
    <3> QED BY <3>1, <3>2, <3>3
  <2>3. alu.inst.f <=> alu.inst.rd = "pc" BY <2>2, DecodedJump DEF Decoded
  <2> QED BY <2>2, <2>3
<1>5. SeqInst = Decoded(code, seq) BY DEF SeqInst, Decoded
<1>6. CASE alu.inst = Decoded(code, seq)
  <2>1. alu.inst = SeqInst BY <1>5, <1>6
  <2>2. alu.inst.pc = Ahead(seq.pc)
      BY <1>6, MarkedFields, DecodedPc DEF Decoded
  <2>3. ConditionPassed => (alu.inst.rd = "pc" <=> alu.inst.f)
      BY <1>4
  <2> QED BY <2>1, <2>2, <2>3, <1>1, <1>3
<1>7. CASE alu.inst # Decoded(code, seq)
  <2>1. Landed /\ alu.inst = DecodeInst(Marked(seq.pc), code[seq.pc])
      BY <1>4, <1>7 DEF Decoded, Marked
  <2>2. isa.cp /\ seq = At(seq.pc) BY <2>1 DEF Landed
  <2> DEFINE x == Marked(seq.pc)
             o == code[seq.pc]
  <2>3. x.pc = seq.pc /\ x.ext = seq.ext /\ x.shadow /\ ~seq.shadow
      BY <2>2 DEF Marked, At
  <2>4. alu.inst = DecodeInst(x, o) /\ SeqInst = DecodeInst(seq, o)
      BY <2>1 DEF SeqInst
  <2> HIDE DEF x, o
  <2>5. alu.inst.pc = Ahead(seq.pc) BY <2>3, <2>4, DecodedPc
  <2>6. CASE o.kind = "branch"
    <3>1. Execute(isa, alu.inst) = Execute(isa, SeqInst)
        BY <2>2, <2>3, <2>4, <2>6, BranchEffect
    <3>2. alu.inst.rd = "pc" /\ alu.inst.f BY <2>3, <2>4, <2>6, MarkedBranchFields
    <3>3. ~Chain BY <2>6, <1>4, <1>7 DEF o
    <3> QED BY <3>1, <3>2, <3>3, <2>5, <1>1
  <2>7. CASE o.kind # "branch"
    <3>1. /\ alu.inst.class = SeqInst.class /\ alu.inst.op = SeqInst.op
          /\ alu.inst.rd = SeqInst.rd /\ alu.inst.rn = SeqInst.rn
          /\ alu.inst.rm = SeqInst.rm /\ alu.inst.imm = SeqInst.imm
          /\ alu.inst.a <=> SeqInst.a
          /\ alu.inst.f <=> SeqInst.f
          /\ alu.inst.pre <=> SeqInst.pre
          /\ alu.inst.pc = SeqInst.pc
        BY <2>3, <2>4, <2>7, MarkedFields
    <3>2. /\ Passes(isa, alu.inst) /\ Passes(isa, SeqInst)
          /\ Written(isa, alu.inst) = Written(isa, SeqInst)
          /\ Execute(isa, alu.inst) = Execute(isa, SeqInst)
        BY <3>1, <2>2, SameEffect
    <3>3. alu.inst.rd = "pc" <=> alu.inst.f BY <1>4
    <3> QED BY <3>1, <3>2, <3>3, <2>5, <1>1, <1>3
  <2> QED BY <2>6, <2>7
<1> QED BY <1>6, <1>7

LEMMA PlainDecoderStep ==
    ASSUME CoreTypeOK, PlainDecoder, CoreNext
    PROVE  PlainDecoder'
<1> SUFFICES ASSUME Plain(code)'
             PROVE  ~dec'.follow /\ dec'.delay_pc = 0 /\ dec'.ext = NoDest
    BY DEF PlainDecoder
<1>1. Plain(code)
  <2>1. code' = code BY DEF CoreNext
  <2> QED BY <2>1 DEF Plain
<1>2. CurrentOpcode.kind # "extend" /\ (CurrentOpcode.kind = "branch" => ~CurrentOpcode.delay)
    BY <1>1 DEF Plain, CurrentOpcode, CoreTypeOK
<1>3. /\ ~DecodeNext(dec, CurrentOpcode).follow
      /\ DecodeNext(dec, CurrentOpcode).delay_pc = 0
      /\ DecodeNext(dec, CurrentOpcode).ext = NoDest
    BY <1>2 DEF DecodeNext, Taken
<1>4. ~dec.follow /\ dec.delay_pc = 0 /\ dec.ext = NoDest BY <1>1 DEF PlainDecoder
<1> QED BY <1>3, <1>4, DecoderFields

LEMMA LandedKept ==
    ASSUME code' = code, isa' = isa, seq' = seq
    PROVE  Landed' <=> Landed
BY DEF Landed, Plain, At

(* Unless it flushes, what leaves the ALU makes room for what follows it.  *)
LEMMA ChainAdvances ==
    ASSUME OrderInv, Orderly, Inv, CoreNext, Chain, ~Flush
    PROVE  /\ seq' = IF AluAccepts THEN Head ELSE seq
           /\ ~AluAccepts => alu.inst # Bubble
           /\ alu.inst = Bubble \/ ~AluAccepts => isa' = isa /\ seq' = seq
<1>1. ~AluAccepts => alu.inst # Bubble BY DEF AluAccepts, ConditionPassed
<1>2. seq' = IF Completes THEN PastPrefixes(code, SeqNext) ELSE seq BY DEF CoreNext
<1>3. isa' = IF Completes THEN Execute(isa, alu.inst) ELSE isa BY DEF CoreNext, Clock
<1>4. Completes <=> alu.inst # Bubble /\ AluAccepts BY DEF Completes
<1>5. ASSUME Completes
      PROVE  seq' = Follows(code, seq)
  <2>1. ~(ConditionPassed /\ alu.inst.f) BY <1>4, <1>5 DEF Flush
  <2>2. ~(SeqInst.f /\ Passes(isa, SeqInst)) BY <2>1, <1>4, <1>5, DueInAlu
  <2>3. SeqNext = DecodeNext(seq, code[seq.pc]) BY <2>2 DEF SeqNext
  <2> QED BY <2>3, <1>2, <1>5 DEF Follows
<1> QED BY <1>1, <1>2, <1>3, <1>4, <1>5 DEF Head

LEMMA ChainStep ==
    ASSUME OrderInv, Orderly, Inv, CoreTypeOK, CoreNext, dec.valid, Chain, ~Flush
    PROVE  Chain'
<1> DEFINE h == Head
<1>1. code' = code /\ Clock(DecInst) BY DEF CoreNext
<1>2. ~WritePc BY DEF OrderInv, PcPhase, WritePc, WriteRd
<1>3. /\ rf'.inst = IF RfAccepts THEN DecInst ELSE rf.inst
      /\ alu'.inst = IF ~AluAccepts THEN alu.inst
                     ELSE IF Held THEN Bubble ELSE rf.inst
    BY <1>1, WritesInStep
<1>4. /\ RfAccepts =>
            \/ DecInst = Bubble /\ Upcoming' = Upcoming
            \/ /\ DecInst # Bubble /\ DecInst = Decoded(code, Upcoming)
               /\ Executable(code, Upcoming)
               /\ Upcoming' = Follows(code, Upcoming)
      /\ ~RfAccepts => Upcoming' = Upcoming
    BY <1>2, UpcomingStep
<1>5. /\ seq' = IF AluAccepts THEN h ELSE seq
      /\ ~AluAccepts => alu.inst # Bubble
      /\ alu.inst = Bubble \/ ~AluAccepts => isa' = isa /\ seq' = seq
    BY ChainAdvances
<1>6. Upcoming = IF rf.inst # Bubble THEN Follows(code, h) ELSE h BY DEF Chain, Tail
<1>7. /\ Held => rf.inst # Bubble
      /\ RfAccepts <=> rf.inst = Bubble \/ (~Held /\ AluAccepts)
    BY DEF Held, RfAccepts
<1>8. Head' = IF alu'.inst # Bubble THEN Follows(code, seq') ELSE seq' BY <1>1 DEF Head
<1>9. Tail' = IF rf'.inst # Bubble THEN Follows(code, Head') ELSE Head' BY <1>1 DEF Tail
(* What is first in line is the instruction due, with a mark perhaps.      *)
<1> DEFINE Due(i) == /\ Executable(code, seq')
                     /\ \/ i = Decoded(code, seq')
                        \/ /\ Landed' /\ code[seq'.pc].kind # "branch"
                           /\ i = Decoded(code, Marked(seq'.pc))
<1>10. ASSUME rf.inst # Bubble, AluAccepts
       PROVE  Due(rf.inst)
  <2>1. CASE alu.inst # Bubble
    <3>1. Executable(code, h) /\ rf.inst = Decoded(code, h)
        BY <2>1, <1>10 DEF Chain
    <3> QED BY <3>1, <1>5, <1>10
  <2>2. CASE alu.inst = Bubble
    <3>1. Oldest = rf.inst BY <2>2 DEF Oldest
    <3>2. isa' = isa /\ seq' = seq BY <2>2, <1>5
    <3>3. Landed' <=> Landed BY <3>2, <1>1, LandedKept
    <3> QED BY <3>1, <3>2, <3>3, <1>10 DEF Chain
  <2> QED BY <2>1, <2>2
<1>11. ASSUME ~AluAccepts
       PROVE  Due(alu.inst)
  <2>1. Oldest = alu.inst /\ alu.inst # Bubble BY <1>5, <1>11 DEF Oldest
  <2>2. isa' = isa /\ seq' = seq BY <1>5, <1>11
  <2>3. Landed' <=> Landed BY <2>2, <1>1, LandedKept
  <2> QED BY <2>1, <2>2, <2>3 DEF Chain
<1>12. Oldest' = IF alu'.inst # Bubble THEN alu'.inst ELSE rf'.inst BY DEF Oldest
<1>13. Chain' <=>
          /\ Oldest' # Bubble => Due(Oldest')
          /\ alu'.inst # Bubble /\ rf'.inst # Bubble =>
                 Executable(code, Head') /\ rf'.inst = Decoded(code, Head')
          /\ Upcoming' = Tail'
    BY <1>1 DEF Chain
<1> HIDE DEF h, Due
<1>14. CASE ~AluAccepts
  <2>1. alu'.inst = alu.inst /\ alu'.inst # Bubble /\ seq' = seq BY <1>3, <1>5, <1>14
  <2>2. Head' = h BY <2>1, <1>5, <1>8 DEF h, Head
  <2>3. Oldest' # Bubble => Due(Oldest') BY <2>1, <1>11, <1>12, <1>14
  <2>4. CASE rf.inst = Bubble
      BY <2>1, <2>2, <2>3, <2>4, <1>3, <1>4, <1>6, <1>7, <1>9, <1>13
  <2>5. CASE rf.inst # Bubble
    <3>1. ~RfAccepts /\ rf'.inst = rf.inst BY <2>5, <1>3, <1>7, <1>14
    <3>2. Executable(code, h) /\ rf.inst = Decoded(code, h)
        BY <2>1, <2>5 DEF Chain, h
    <3> QED BY <3>1, <3>2, <2>1, <2>2, <2>3, <2>5, <1>4, <1>6, <1>9, <1>13
  <2> QED BY <2>4, <2>5
<1>15. CASE AluAccepts /\ Held
  <2>1. alu'.inst = Bubble /\ rf'.inst = rf.inst /\ rf.inst # Bubble
      BY <1>3, <1>7, <1>15
  <2>2. Head' = h /\ Upcoming' = Upcoming BY <2>1, <1>4, <1>5, <1>7, <1>8, <1>15
  <2>3. Due(Oldest') BY <2>1, <1>10, <1>12, <1>15
  <2> QED BY <2>1, <2>2, <2>3, <1>6, <1>9, <1>13
<1>16. CASE AluAccepts /\ ~Held
  <2>1. alu'.inst = rf.inst /\ rf'.inst = DecInst /\ RfAccepts /\ seq' = h
      BY <1>3, <1>5, <1>7, <1>16
  <2>2. CASE rf.inst = Bubble
    <3>1. Head' = h /\ Upcoming = h /\ Oldest' = DecInst
        BY <2>1, <2>2, <1>6, <1>8, <1>12
    <3>2. DecInst # Bubble => Due(DecInst) BY <3>1, <2>1, <1>4 DEF Due
    <3> QED BY <3>1, <3>2, <2>1, <2>2, <1>4, <1>9, <1>13
  <2>3. CASE rf.inst # Bubble
    <3>1. Head' = Follows(code, h) /\ Upcoming = Follows(code, h) /\ Oldest' = rf.inst
        BY <2>1, <2>3, <1>6, <1>8, <1>12
    <3>2. Due(Oldest') BY <3>1, <2>3, <1>10, <1>16
    <3> QED BY <3>1, <3>2, <2>1, <2>3, <1>4, <1>9, <1>13
  <2> QED BY <2>2, <2>3
<1> QED BY <1>14, <1>15, <1>16

(* A jump that flushes: the machine without a pipeline is at the value it  *)
(* writes.                                                                 *)
LEMMA JumpLands ==
    ASSUME OrderInv, Orderly, Inv, CoreNext, Flush
    PROVE  /\ alu.inst.rd = "pc" /\ Written(isa, alu.inst) \in Word
           /\ Plain(code) /\ isa'.cp /\ seq' = At(Written(isa, alu.inst))
<1> DEFINE w == Written(isa, alu.inst)
           o == code[seq.pc]
<1>1. ConditionPassed /\ AluAccepts /\ alu.inst.f /\ alu.inst # Bubble
    BY DEF Flush, ConditionPassed
<1>2. dec.valid /\ alu.inst.rd = "pc" BY <1>1, DueInAlu
<1>3. w \in Word
  <2>1. isa \in State /\ alu.inst \in Instruction BY <1>1, ValidInstruction DEF Inv, TypeOK
  <2> QED BY <2>1, ValueTypes
<1>4. Completes BY <1>1 DEF Completes
<1>5. /\ isa' = Execute(isa, alu.inst)
      /\ seq' = PastPrefixes(code, SeqNext)
    BY <1>4 DEF CoreNext, Clock
<1>6. isa'.cp
  <2>1. Passes(isa, alu.inst) BY <1>1, AluAgrees DEF Inv
  <2>2. Condition(isa, alu.inst) BY <2>1, <1>2 DEF Condition
  <2> QED BY <2>2, <1>5 DEF Execute
<1>7. Oldest = alu.inst BY <1>1 DEF Oldest
<1>8. Plain(code) /\ SeqNext = At(w)
  <2>1. Chain \/ MarkedJump BY <1>1, <1>2, <1>7 DEF OrderInv, MarkedTarget
  <2>2. CASE Chain
    <3>1. SeqInst.f /\ Passes(isa, SeqInst) /\ Written(isa, SeqInst) = w
        BY <2>2, <1>1, DueInAlu
    <3>2. SeqInst.rd = "pc" BY <3>1, DecodedJump DEF SeqInst
    <3>3. Plain(code) BY <3>1, <3>2 DEF Orderly
    <3>4. seq.pc \in Word BY <2>2, <1>1, <1>7 DEF Chain, Executable
    <3>5. ~(o.kind = "branch" /\ o.delay) BY <3>3, <3>4 DEF Plain
    <3>6. SeqNext = At(w) BY <3>1, <3>5 DEF SeqNext
    <3> QED BY <3>3, <3>6
  <2>3. CASE MarkedJump
    <3>1. /\ Landed /\ seq.pc \in Word /\ o.kind = "branch"
          /\ alu.inst = DecodeInst(Marked(seq.pc), o)
        BY <2>3, <1>7 DEF MarkedJump, Executable, Decoded, Marked
    <3>2. Plain(code) /\ isa.cp /\ seq = At(seq.pc) BY <3>1 DEF Landed
    <3>3. ~o.delay BY <3>1, <3>2 DEF Plain
    <3>4. ~seq.shadow /\ ~seq.follow BY <3>2 DEF At
    <3>5. Marked(seq.pc).shadow /\ Marked(seq.pc).pc = seq.pc BY DEF Marked
    <3>6. SeqInst = DecodeInst(seq, o) BY DEF SeqInst
    <3> HIDE DEF o
    <3>7. ~SeqInst.f BY <3>1, <3>4, <3>6, MarkedBranchFields
    <3>8. w = Add(Ahead(seq.pc), o.imm)
        BY <3>1, <3>2, <3>4, <3>5, BranchEffect
    <3>9. SeqNext = DecodeNext(seq, o) BY <3>7 DEF SeqNext, o
    <3>10. DecodeNext(seq, o) = At(Add(Ahead(seq.pc), o.imm))
        BY <3>1, <3>3, <3>4 DEF DecodeNext, Taken, At
    <3> QED BY <3>2, <3>8, <3>9, <3>10
  <2> QED BY <2>1, <2>2, <2>3
<1>9. seq' = At(w)
  <2>1. At(w).pc \in Word BY <1>3 DEF At
  <2> QED BY <2>1, <1>5, <1>8, PlainPast
<1> QED BY <1>2, <1>3, <1>6, <1>8, <1>9

LEMMA FlushStep ==
    ASSUME OrderInv, Orderly, Inv, CoreNext, Flush
    PROVE  Waiting'
<1> DEFINE w == Written(isa, alu.inst)
<1>1. /\ alu.inst.rd = "pc" /\ Plain(code) /\ isa'.cp /\ seq' = At(w)
    BY JumpLands
<1>2. code' = code /\ Clock(DecInst) BY DEF CoreNext
<1>3. Landed' /\ seq'.pc = w BY <1>1, <1>2 DEF Landed, Plain, At
<1>4. ConditionPassed /\ AluAccepts /\ alu.inst # Bubble BY DEF Flush, ConditionPassed
<1>5. dec.valid BY <1>4 DEF OrderInv, PcPhase
<1>6. mem.rd # "pc" /\ rf.mem_rd # "pc" /\ rf.alu_rd # "pc"
    BY <1>5 DEF OrderInv, PcPhase
<1>7. mem'.rd = "pc" => mem'.result = w
  <2> SUFFICES ASSUME mem'.rd = "pc" PROVE mem'.result = w OBVIOUS
  <2>1. MemRd = "pc" BY <1>2, WritesInStep
  <2>2. alu.inst.class = "load" BY <2>1 DEF MemRd
  <2>3. MemAccess.op = "load" BY <2>1, AccessTypes DEF Inv
  <2>4. mem'.result = isa.memory[Address(isa, alu.inst)] BY <2>3, <1>2, MemoryStep
  <2> QED BY <2>2, <2>4 DEF Written
<1>8. rf'.mem_rd # "pc" BY <1>2, <1>6, WritesInStep
<1>9. rf'.alu_rd = "pc" => rf'.alu_result = w
  <2> SUFFICES ASSUME rf'.alu_rd = "pc" PROVE rf'.alu_result = w OBVIOUS
  <2>1. rf.accepting_alu_rd /\ AluRd = "pc" BY <1>2, <1>6, WritesInStep
  <2>2. rf'.alu_result = AluResult BY <2>1, <1>2, WritesInStep
  <2>3. alu.inst.class # "load" BY <2>1 DEF AluRd
  <2>4. AluResult = Result(isa, alu.inst) BY <1>4, AluAgrees DEF Inv
  <2> QED BY <2>2, <2>3, <2>4 DEF Written
<1> QED BY <1>3, <1>7, <1>8, <1>9 DEF Waiting

(* While the decoder waits nothing is executed.                            *)
LEMMA NothingExecuted ==
    ASSUME CoreNext, alu.inst = Bubble
    PROVE  /\ isa' = isa /\ seq' = seq /\ code' = code /\ (Landed' <=> Landed)
           /\ ~Flush /\ AluAccepts /\ AluRd = "none" /\ MemRd = "none"
<1>1. ~Completes BY DEF Completes
<1>2. isa' = isa /\ seq' = seq /\ code' = code BY <1>1 DEF CoreNext, Clock
<1> QED BY <1>2, LandedKept DEF ConditionPassed, Flush, AluAccepts, AluRd, MemRd

LEMMA WaitStep ==
    ASSUME OrderInv, Inv, CoreTypeOK, CoreNext, ~dec.valid
    PROVE  IF WritePc THEN Chain' \/ MarkedTarget' ELSE Waiting'
<1>1. rf.inst = Bubble /\ alu.inst = Bubble /\ Waiting BY DEF OrderInv, PcPhase
<1>2. /\ isa' = isa /\ seq' = seq /\ code' = code /\ (Landed' <=> Landed)
      /\ ~Flush /\ AluAccepts /\ AluRd = "none" /\ MemRd = "none"
    BY <1>1, NothingExecuted
<1>3. Clock(DecInst) /\ DecInst = Bubble BY DEF CoreNext, DecInst
<1>4. rf'.inst = Bubble /\ alu'.inst = Bubble
    BY <1>1, <1>2, <1>3, WritesInStep DEF RfAccepts
<1>5. Landed /\ Landed' BY <1>1, <1>2 DEF Waiting
<1>6. CASE ~WritePc
  <2>1. mem'.rd # "pc" BY <1>2, <1>3, WritesInStep
  <2>2. rf'.mem_rd = "pc" => rf'.mem_result = seq'.pc
      BY <1>1, <1>2, <1>3, WritesInStep DEF Waiting
  <2>3. rf'.alu_rd = "pc" => rf'.alu_result = seq'.pc
      BY <1>1, <1>2, <1>3, WritesInStep DEF Waiting
  <2> QED BY <2>1, <2>2, <2>3, <1>5, <1>6 DEF Waiting
<1>7. CASE WritePc
  <2>1. WriteData = seq.pc BY <1>1, <1>7 DEF WritePc, WriteRd, WriteData, Waiting
  <2>2. RfAccepts BY <1>1 DEF RfAccepts
  <2>3. dec'.pc = seq.pc BY <2>1, <1>7, DecoderFields
  <2>4. seq.pc \in Word BY <2>1 DEF WriteData, Inv, TypeOK
  <2> DEFINE mark == CurrentOpcode.kind = "cond"
  <2>5. /\ CurrentOpcode.kind # "extend"
        /\ CurrentOpcode.kind = "branch" => ~CurrentOpcode.delay
      BY <1>5 DEF Landed, Plain, CurrentOpcode, CoreTypeOK
  <2>6. Decoding' = [pc |-> seq.pc, follow |-> FALSE, delay_pc |-> 0,
                     shadow |-> mark, immediate |-> mark, ext |-> NoDest]
    <3>1. /\ DecodeNext(dec, CurrentOpcode).follow = FALSE
          /\ DecodeNext(dec, CurrentOpcode).delay_pc = 0
          /\ DecodeNext(dec, CurrentOpcode).ext = NoDest
          /\ DecodeNext(dec, CurrentOpcode).shadow = mark
          /\ DecodeNext(dec, CurrentOpcode).immediate = mark
        BY <2>5 DEF DecodeNext, Taken
    <3>2. mark \in BOOLEAN OBVIOUS
    <3> HIDE DEF mark
    <3>3. /\ dec'.follow = FALSE /\ dec'.delay_pc = 0 /\ dec'.ext = NoDest
          /\ dec'.shadow = mark /\ dec'.immediate = mark
        BY <3>1, <3>2, <2>2, <1>2 DEF CoreNext, DecClock
    <3> QED BY <3>3, <2>3 DEF Decoding
  <2>7. Oldest' = Bubble BY <1>4 DEF Oldest
  <2>8. CASE mark
    <3>1. Decoding' = Marked(seq.pc) BY <2>6, <2>8 DEF Marked
    <3> QED BY <3>1, <2>7, <1>2, <1>5, <1>7 DEF MarkedTarget, Marked
  <2>9. CASE ~mark
    <3>1. Decoding' = seq BY <2>6, <2>9, <1>5 DEF Landed, At
    <3>2. PastPrefixes(code, seq) = seq BY <2>4, <1>5, PlainPast DEF Landed
    <3>3. Upcoming' = seq BY <3>1, <3>2, <1>2 DEF Upcoming
    <3>4. Tail' = seq BY <1>2, <1>4 DEF Tail, Head
    <3>5. Chain' BY <3>3, <3>4, <2>7, <1>4 DEF Chain
    <3> QED BY <3>5, <1>7
  <2> QED BY <2>8, <2>9
<1> QED BY <1>6, <1>7

LEMMA MarkedTargetStep ==
    ASSUME OrderInv, CoreTypeOK, Inv, CoreNext, dec.valid, MarkedTarget
    PROVE  Chain' \/ MarkedJump'
<1> DEFINE x == Marked(seq.pc)
           o == code[seq.pc]
<1>1. rf.inst = Bubble /\ alu.inst = Bubble BY DEF MarkedTarget, Oldest
<1>2. /\ isa' = isa /\ seq' = seq /\ code' = code /\ (Landed' <=> Landed)
      /\ ~Flush /\ AluAccepts
    BY <1>1, NothingExecuted
<1>3. ~WritePc BY DEF OrderInv, PcPhase, WritePc, WriteRd
<1>4. RfAccepts BY <1>1 DEF RfAccepts
<1>5. Landed /\ Landed' /\ Plain(code) /\ seq = At(seq.pc) /\ Decoding = x
    BY <1>2 DEF MarkedTarget, Landed
<1>6. x.pc = seq.pc BY DEF Marked
<1>7. dec.pc = seq.pc /\ seq.pc \in Word BY <1>5, <1>6 DEF Decoding, CoreTypeOK
<1>8. Executable(code, seq) /\ Executable(code, x) /\ PastPrefixes(code, x) = x
    BY <1>5, <1>6, <1>7, PlainPast
<1>9. Upcoming = x BY <1>5, <1>8 DEF Upcoming
<1>10. DecInst # Bubble /\ DecInst = Decoded(code, x) /\ Upcoming' = Follows(code, x)
  <2>1. ~Prefix(code, dec.pc) BY <1>7, <1>8 DEF Executable
  <2> QED BY <2>1, <1>2, <1>3, <1>4, <1>9, UpcomingStep
<1>11. rf'.inst = DecInst /\ alu'.inst = Bubble
  <2>1. Clock(DecInst) BY DEF CoreNext
  <2> QED BY <2>1, <1>1, <1>2, <1>4, WritesInStep
<1>12. Oldest' # Bubble /\ Oldest' = Decoded(code, x) BY <1>10, <1>11 DEF Oldest
<1>13. CASE o.kind = "branch"
  <2>1. MarkedJump' BY <1>2, <1>5, <1>8, <1>12, <1>13 DEF MarkedJump, Marked
  <2> QED BY <2>1
<1>14. CASE o.kind # "branch"
  <2>1. DecodeNext(x, o) = DecodeNext(seq, o)
    <3>1. ~x.follow /\ ~seq.follow BY <1>5 DEF Marked, At
    <3> HIDE DEF x, o
    <3> QED BY <3>1, <1>6, <1>14 DEF DecodeNext, Taken
  <2>2. Follows(code, x) = Follows(code, seq) BY <2>1, <1>6 DEF Follows
  <2>3. Tail' = Follows(code, seq) BY <1>2, <1>10, <1>11 DEF Tail, Head
  <2>4. Chain'
      BY <2>2, <2>3, <1>2, <1>5, <1>8, <1>10, <1>11, <1>12, <1>14 DEF Chain, Marked
  <2> QED BY <2>4
<1> QED BY <1>13, <1>14

LEMMA MarkedJumpStep ==
    ASSUME OrderInv, Inv, CoreNext, MarkedJump, ~Flush
    PROVE  MarkedJump'
<1>1. Clock(DecInst) /\ code' = code BY DEF CoreNext
<1>2. isa' = isa /\ seq' = seq /\ Oldest' = Oldest
  <2>1. CASE alu.inst # Bubble
    <3>1. Oldest = alu.inst BY <2>1 DEF Oldest
    <3>2. alu.inst = DecodeInst(Marked(seq.pc), code[seq.pc]) /\ isa.cp
        BY <3>1 DEF MarkedJump, Decoded, Marked, Landed
    <3>3. alu.inst.f
        BY <3>2, MarkedBranchFields DEF MarkedJump, Marked
    <3>4. ConditionPassed BY <2>1, <3>2, AluAgrees DEF Passes, Inv
    <3>5. ~AluAccepts BY <3>3, <3>4 DEF Flush
    <3>6. ~Completes BY <3>5 DEF Completes
    <3>7. isa' = isa /\ seq' = seq BY <3>6 DEF CoreNext, Clock
    <3>8. alu'.inst = alu.inst BY <3>5, <1>1, WritesInStep
    <3> QED BY <3>1, <3>7, <3>8, <2>1 DEF Oldest
  <2>2. CASE alu.inst = Bubble
    <3>1. isa' = isa /\ seq' = seq /\ AluAccepts BY <2>2, NothingExecuted
    <3>2. Oldest = rf.inst /\ rf.inst # Bubble BY <2>2 DEF Oldest, MarkedJump
    <3>3. alu'.inst = IF Held THEN Bubble ELSE rf.inst
        BY <3>1, <1>1, WritesInStep
    <3>4. Held => rf'.inst = rf.inst
        BY <3>2, <1>1, WritesInStep DEF RfAccepts
    <3> QED BY <3>1, <3>2, <3>3, <3>4 DEF Oldest
  <2> QED BY <2>1, <2>2
<1>3. Landed' <=> Landed BY <1>1, <1>2, LandedKept
<1> QED BY <1>1, <1>2, <1>3 DEF MarkedJump

LEMMA OrderInvStep ==
    ASSUME OrderInv, Orderly, Inv, CoreTypeOK, CoreNext
    PROVE  OrderInv'
<1>1. PcPhase'
  <2>1. ConditionPassed => (alu.inst.rd = "pc" <=> alu.inst.f)
      BY DueInAlu DEF ConditionPassed
  <2> QED BY <2>1, PhaseStep DEF OrderInv
<1>2. PlainDecoder' BY PlainDecoderStep DEF OrderInv
<1>3. dec'.valid <=> IF Flush THEN WritePc ELSE dec.valid \/ WritePc BY DecoderFields
<1>4. dec.valid => ~WritePc BY DEF OrderInv, PcPhase, WritePc, WriteRd
<1>5. Flush => dec.valid /\ Waiting'
  <2>1. Flush => alu.inst # Bubble BY DEF Flush, ConditionPassed
  <2> QED BY <2>1, FlushStep, DueInAlu
<1>6. CASE ~dec.valid
  <2>1. dec'.valid <=> WritePc BY <1>3, <1>5, <1>6
  <2> QED BY <2>1, <1>1, <1>2, <1>6, WaitStep DEF OrderInv
<1>7. CASE dec.valid /\ Flush
  <2>1. ~dec'.valid /\ Waiting' BY <1>3, <1>4, <1>5, <1>7
  <2> QED BY <2>1, <1>1, <1>2 DEF OrderInv
<1>8. CASE dec.valid /\ ~Flush
  <2>1. dec'.valid BY <1>3, <1>8
  <2>2. Chain \/ MarkedTarget \/ MarkedJump BY <1>8 DEF OrderInv
  <2>3. Chain' \/ MarkedJump'
      BY <2>2, <1>8, ChainStep, MarkedTargetStep, MarkedJumpStep
  <2> QED BY <2>1, <2>3, <1>1, <1>2 DEF OrderInv
<1> QED BY <1>6, <1>7, <1>8

LEMMA OrderInvStutter == OrderInv /\ UNCHANGED coreVars => OrderInv'
BY DEF coreVars, vars, OrderInv, PcPhase, PlainDecoder, Plain, Chain, MarkedTarget,
   MarkedJump, Waiting, Landed, At, Oldest, Head, Tail, Upcoming, Decoding

LEMMA OrderInvInit == CoreInit => OrderInv
<1> SUFFICES ASSUME CoreInit PROVE OrderInv OBVIOUS
<1>1. /\ rf.inst = Bubble /\ alu.inst = Bubble /\ mem.rd = "none"
      /\ rf.mem_rd = "none" /\ rf.alu_rd = "none" /\ dec.valid
    BY DEF CoreInit, Init, NoAccess
<1>2. PcPhase BY <1>1 DEF PcPhase
<1>3. PlainDecoder BY DEF CoreInit, PlainDecoder
<1>4. Decoding = At(0) BY DEF CoreInit, Decoding, At
<1>5. Upcoming = seq BY <1>4 DEF CoreInit, Upcoming
<1>6. Chain BY <1>1, <1>5 DEF Chain, Oldest, Head, Tail
<1> QED BY <1>1, <1>2, <1>3, <1>6 DEF OrderInv

(* Instructions are executed in the order of the machine without a         *)
(* pipeline, and to the same effect, in every program whose jumps are      *)
(* orderly as they are executed.                                           *)
THEOREM ExecutesInOrder ==
    ASSUME Programs \subseteq [Word -> Opcode]
    PROVE  CoreSpec /\ []Orderly => [](InOrder /\ PcWrittenWhenEmpty)
<1>1. CoreInit => OrderInv BY OrderInvInit
<1>2. Inv /\ CoreTypeOK /\ Orderly /\ OrderInv /\ [CoreNext]_coreVars => OrderInv'
    BY OrderInvStep, OrderInvStutter
<1>3. Inv /\ Orderly /\ OrderInv => InOrder /\ PcWrittenWhenEmpty
    BY DueInAlu, PhaseWritesWhenEmpty DEF InOrder, OrderInv
<1> QED BY <1>1, <1>2, <1>3, CoreInvariance, PTL DEF CoreSpec

-----------------------------------------------------------------------------
(* Programs all of whose jumps are orderly.                                *)

DelayedBranch(o) == o.kind = "branch" /\ o.delay

(* A program in which nothing but a branch jumps: no branch follows a      *)
(* comparison, in its shadow, and no delay slot has a comparison or        *)
(* another delayed branch.  Prefixes may stand anywhere.                   *)
BranchesOnly(p) ==
    \A w \in Word :
        /\ p[w].kind \in {"alu", "load", "store", "extend"} => p[w].rd # "pc"
        /\ p[w].kind = "cond" => p[Add(w, 1)].kind # "branch"
        /\ DelayedBranch(p[w]) => p[Add(w, 1)].kind # "cond" /\ ~DelayedBranch(p[Add(w, 1)])

Unmarked(p, s) ==
    /\ s.ext # "pc"
    /\ s.shadow => p[s.pc].kind # "branch"
    /\ s.follow => p[s.pc].kind # "cond" /\ ~DelayedBranch(p[s.pc])

(* The decoder of the machine without a pipeline stays in the program,     *)
(* and holds a mark only where the program has given it one.               *)
SeqInv ==
    /\ seq.pc \in Word /\ seq.delay_pc \in Word
    /\ seq.ext \in Reg \cup {"pc", NoDest}
    /\ Plain(code) => seq.ext = NoDest
    /\ BranchesOnly(code) => Unmarked(code, seq)

LEMMA DecodeNextTypes ==
    ASSUME NEW s, s.pc \in Word, s.delay_pc \in Word, NEW o \in Opcode
    PROVE  /\ DecodeNext(s, o).pc \in Word /\ DecodeNext(s, o).delay_pc \in Word
           /\ DecodeNext(s, o).ext = IF o.kind = "extend" THEN o.rd ELSE NoDest
           /\ DecodeNext(s, o).shadow <=> o.kind = "cond"
<1>1. o.imm \in Word BY DEF Opcode
<1>2. Ahead(s.pc) \in Word /\ Add(s.pc, 1) \in Word /\ 0 \in Word
    BY CoreWords DEF Ahead
<1>3. Add(Ahead(s.pc), o.imm) \in Word BY <1>1, <1>2, CoreWords
<1> QED BY <1>2, <1>3 DEF DecodeNext

(* Going past prefixes stays in the program, and any destination comes     *)
(* from one of them.                                                       *)
LEMMA PastPrefixesTypes ==
    ASSUME NEW p \in [Word -> Opcode], NEW s, s.pc \in Word, s.delay_pc \in Word,
           NEW t, t = PastPrefixes(p, s)
    PROVE  /\ t.pc \in Word /\ t.delay_pc \in Word
           /\ \/ t = s
              \/ ~t.shadow /\ ~t.follow /\ t.ext = NoDest
              \/ ~t.shadow /\ ~t.follow /\ \E w \in Word : Prefix(p, w) /\ t.ext = p[w].rd
<1> DEFINE first == DecodeNext(s, p[s.pc])
           n == CHOOSE k \in Prefixes(p, first.pc) : TRUE
<1>1. CASE ~Prefix(p, s.pc)
    BY <1>1 DEF PastPrefixes
<1>2. CASE Prefix(p, s.pc) /\ Prefixes(p, first.pc) = {}
  <2>1. t = At(0) BY <1>2 DEF PastPrefixes
  <2> QED BY <2>1, CoreWords DEF At
<1>3. CASE Prefix(p, s.pc) /\ Prefixes(p, first.pc) # {}
  <2>1. p[s.pc] \in Opcode OBVIOUS
  <2>2. first.pc \in Word /\ first.ext = p[s.pc].rd
      BY <1>3, <2>1, DecodeNextTypes DEF Prefix
  <2>3. n \in Prefixes(p, first.pc) BY <1>3
  <2> DEFINE e == IF n = 0 THEN first.ext ELSE p[Add(first.pc, n - 1)].rd
  <2>4. t = [At(Add(first.pc, n)) EXCEPT !.ext = e] BY <1>3 DEF PastPrefixes
  <2> HIDE DEF n, first
  <2>5. n \in Word BY <2>3 DEF Prefixes
  <2>6. Add(first.pc, n) \in Word BY <2>2, <2>5, CoreWords
  <2>7. \E w \in Word : Prefix(p, w) /\ e = p[w].rd
    <3>1. CASE n = 0 BY <3>1, <1>3, <2>2
    <3>2. CASE n # 0
      <4>1. n - 1 \in 0 .. n - 1 /\ n - 1 \in Word
          BY <3>2, <2>5, IsaAssumption DEF Word
      <4>2. Prefix(p, Add(first.pc, n - 1)) BY <4>1, <2>3 DEF Prefixes
      <4>3. Add(first.pc, n - 1) \in Word BY <4>1, <2>2, CoreWords
      <4> QED BY <3>2, <4>2, <4>3
    <3> QED BY <3>1, <3>2
  <2> HIDE DEF e
  <2>8. t = [pc |-> Add(first.pc, n), follow |-> FALSE, delay_pc |-> 0,
             shadow |-> FALSE, immediate |-> FALSE, ext |-> e]
      BY <2>4, PrefixedAt
  <2> QED BY <2>6, <2>7, <2>8, CoreWords
<1> QED BY <1>1, <1>2, <1>3

(* An instruction jumps for its destination, its prefix or its mark.       *)
LEMMA DecodedDestination ==
    ASSUME NEW o, NEW d, DecodeInst(d, o).rd = "pc"
    PROVE  \/ o.kind \in {"alu", "load", "store"} /\ (d.ext = "pc" \/ o.rd = "pc")
           \/ o.kind = "branch" /\ d.shadow
<1>1. DecodeAlu(d, o).rd = MapRd(d, o.rd) BY DEF DecodeAlu, Nop
<1>2. DecodeLoad(d, o).rd = MapRd(d, o.rd) BY DEF DecodeLoad, Nop
<1>3. DecodeCond(d, o).rd # "pc" BY DEF DecodeCond, Nop
<1>4. DecodeStore(d, o).rd = MapRd(d, o.rd) BY DEF DecodeStore, Nop
<1>5. DecodeBranch(d, o).rd = "pc" => d.shadow BY DEF DecodeBranch, Nop
<1>6. Nop(d).rd # "pc" BY DEF Nop
<1>7. MapRd(d, o.rd) = "pc" => d.ext = "pc" \/ o.rd = "pc" BY DEF MapRd
<1> QED BY <1>1, <1>2, <1>3, <1>4, <1>5, <1>6, <1>7 DEF DecodeInst

LEMMA SeqInvOrderly ==
    ASSUME SeqInv, CoreTypeOK,
           Plain(code) \/ BranchesOnly(code)
    PROVE  Orderly
<1>1. CASE Plain(code) BY <1>1 DEF Orderly
<1>2. CASE BranchesOnly(code)
  <2>1. SeqInst.rd # "pc"
      BY <1>2, DecodedDestination DEF SeqInst, SeqInv, BranchesOnly, Unmarked
  <2> QED BY <2>1 DEF Orderly
<1> QED BY <1>1, <1>2

LEMMA SeqInvPast ==
    ASSUME code \in [Word -> Opcode], NEW s, s.pc \in Word, s.delay_pc \in Word,
           s.ext \in Reg \cup {"pc", NoDest},
           Plain(code) => s.ext = NoDest,
           BranchesOnly(code) => Unmarked(code, s),
           NEW t, t = PastPrefixes(code, s)
    PROVE  /\ t.pc \in Word /\ t.delay_pc \in Word
           /\ t.ext \in Reg \cup {"pc", NoDest}
           /\ Plain(code) => t.ext = NoDest
           /\ BranchesOnly(code) => Unmarked(code, t)
<1>1. t.pc \in Word /\ t.delay_pc \in Word BY PastPrefixesTypes
<1>2. CASE t = s BY <1>1, <1>2
<1>3. CASE ~t.shadow /\ ~t.follow /\ t.ext = NoDest
    BY <1>1, <1>3 DEF NoDest, Unmarked
<1>4. CASE ~t.shadow /\ ~t.follow /\ \E w \in Word : Prefix(code, w) /\ t.ext = code[w].rd
  <2>1. PICK w \in Word : Prefix(code, w) /\ t.ext = code[w].rd BY <1>4
  <2>2. code[w].rd \in Reg \cup {"pc"} BY DEF Opcode
  <2>3. ~Plain(code) BY <2>1 DEF Plain, Prefix
  <2>4. BranchesOnly(code) => t.ext # "pc" BY <2>1 DEF BranchesOnly, Prefix
  <2> QED BY <1>1, <1>4, <2>1, <2>2, <2>3, <2>4 DEF Unmarked
<1> QED BY <1>2, <1>3, <1>4, PastPrefixesTypes

LEMMA SeqInvStep ==
    ASSUME SeqInv, Inv, CoreTypeOK, CoreNext
    PROVE  SeqInv'
<1>1. code' = code BY DEF CoreNext
<1>2. CASE ~Completes
  <2>1. seq' = seq BY <1>2 DEF CoreNext
  <2> QED BY <2>1, <1>1 DEF SeqInv, Plain, BranchesOnly, Unmarked
<1>3. CASE Completes
  <2> DEFINE o == code[seq.pc]
             s == SeqNext
  <2>1. o \in Opcode BY DEF SeqInv, CoreTypeOK
  <2>2. SeqInst \in Instruction BY <2>1, DecodedInstruction DEF SeqInst, SeqInv
  <2>3. Written(isa, SeqInst) \in Word BY <2>2, ValueTypes DEF Inv, TypeOK
  <2>4. CASE ~(SeqInst.f /\ Passes(isa, SeqInst))
    <3>1. s = DecodeNext(seq, o) BY <2>4 DEF SeqNext
    <3>2. o.rd \in Reg \cup {"pc"} BY <2>1 DEF Opcode
    <3>3. Plain(code) => o.kind # "extend" BY DEF Plain, SeqInv
    <3>4. BranchesOnly(code) /\ o.kind = "extend" => o.rd # "pc"
        BY DEF BranchesOnly, SeqInv
    <3> HIDE DEF s
    <3>5. /\ s.pc \in Word /\ s.delay_pc \in Word
          /\ s.ext = IF o.kind = "extend" THEN o.rd ELSE NoDest
          /\ s.shadow <=> o.kind = "cond"
        BY <2>1, <3>1, DecodeNextTypes DEF SeqInv
    <3>6. seq' = PastPrefixes(code, s) BY <1>3 DEF CoreNext, s
    <3>7. s.ext \in Reg \cup {"pc", NoDest} BY <3>2, <3>5
    <3>8. BranchesOnly(code) => Unmarked(code, s)
      <4> SUFFICES ASSUME BranchesOnly(code) PROVE Unmarked(code, s) OBVIOUS
      <4>1. Unmarked(code, seq) /\ seq.pc \in Word BY DEF SeqInv
      <4>2. s.ext # "pc" BY <3>4, <3>5 DEF NoDest
      <4>3. s.follow <=> DelayedBranch(o)
          BY <3>1, <4>1 DEF DecodeNext, Taken, DelayedBranch, Unmarked
      <4>4. (o.kind = "cond" \/ DelayedBranch(o)) => s.pc = Add(seq.pc, 1)
          BY <3>1, <4>1 DEF DecodeNext, Taken, DelayedBranch, Unmarked
      <4> QED BY <3>5, <4>1, <4>2, <4>3, <4>4 DEF Unmarked, BranchesOnly
    <3>9. Plain(code) => s.ext = NoDest BY <3>3, <3>5
    <3> QED BY <1>1, <3>5, <3>6, <3>7, <3>8, <3>9, SeqInvPast
            DEF SeqInv, CoreTypeOK, Plain, BranchesOnly, Unmarked
  <2>5. CASE SeqInst.f /\ Passes(isa, SeqInst)
    <3>1. /\ s.pc \in Word /\ s.delay_pc \in Word /\ s.ext = NoDest /\ ~s.shadow
      <4>1. CASE o.kind = "branch" /\ o.delay
        <5>1. s = [At(Add(seq.pc, 1)) EXCEPT !.follow = TRUE,
                                             !.delay_pc = Written(isa, SeqInst)]
            BY <2>5, <4>1 DEF SeqNext
        <5>2. Add(seq.pc, 1) \in Word BY CoreWords DEF SeqInv
        <5> HIDE DEF s
        <5> QED BY <5>1, <5>2, <2>3 DEF At
      <4>2. CASE ~(o.kind = "branch" /\ o.delay)
        <5>1. s = At(Written(isa, SeqInst)) BY <2>5, <4>2 DEF SeqNext
        <5> HIDE DEF s
        <5> QED BY <5>1, <2>3, CoreWords DEF At
      <4> QED BY <4>1, <4>2
    <3> HIDE DEF s
    <3>2. seq' = PastPrefixes(code, s) BY <1>3 DEF CoreNext, s
    <3>3. ~BranchesOnly(code)
      <4>1. SeqInst.rd = "pc" BY <2>5, DecodedJump DEF SeqInst
      <4> QED BY <4>1, DecodedDestination
              DEF SeqInst, SeqInv, BranchesOnly, Unmarked
    <3> QED BY <1>1, <3>1, <3>2, <3>3, SeqInvPast
            DEF SeqInv, CoreTypeOK, Plain, BranchesOnly, Unmarked, NoDest
  <2> QED BY <2>4, <2>5
<1> QED BY <1>2, <1>3

LEMMA SeqInvInit == CoreInit /\ CoreTypeOK => SeqInv
<1> SUFFICES ASSUME CoreInit, CoreTypeOK PROVE SeqInv OBVIOUS
<1> DEFINE s == At(0)
<1>1. seq = PastPrefixes(code, s) BY DEF CoreInit
<1>2. /\ s.pc \in Word /\ s.delay_pc \in Word /\ s.ext = NoDest
      /\ ~s.shadow /\ ~s.follow
    BY CoreWords DEF At
<1> HIDE DEF s
<1> QED BY <1>1, <1>2, SeqInvPast DEF SeqInv, CoreTypeOK, NoDest, Unmarked

(* So every program without prefixes and delay slots executes in order     *)
(* whatever its jumps, and every program with them does whose only jumps   *)
(* are branches the decoder takes.                                         *)
THEOREM ProgramsExecuteInOrder ==
    ASSUME Programs \subseteq [Word -> Opcode],
           \A p \in Programs : Plain(p) \/ BranchesOnly(p)
    PROVE  CoreSpec => []InOrder
<1> DEFINE Allowed == Plain(code) \/ BranchesOnly(code)
<1>1. CoreInit => Allowed BY DEF CoreInit
<1>2. Allowed /\ [CoreNext]_coreVars => Allowed'
    BY DEF CoreNext, coreVars, Plain, BranchesOnly
<1>3. CoreInit /\ CoreTypeOK => SeqInv BY SeqInvInit
<1>4. Inv /\ CoreTypeOK /\ SeqInv /\ [CoreNext]_coreVars => SeqInv'
  <2>1. UNCHANGED coreVars /\ SeqInv => SeqInv'
      BY DEF coreVars, SeqInv, Plain, BranchesOnly, Unmarked
  <2> QED BY <2>1, SeqInvStep
<1>5. SeqInv /\ CoreTypeOK /\ Allowed => Orderly BY SeqInvOrderly
<1>6. CoreSpec => []Orderly BY <1>1, <1>2, <1>3, <1>4, <1>5, CoreInvariance, PTL DEF CoreSpec
<1> QED BY <1>6, ExecutesInOrder, PTL

(* The machine without a pipeline, by itself: it executes the program one  *)
(* instruction in a step.                                                  *)
ProgramInit ==
    /\ code \in Programs
    /\ seq = PastPrefixes(code, At(0))
    /\ isa = [regs |-> [r \in Reg |-> 0], memory |-> [w \in Word |-> 0],
              acc |-> 0, cp |-> FALSE]

ProgramNext ==
    /\ isa' = Execute(isa, SeqInst)
    /\ seq' = PastPrefixes(code, SeqNext)
    /\ UNCHANGED code

ProgramSpec == ProgramInit /\ [][ProgramNext]_<<code, seq, isa>>

(* The core implements it: each clock executes the next instruction of the *)
(* program, with its effect, or none.                                      *)
THEOREM CoreImplementsProgram ==
    ASSUME Programs \subseteq [Word -> Opcode],
           \A p \in Programs : Plain(p) \/ BranchesOnly(p)
    PROVE  CoreSpec => ProgramSpec
<1>1. CoreInit => ProgramInit BY DEF CoreInit, Init, ProgramInit
<1>2. InOrder /\ [CoreNext]_coreVars => [ProgramNext]_<<code, seq, isa>>
  <2>1. ASSUME InOrder, CoreNext, Completes PROVE ProgramNext
    <3>1. Execute(isa, alu.inst) = Execute(isa, SeqInst)
        BY <2>1 DEF Completes, InOrder
    <3>2. isa' = Execute(isa, alu.inst) BY <2>1 DEF CoreNext, Clock
    <3> QED BY <2>1, <3>1, <3>2 DEF CoreNext, ProgramNext
  <2>2. ASSUME CoreNext, ~Completes PROVE UNCHANGED <<code, seq, isa>>
      BY <2>2 DEF CoreNext, Clock
  <2>3. UNCHANGED coreVars => UNCHANGED <<code, seq, isa>> BY DEF coreVars, vars
  <2> QED BY <2>1, <2>2, <2>3
<1> QED BY <1>1, <1>2, ProgramsExecuteInOrder, PTL DEF CoreSpec, ProgramSpec

-----------------------------------------------------------------------------
(* How long an instruction takes to complete.                              *)

(* Every run of prefixes of a program is shorter than n: there is none     *)
(* when n is 0.                                                            *)
PrefixesEnd(p, n) ==
    \A w \in Word :
        Prefix(p, w) => \E k \in (1 .. n - 1) \cap Word : ~Prefix(p, Add(w, k))

(* The prefixes a decoder has in front of it: one, which may stand in a    *)
(* delay slot, and the run it leads to.                                    *)
AfterPrefix(d) == IF d.follow THEN d.delay_pc ELSE Add(d.pc, 1)

PrefixesLeft(p, d, k) ==
    IF Prefix(p, d.pc)
    THEN k > 0 /\ k - 1 \in Word /\ ~Prefix(p, Add(AfterPrefix(d), k - 1))
    ELSE k = 0

(* The wait that is left, from where the oldest instruction is: blocked in *)
(* the ALU for a clock, held in the register file for one, behind prefixes *)
(* in the decoder, or at an address that is written now or in a clock.     *)
Waits(n) ==
    /\ idle \in Nat
    /\ rf.inst # Bubble => rf.inst.rn # "block_all"
    /\ alu.inst # Bubble => idle + (IF AluAccepts THEN 0 ELSE 1) =< MaxIdle
    /\ alu.inst = Bubble /\ rf.inst # Bubble =>
           idle + (IF Held THEN 2 ELSE 1) =< MaxIdle
    /\ alu.inst = Bubble /\ rf.inst = Bubble /\ dec.valid =>
           \E k \in 0 .. n : PrefixesLeft(code, dec, k) /\ idle + k + 2 =< MaxIdle
    /\ ~dec.valid => idle + (IF WritePc THEN n + 3 ELSE n + 4) =< MaxIdle

LEMMA PrefixesLeftBounded ==
    ASSUME NEW p, NEW d, d.pc \in Word, d.delay_pc \in Word,
           NEW n \in Nat, PrefixesEnd(p, n)
    PROVE  \E k \in 0 .. n : PrefixesLeft(p, d, k)
<1>1. CASE ~Prefix(p, d.pc)
  <2>1. PrefixesLeft(p, d, 0) BY <1>1 DEF PrefixesLeft
  <2> QED BY <2>1
<1>2. CASE Prefix(p, d.pc)
  <2>1. PICK k \in (1 .. n - 1) \cap Word : ~Prefix(p, Add(d.pc, k))
      BY <1>2 DEF PrefixesEnd
  <2>2. k \in Nat /\ k >= 1 /\ k =< n - 1 /\ k - 1 \in Word /\ (k - 1) + 1 = k
      BY <2>1, IsaAssumption DEF Word
  <2>3. CASE ~d.follow
    <3>1. Add(Add(d.pc, 1), k - 1) = Add(d.pc, k) BY <2>1, <2>2, AddNext
    <3>2. PrefixesLeft(p, d, k)
        BY <1>2, <2>1, <2>2, <2>3, <3>1 DEF PrefixesLeft, AfterPrefix
    <3>3. k \in 0 .. n BY <2>2
    <3> QED BY <3>2, <3>3
  <2>4. CASE d.follow /\ ~Prefix(p, d.delay_pc)
    <3>1. Add(d.delay_pc, 0) = d.delay_pc /\ 0 \in Word BY CoreWords, AddNext
    <3>2. PrefixesLeft(p, d, 1)
        BY <1>2, <2>4, <3>1 DEF PrefixesLeft, AfterPrefix
    <3>3. 1 \in 0 .. n BY <2>2
    <3> QED BY <3>2, <3>3
  <2>5. CASE d.follow /\ Prefix(p, d.delay_pc)
    <3>1. PICK m \in (1 .. n - 1) \cap Word : ~Prefix(p, Add(d.delay_pc, m))
        BY <2>5 DEF PrefixesEnd
    <3>2. m + 1 \in 0 .. n /\ m + 1 > 0 /\ (m + 1) - 1 = m BY <3>1
    <3>3. PrefixesLeft(p, d, m + 1)
        BY <1>2, <2>5, <3>1, <3>2 DEF PrefixesLeft, AfterPrefix
    <3> QED BY <3>2, <3>3
  <2> QED BY <2>3, <2>4, <2>5
<1> QED BY <1>1, <1>2

(* Each prefix taken leaves one less.                                      *)
LEMMA PrefixesLeftLess ==
    ASSUME NEW p, NEW d, NEW e, e.pc \in Word, e.pc = AfterPrefix(d), ~e.follow,
           NEW k \in Nat, PrefixesLeft(p, d, k), Prefix(p, d.pc)
    PROVE  \E j \in 0 .. k - 1 : PrefixesLeft(p, e, j)
<1>1. k > 0 /\ k - 1 \in Word /\ ~Prefix(p, Add(e.pc, k - 1))
    BY DEF PrefixesLeft
<1>2. CASE ~Prefix(p, e.pc)
  <2>1. PrefixesLeft(p, e, 0) /\ 0 \in 0 .. k - 1 BY <1>1, <1>2 DEF PrefixesLeft
  <2> QED BY <2>1
<1>3. CASE Prefix(p, e.pc)
  <2>1. k - 1 # 0 BY <1>1, <1>3, AddNext
  <2>2. k - 2 \in Word /\ (k - 2) + 1 = k - 1 /\ (k - 1) - 1 = k - 2
      BY <1>1, <2>1, IsaAssumption DEF Word
  <2>3. Add(Add(e.pc, 1), k - 2) = Add(e.pc, k - 1) BY <1>1, <2>2, AddNext
  <2>4. PrefixesLeft(p, e, k - 1)
      BY <1>1, <1>3, <2>1, <2>2, <2>3 DEF PrefixesLeft, AfterPrefix
  <2>5. k - 1 \in 0 .. k - 1 BY <1>1
  <2> QED BY <2>4, <2>5
<1> QED BY <1>2, <1>3

(* The decoder never asks for every write to be done.                      *)
LEMMA DecodedSource ==
    ASSUME NEW d, NEW o \in Opcode
    PROVE  DecodeInst(d, o).rn # "block_all"
<1>1. o.rd \in Reg \cup {"pc"} /\ o.rm \in Reg \cup {"acc", "imm"} BY DEF Opcode
<1>2. MapRn(o.rd) # "block_all" /\ o.rm # "block_all"
    BY <1>1, IsaAssumption DEF MapRn, NotRegisters
<1>3. DecodeAlu(d, o).rn # "block_all" BY <1>2 DEF DecodeAlu, Nop
<1>4. DecodeCond(d, o).rn # "block_all" BY <1>2 DEF DecodeCond, Nop
<1>5. DecodeLoad(d, o).rn # "block_all" BY <1>2 DEF DecodeLoad, Nop
<1>6. DecodeStore(d, o).rn # "block_all" BY <1>2 DEF DecodeStore, Nop
<1>7. DecodeBranch(d, o).rn # "block_all" BY DEF DecodeBranch, Nop
<1>8. Nop(d).rn # "block_all" BY DEF Nop
<1> QED BY <1>3, <1>4, <1>5, <1>6, <1>7, <1>8 DEF DecodeInst

LEMMA WaitsBounded ==
    ASSUME NEW n \in Nat, Waits(n), MaxIdle \in Nat
    PROVE  idle =< MaxIdle
<1>1. CASE alu.inst # Bubble BY <1>1 DEF Waits
<1>2. CASE alu.inst = Bubble /\ rf.inst # Bubble BY <1>2 DEF Waits
<1>3. CASE alu.inst = Bubble /\ rf.inst = Bubble /\ dec.valid BY <1>3 DEF Waits
<1>4. CASE ~dec.valid BY <1>4 DEF Waits
<1> QED BY <1>1, <1>2, <1>3, <1>4

(* Behind an empty ALU nothing waits for long: the write port is free in   *)
(* the next clock, and no register is waited for.                          *)
LEMMA EmptyAlu ==
    ASSUME Inv, CoreTypeOK, CoreNext, alu.inst = Bubble
    PROVE  /\ ~Flush /\ ~Completes
           /\ AluAccepts /\ AluAccepts'
           /\ alu'.inst = IF Held THEN Bubble ELSE rf.inst
           /\ rf'.inst = IF RfAccepts THEN DecInst ELSE rf.inst
           /\ rf'.mem_rd = mem.rd
           /\ ~rf.accepting_alu_rd => rf'.alu_rd = rf.alu_rd /\ mem.rd = "none"
           /\ alu'.inst = Bubble /\ (rf'.inst # Bubble => rf'.inst.rn # "block_all")
                 => ~Held'
<1>1. Clock(DecInst) BY DEF CoreNext
<1>2. ~ConditionPassed BY DEF ConditionPassed
<1>3. ~Flush /\ ~Completes /\ AluAccepts
    BY <1>2 DEF Flush, Completes, AluAccepts
<1>4. AluRd = "none" /\ MemRd = "none" BY <1>2 DEF AluRd, MemRd
<1>5. /\ mem'.rd = "none" /\ rf'.mem_rd = mem.rd
      /\ rf'.alu_rd = IF rf.accepting_alu_rd THEN "none" ELSE rf.alu_rd
    BY <1>1, <1>4, WritesInStep
<1>6. ~rf.accepting_alu_rd => mem.rd = "none" BY DEF Inv, BlockedOnce
<1>7. rf'.alu_rd = "none" \/ rf'.mem_rd = "none" BY <1>5, <1>6
<1>8. Inv' BY <1>1, CurrentTypes, ClockInv
<1>9. rf'.accepting_alu_rd BY <1>7, <1>8 DEF Inv, Shape
<1>10. AluAccepts' BY <1>9 DEF AluAccepts
<1>11. /\ alu'.inst = IF Held THEN Bubble ELSE rf.inst
       /\ rf'.inst = IF RfAccepts THEN DecInst ELSE rf.inst
    BY <1>1, <1>3, WritesInStep
<1>12. ASSUME alu'.inst = Bubble, rf'.inst # Bubble => rf'.inst.rn # "block_all"
       PROVE  ~Held'
  <2>1. \A r \in Reg : ~(alu'.inst # Bubble /\ alu'.inst.rd = r)
                       /\ mem'.rd # r /\ ~(rf'.mem_rd # "none" /\ rf'.alu_rd = r)
      BY <1>5, <1>7, <1>12, IsaAssumption DEF NotRegisters
  <2>2. \A r \in Reg : ~NotReady(r)' BY <2>1 DEF NotReady
  <2> QED BY <2>2, <1>12 DEF Held
<1> QED BY <1>3, <1>5, <1>6, <1>10, <1>11, <1>12

LEMMA WaitsAfterCompletion ==
    ASSUME NEW n \in Nat, MaxIdle \in Nat, n + 4 =< MaxIdle,
           PrefixesEnd(code, n), Inv, CoreTypeOK, PcPhase, Waits(n), CoreNext,
           Completes, (rf.inst # Bubble => rf.inst.rn # "block_all")'
    PROVE  Waits(n)'
<1>1. code' = code /\ idle' = 0 BY DEF CoreNext
<1>2. CoreTypeOK' BY DecoderStep DEF Inv
<1>3. \E k \in 0 .. n : PrefixesLeft(code, dec', k)
    BY <1>2, PrefixesLeftBounded DEF CoreTypeOK
<1>4. \A k \in 0 .. n : 0 + k + 2 =< MaxIdle OBVIOUS
<1>5. /\ 0 + (IF AluAccepts' THEN 0 ELSE 1) =< MaxIdle
      /\ 0 + (IF Held' THEN 2 ELSE 1) =< MaxIdle
      /\ 0 + (IF WritePc' THEN n + 3 ELSE n + 4) =< MaxIdle
    OBVIOUS
<1>6. \E k \in 0 .. n : PrefixesLeft(code, dec, k)' /\ idle' + k + 2 =< MaxIdle
    BY <1>1, <1>3, <1>4 DEF PrefixesLeft, AfterPrefix, Prefix
<1> QED BY <1>1, <1>5, <1>6 DEF Waits

(* A result that is blocked is not blocked in the next clock.              *)
LEMMA BlockedStep ==
    ASSUME Inv, CoreTypeOK, CoreNext, alu.inst # Bubble, ~AluAccepts
    PROVE  /\ ~Flush /\ alu'.inst = alu.inst /\ AluAccepts'
<1>1. Clock(DecInst) BY DEF CoreNext
<1>2. ~Flush BY DEF Flush
<1>3. ~rf.accepting_alu_rd BY DEF AluAccepts
<1>4. mem.rd = "none" BY <1>3 DEF Inv, BlockedOnce
<1>5. alu'.inst = alu.inst /\ rf'.mem_rd = "none" BY <1>1, <1>2, <1>4, WritesInStep
<1>6. Inv' BY <1>1, CurrentTypes, ClockInv
<1>7. rf'.accepting_alu_rd BY <1>5, <1>6 DEF Inv, Shape
<1> QED BY <1>2, <1>5, <1>7 DEF AluAccepts

(* An address that is not written now is written in the next clock.        *)
LEMMA AddressStep ==
    ASSUME Inv, CoreTypeOK, CoreNext, PcPhase, ~dec.valid, ~WritePc
    PROVE  WritePc'
<1>0. alu.inst = Bubble BY DEF PcPhase
<1>1. CASE mem.rd = "pc"
  <2>1. rf'.mem_rd = "pc" BY <1>0, <1>1, EmptyAlu
  <2> QED BY <2>1 DEF WritePc, WriteRd
<1>2. CASE rf.mem_rd = "pc" BY <1>2 DEF WritePc, WriteRd
<1>3. CASE rf.alu_rd = "pc"
  <2>1. rf.mem_rd # "none" BY <1>3 DEF WritePc, WriteRd
  <2>2. ~rf.accepting_alu_rd BY <1>3, <2>1 DEF Inv, Shape
  <2>3. rf'.alu_rd = "pc" /\ rf'.mem_rd = "none" BY <1>0, <1>3, <2>2, EmptyAlu
  <2> QED BY <2>3 DEF WritePc, WriteRd
<1> QED BY <1>1, <1>2, <1>3 DEF PcPhase

LEMMA WaitsStep ==
    ASSUME NEW n \in Nat, MaxIdle \in Nat, n + 4 =< MaxIdle,
           PrefixesEnd(code, n), Inv, CoreTypeOK, PcPhase, Waits(n), CoreNext
    PROVE  Waits(n)'
<1>1. (rf.inst # Bubble => rf.inst.rn # "block_all")'
  <2>1. Clock(DecInst) BY DEF CoreNext
  <2>2. DecInst # Bubble => DecInst.rn # "block_all"
      BY CurrentTypes, DecodedSource DEF DecInst
  <2> QED BY <2>1, <2>2, WritesInStep DEF Waits
<1>2. CASE Completes BY <1>1, <1>2, WaitsAfterCompletion
<1>3. CASE ~Completes
  <2>1. idle' = idle + 1 /\ idle \in Nat /\ idle' \in Nat
      BY <1>3, WaitsBounded DEF CoreNext, Waits
  <2>2. dec.valid => ~WritePc BY DEF PcPhase, WritePc, WriteRd
  <2>3. dec'.valid <=> IF Flush THEN WritePc ELSE dec.valid \/ WritePc
      BY DecoderFields
  <2>4. CASE alu.inst # Bubble
    <3>1. ~AluAccepts BY <1>3, <2>4 DEF Completes
    <3>2. ~Flush /\ alu'.inst # Bubble /\ AluAccepts' BY <2>4, <3>1, BlockedStep
    <3>3. dec'.valid BY <2>3, <2>4, <3>2 DEF PcPhase
    <3>4. idle + 1 =< MaxIdle BY <2>4, <3>1 DEF Waits
    <3> QED BY <1>1, <2>1, <3>2, <3>3, <3>4 DEF Waits
  <2>5. CASE alu.inst = Bubble /\ rf.inst # Bubble
    <3>1. dec'.valid BY <2>3, <2>5, EmptyAlu DEF PcPhase
    <3>2. CASE ~Held
      <4>1. alu'.inst # Bubble /\ AluAccepts' BY <2>5, <3>2, EmptyAlu
      <4>2. idle + 1 =< MaxIdle BY <2>5, <3>2 DEF Waits
      <4> QED BY <1>1, <2>1, <3>1, <4>1, <4>2 DEF Waits
    <3>3. CASE Held
      <4>1. ~RfAccepts BY <2>5, <3>3 DEF RfAccepts
      <4>2. alu'.inst = Bubble /\ rf'.inst # Bubble BY <2>5, <3>3, <4>1, EmptyAlu
      <4>3. ~Held' BY <1>1, <2>5, <4>2, EmptyAlu
      <4>4. idle + 2 =< MaxIdle BY <2>5, <3>3 DEF Waits
      <4>5. idle' + 1 =< MaxIdle BY <2>1, <4>4
      <4> QED BY <1>1, <2>1, <3>1, <4>2, <4>3, <4>5 DEF Waits
    <3> QED BY <3>2, <3>3
  <2>6. CASE alu.inst = Bubble /\ rf.inst = Bubble
    <3>1. RfAccepts BY <2>6 DEF RfAccepts
    <3>2. ~Flush /\ alu'.inst = Bubble /\ rf'.inst = DecInst
        BY <2>6, <3>1, EmptyAlu
    <3>3. CASE dec.valid
      <4>1. PICK k \in 0 .. n : PrefixesLeft(code, dec, k) /\ idle + k + 2 =< MaxIdle
          BY <2>6, <3>3 DEF Waits
      <4>2. dec'.valid BY <2>3, <3>2, <3>3
      <4>3. CurrentOpcode = code[dec.pc] BY <3>3 DEF CurrentOpcode
      <4>4. CASE Prefix(code, dec.pc)
        <5>1. rf'.inst = Bubble BY <3>2, <4>3, <4>4 DEF DecInst, Prefix
        <5>2. /\ dec'.pc = DecodeNext(dec, CurrentOpcode).pc
              /\ ~dec'.follow
            BY <2>2, <3>1, <3>3, <4>3, <4>4, DecoderFields
               DEF DecodeNext, Taken, Prefix
        <5>3. dec'.pc = AfterPrefix(dec)
            BY <4>3, <4>4, <5>2 DEF DecodeNext, Taken, Prefix, AfterPrefix
        <5>4. CoreTypeOK' BY DecoderStep DEF Inv
        <5>5. PICK j \in 0 .. k - 1 : PrefixesLeft(code, dec', j)
          <6>1. dec'.pc \in Word BY <5>4 DEF CoreTypeOK
          <6> QED BY <4>1, <4>4, <5>2, <5>3, <6>1, PrefixesLeftLess
        <5>6. code' = code BY DEF CoreNext
        <5>7. PrefixesLeft(code, dec, j)'
            BY <5>5, <5>6 DEF PrefixesLeft, AfterPrefix, Prefix
        <5>8. j \in 0 .. n /\ idle' + j + 2 =< MaxIdle BY <2>1, <4>1, <5>5
        <5> QED BY <1>1, <2>1, <3>2, <4>2, <5>1, <5>7, <5>8 DEF Waits
      <4>5. CASE ~Prefix(code, dec.pc)
        <5>1. rf'.inst # Bubble
          <6>1. DecInst = DecodeInst(dec, CurrentOpcode)
              BY <3>2, <3>3, <4>3, <4>5 DEF DecInst, Prefix
          <6>2. DecInst \in Instruction
              BY <6>1, CurrentTypes, DecodedInstruction DEF CoreTypeOK
          <6> QED BY <3>2, <6>2, ValidInstruction DEF Inv
        <5>2. ~Held' BY <1>1, <2>6, <3>2, EmptyAlu
        <5>3. k = 0 BY <4>1, <4>5 DEF PrefixesLeft
        <5>4. idle' + 1 =< MaxIdle BY <2>1, <4>1, <5>3
        <5> QED BY <1>1, <2>1, <3>2, <4>2, <5>1, <5>2, <5>4 DEF Waits
      <4> QED BY <4>4, <4>5
    <3>4. CASE ~dec.valid
      <4>1. rf'.inst = Bubble BY <3>2, <3>4 DEF DecInst
      <4>2. CASE WritePc
        <5>1. dec'.valid /\ code' = code BY <2>3, <3>2, <4>2 DEF CoreNext
        <5>2. CoreTypeOK' BY DecoderStep DEF Inv
        <5>3. PICK k \in 0 .. n : PrefixesLeft(code, dec', k)
            BY <5>2, PrefixesLeftBounded DEF CoreTypeOK
        <5>4. PrefixesLeft(code, dec, k)'
            BY <5>1, <5>3 DEF PrefixesLeft, AfterPrefix, Prefix
        <5>5. idle + n + 3 =< MaxIdle BY <2>1, <3>4, <4>2 DEF Waits
        <5>6. idle' + k + 2 =< MaxIdle BY <2>1, <5>5
        <5> QED BY <1>1, <2>1, <3>2, <4>1, <5>1, <5>4, <5>6 DEF Waits
      <4>3. CASE ~WritePc
        <5>1. ~dec'.valid BY <2>3, <3>2, <3>4, <4>3
        <5>2. WritePc' BY <3>4, <4>3, AddressStep
        <5>3. idle + n + 4 =< MaxIdle BY <2>1, <3>4, <4>3 DEF Waits
        <5>4. idle' + (n + 3) =< MaxIdle BY <2>1, <5>3
        <5> QED BY <1>1, <2>1, <3>2, <4>1, <5>1, <5>2, <5>4 DEF Waits
      <4> QED BY <4>2, <4>3
    <3> QED BY <3>3, <3>4
  <2> QED BY <2>4, <2>5, <2>6
<1> QED BY <1>2, <1>3

LEMMA WaitsStutter ==
    ASSUME NEW n, Waits(n), UNCHANGED coreVars
    PROVE  Waits(n)'
BY DEF coreVars, vars, Waits, PrefixesLeft, AfterPrefix, Prefix, AluAccepts,
   ConditionPassed, Held, NotReady, WritePending, WritePc, WriteRd

LEMMA WaitsInit ==
    ASSUME NEW n \in Nat, MaxIdle \in Nat, n + 4 =< MaxIdle,
           CoreInit, CoreTypeOK, PrefixesEnd(code, n)
    PROVE  Waits(n)
<1>1. /\ rf.inst = Bubble /\ alu.inst = Bubble /\ dec.valid /\ idle = 0
    BY DEF CoreInit, Init
<1>2. PICK k \in 0 .. n : PrefixesLeft(code, dec, k)
    BY PrefixesLeftBounded DEF CoreTypeOK
<1>3. idle + k + 2 =< MaxIdle BY <1>1
<1> QED BY <1>1, <1>2, <1>3 DEF Waits

(* Instructions go on completing in every program whose runs of prefixes   *)
(* end: within four clocks of one another, and one for each prefix,        *)
(* whatever its jumps, its loads and the registers its instructions share. *)
THEOREM InstructionsKeepCompleting ==
    ASSUME Programs \subseteq [Word -> Opcode],
           NEW n \in Nat, MaxIdle \in Nat, n + 4 =< MaxIdle,
           \A p \in Programs : PrefixesEnd(p, n)
    PROVE  CoreSpec => []KeepsCompleting
<1> DEFINE Ends == PrefixesEnd(code, n)
           W == Waits(n)
<1>1. CoreInit => PhaseInv BY PhaseInvInit
<1>2. Inv /\ CoreTypeOK /\ PhaseInv /\ [CoreNext]_coreVars => PhaseInv'
  <2>1. UNCHANGED coreVars /\ PhaseInv => PhaseInv'
      BY DEF coreVars, vars, PhaseInv, Flushes, PcPhase
  <2> QED BY <2>1, PhaseInvStep
<1>3. CoreInit => Ends BY DEF CoreInit
<1>4. Ends /\ [CoreNext]_coreVars => Ends'
    BY DEF CoreNext, coreVars, PrefixesEnd, Prefix
<1>5. CoreInit /\ CoreTypeOK /\ Ends => W BY WaitsInit
<1>6. Inv /\ CoreTypeOK /\ PhaseInv /\ Ends /\ W /\ [CoreNext]_coreVars => W'
    BY WaitsStep, WaitsStutter DEF PhaseInv
<1>7. W => KeepsCompleting BY WaitsBounded DEF KeepsCompleting
<1> HIDE DEF Ends, W
<1> QED BY <1>1, <1>2, <1>3, <1>4, <1>5, <1>6, <1>7, CoreInvariance, PTL DEF CoreSpec
=============================================================================
