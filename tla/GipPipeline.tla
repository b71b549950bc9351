----------------------------- MODULE GipPipeline -----------------------------
(***************************************************************************)
(* The back end of the cycle-accurate GIP model,                           *)
(* models/gip_cyc/src/c_gip_full.cpp: the register file, ALU and memory    *)
(* stages.  One step is one clock: rf_comb and alu_comb, then rf_, alu_    *)
(* and mem_preclock, then the clock functions in the same order, the       *)
(* memory access last.  The decoder is the environment: in every clock it  *)
(* offers an instruction or nothing.                                       *)
(*                                                                         *)
(* isa is a history variable: the unpipelined machine of GipIsa, which     *)
(* executes an instruction when the ALU completes it.                      *)
(***************************************************************************)
EXTENDS GipIsa

CONSTANT Offered        \* the instructions the decoder may offer

ASSUME OfferedAssumption == Offered \subseteq Instruction

(* A stage without an instruction.  What such a stage still holds in its   *)
(* other fields is never read, so it has none.                             *)
Bubble == [class |-> "bubble"]

VARIABLES
    rf,         \* register file stage: instruction, results to be written
    alu,        \* ALU stage: instruction, operands, acc, cp
    mem,        \* memory stage
    regs,       \* the registers
    memory,     \* the memory
    isa

vars == <<rf, alu, mem, regs, memory, isa>>

Dest == Reg \cup {"none", "pc", "eq", "ne"}

TypeOK ==
    /\ rf \in [inst : Instruction \cup {Bubble}, alu_rd : Dest,
               alu_result : Word, mem_rd : Dest, mem_result : Word,
               accepting_alu_rd : BOOLEAN]
    /\ alu \in [inst : Instruction \cup {Bubble}, a : Word, b : Word,
                acc : Word, cp : BOOLEAN]
    /\ mem \in [op : {"none", "load", "store"}, rd : Dest, address : Word,
                data : Word, result : Word]
    /\ regs \in [Reg -> Word]
    /\ memory \in Memory
    /\ isa \in State

NoAccess == [op |-> "none", rd |-> "none", address |-> 0, data |-> 0, result |-> 0]

Init ==
    /\ rf = [inst |-> Bubble, alu_rd |-> "none", alu_result |-> 0,
             mem_rd |-> "none", mem_result |-> 0, accepting_alu_rd |-> TRUE]
    /\ alu = [inst |-> Bubble, a |-> 0, b |-> 0, acc |-> 0, cp |-> FALSE]
    /\ mem = NoAccess
    /\ regs = [r \in Reg |-> 0]
    /\ memory = [w \in Word |-> 0]
    /\ isa = [regs |-> regs, memory |-> memory, acc |-> 0, cp |-> FALSE]

-----------------------------------------------------------------------------
(* The ALU stage.                                                          *)

ConditionPassed ==
    /\ alu.inst # Bubble
    /\ alu.inst.cc = "always" \/ alu.cp

AluOp1 == IF alu.inst.rn = "acc" THEN alu.acc ELSE alu.a
AluOp2 ==
    CASE alu.inst.class = "store" -> Add(1, 0)
      [] alu.inst.class # "store" /\ alu.inst.rm = "acc" -> alu.acc
      [] OTHER -> alu.b

AluResult == Compute(alu.inst.op, AluOp1, AluOp2)

FaultyAluRd == IF ConditionPassed THEN alu.inst.rd ELSE "none"    \* mutant
AluRd == IF ConditionPassed /\ alu.inst.class # "load" THEN alu.inst.rd ELSE "none"
MemRd == IF ConditionPassed /\ alu.inst.class = "load" THEN alu.inst.rd ELSE "none"

FaultyAluAccepts == TRUE    \* mutant: nothing waits
(* A result for the register file waits while the register file holds one. *)
AluAccepts ==
    ConditionPassed /\ alu.inst.class # "load" => rf.accepting_alu_rd

Completes == alu.inst # Bubble /\ AluAccepts

Flush == ConditionPassed /\ AluAccepts /\ alu.inst.f

NextCp ==
    /\ ConditionPassed
    /\ alu.inst.rd = "eq" => AluResult = 0
    /\ alu.inst.rd = "ne" => AluResult # 0

(* Mutant: the condition is not looked at.                                 *)
FaultyMemAccess ==
    IF alu.inst = Bubble THEN NoAccess
    ELSE IF alu.inst.class = "alu" THEN NoAccess
    ELSE [op |-> alu.inst.class, rd |-> MemRd,
          address |-> IF alu.inst.pre THEN AluResult ELSE AluOp1,
          data |-> alu.b, result |-> 0]

MemAccess ==
    IF ~ConditionPassed \/ alu.inst.class = "alu" THEN NoAccess
    ELSE [op |-> alu.inst.class, rd |-> MemRd,
          address |-> IF alu.inst.pre THEN AluResult ELSE AluOp1,
          data |-> alu.b, result |-> 0]

-----------------------------------------------------------------------------
(* The register file stage.                                                *)

(* An instruction that waits for every write waits for what the register   *)
(* file and the ALU hold.                                                  *)
WritePending ==
    \/ rf.mem_rd # "none"
    \/ rf.alu_rd # "none"
    \/ alu.inst # Bubble /\ alu.inst.rd # "none"

(* Mutant: the load in the memory stage is forgotten.                      *)
FaultyNotReady(r) ==
    \/ alu.inst # Bubble /\ alu.inst.rd = r
    \/ rf.mem_rd # "none" /\ rf.alu_rd = r

(* A source register whose last write cannot be forwarded yet.             *)
NotReady(r) ==
    \/ alu.inst # Bubble /\ alu.inst.rd = r
    \/ mem.rd = r
    \/ rf.mem_rd # "none" /\ rf.alu_rd = r

Held ==
    /\ rf.inst # Bubble
    /\ \/ rf.inst.rn = "block_all" /\ WritePending
       \/ \E r \in {rf.inst.rn, rf.inst.rm} \cap Reg : NotReady(r)

FaultyRfAccepts == rf.inst = Bubble \/ ~Held    \* mutant: while the ALU waits
RfAccepts == rf.inst = Bubble \/ (~Held /\ AluAccepts)

(* A port, with the forwarding of the results waiting to be written.       *)
ReadPort(r) ==
    CASE r \in Reg /\ rf.mem_rd = r -> rf.mem_result
      [] r \in Reg /\ rf.mem_rd # r /\ rf.alu_rd = r -> rf.alu_result
      [] r \in Reg /\ rf.mem_rd # r /\ rf.alu_rd # r -> regs[r]
      [] OTHER -> rf.inst.pc

WriteRd == IF rf.mem_rd # "none" THEN rf.mem_rd ELSE rf.alu_rd
WriteData == IF rf.mem_rd # "none" THEN rf.mem_result ELSE rf.alu_result
FaultyWritePc == rf.alu_rd = "pc"    \* mutant: a load of the pc goes unseen
WritePc == WriteRd = "pc"

-----------------------------------------------------------------------------
(* The clock.                                                              *)

RfClock(offer) ==
    LET alu_rd == IF rf.accepting_alu_rd THEN AluRd ELSE rf.alu_rd
    IN  rf' = [inst |-> IF Flush THEN Bubble
                        ELSE IF RfAccepts THEN offer ELSE rf.inst,
               alu_rd |-> alu_rd,
               alu_result |-> IF ~rf.accepting_alu_rd THEN rf.alu_result
                              ELSE IF AluRd = "none" THEN 0 ELSE AluResult,
               mem_rd |-> mem.rd,
               mem_result |-> mem.result,
               accepting_alu_rd |-> alu_rd = "none" \/ mem.rd = "none"]

WriteClock ==
    regs' = IF WriteRd \in Reg THEN [regs EXCEPT ![WriteRd] = WriteData] ELSE regs

AluClock ==
    LET inst == CASE Flush -> Bubble
                  [] ~Flush /\ ~AluAccepts -> alu.inst
                  [] OTHER -> IF Held THEN Bubble ELSE rf.inst
        keep == ~AluAccepts
    IN  alu' = [inst |-> inst,
                a |-> CASE keep -> alu.a
                        [] ~keep /\ inst = Bubble -> 0
                        [] OTHER -> ReadPort(rf.inst.rn),
                b |-> CASE keep -> alu.b
                        [] ~keep /\ inst = Bubble -> 0
                        [] OTHER -> IF rf.inst.rm = "imm" THEN rf.inst.imm
                                    ELSE ReadPort(rf.inst.rm),
                acc |-> IF Completes /\ ConditionPassed /\ alu.inst.a
                        THEN AluResult ELSE alu.acc,
                cp |-> IF Completes THEN NextCp ELSE alu.cp]

(* The access the memory stage holds is a store done now; the one the ALU  *)
(* hands over is a load done after it.                                     *)
MemClock ==
    /\ memory' = IF mem.op = "store"
                 THEN [memory EXCEPT ![mem.address] = mem.data] ELSE memory
    /\ mem' = IF MemAccess.op = "load"
              THEN [MemAccess EXCEPT !.result = memory'[MemAccess.address]]
              ELSE MemAccess

Clock(offer) ==
    /\ RfClock(offer)
    /\ WriteClock
    /\ AluClock
    /\ MemClock
    /\ isa' = IF Completes THEN Execute(isa, alu.inst) ELSE isa

Next == \E offer \in Offered \cup {Bubble} : Clock(offer)

Spec == Init /\ [][Next]_vars

-----------------------------------------------------------------------------
(* Correctness.  Nothing the pipeline overlaps may show: every value an    *)
(* instruction works on, and every value left behind when the writes under *)
(* way are done, is that of the machine that executes one instruction at a *)
(* time.                                                                   *)

(* The instruction in the ALU has the operands the instructions before it  *)
(* produced, and the accumulator and condition bit too, whether they came  *)
(* from the registers, were forwarded or had to be waited for (rf_comb,    *)
(* rf_read_int_register, alu_preclock).                                    *)
OperandsFresh ==
    /\ alu.acc = isa.acc
    /\ alu.cp = isa.cp
    /\ alu.inst # Bubble =>
           /\ alu.a = Port(isa, alu.inst, alu.inst.rn)
           /\ alu.b = PortB(isa, alu.inst)

(* A register as the writes under way will leave it: the load now being    *)
(* done is the youngest of them, then the ALU's result, then the load      *)
(* that has come back.                                                     *)
Settled(r) ==
    CASE mem.rd = r -> mem.result
      [] mem.rd # r /\ rf.alu_rd = r -> rf.alu_result
      [] mem.rd # r /\ rf.alu_rd # r /\ rf.mem_rd = r -> rf.mem_result
      [] OTHER -> regs[r]

(* No write is lost, overtaken by an older one or made twice, although     *)
(* loads come back later than ALU results and one write port serves both   *)
(* (rf_comb, rf_preclock).                                                 *)
RegistersAgree == \A r \in Reg : Settled(r) = isa.regs[r]

Stored(m, access) ==
    IF access.op = "store" THEN [m EXCEPT ![access.address] = access.data] ELSE m

(* The memory is that of the unpipelined machine once the store in the     *)
(* memory stage is done, except that a store which waits in the ALU for    *)
(* the write of its base register is issued while it waits (alu_comb,      *)
(* mem_preclock, mem_clock).                                               *)
MemoryAgrees ==
    \/ Stored(memory, mem) = isa.memory
    \/ /\ ConditionPassed
       /\ Stored(memory, mem) = Stored(isa.memory, MemAccess)

(* A result that had to wait for the write port waits for one clock: the   *)
(* ALU never blocks twice in a row, and a load's return never finds the    *)
(* port taken again (rf_preclock, accepting_alu_rd).                       *)
BlockedOnce == ~rf.accepting_alu_rd => mem.rd = "none"
=============================================================================
