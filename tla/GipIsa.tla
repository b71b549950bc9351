------------------------------- MODULE GipIsa -------------------------------
(***************************************************************************)
(* The internal instructions of the GIP, executed one at a time: what the  *)
(* unpipelined model models/gip/c_gip_pipeline_single.cpp does to its      *)
(* registers, memory, accumulator and condition bit for each of them, with *)
(* the conditional destinations of models/gip_cyc/src/c_gip_full.cpp.      *)
(*                                                                         *)
(* The data is abstract: a word is a number below WordSize, a memory       *)
(* address names one word, and the ALU has the operations that move, add,  *)
(* subtract and clear (the branch marker, AND pc,#0).  The shifter         *)
(* register and the C, N and V flags are left out: no instruction below    *)
(* reads one.                                                              *)
(***************************************************************************)
EXTENDS Integers

CONSTANTS
    Reg,        \* the register file
    WordSize    \* number of values of a word

NotRegisters == {"none", "pc", "eq", "ne", "acc", "imm", "block_all"}

ASSUME IsaAssumption ==
    /\ WordSize \in Nat \ {0}
    /\ Reg \cap NotRegisters = {}

Word == 0 .. WordSize - 1
Memory == [Word -> Word]

Add(x, y) == (x + y) % WordSize
Sub(x, y) == (x - y) % WordSize

(* An instruction.  rn and rm name the operands, rm = "imm" stands for the *)
(* immediate; f flushes the pipeline when the condition holds, a writes    *)
(* the accumulator, pre indexes before a memory access, pc is the value    *)
(* an instruction reads as its program counter.                            *)
Instruction ==
    [class : {"alu", "load", "store"}, op : {"mov", "add", "sub", "clear"},
     rd : Reg \cup {"none", "pc", "eq", "ne"},
     rn : Reg \cup {"acc", "pc", "block_all"}, rm : Reg \cup {"acc", "imm"},
     imm : Word, cc : {"always", "cp"}, a : BOOLEAN, f : BOOLEAN,
     pre : BOOLEAN, pc : Word]

State == [regs : [Reg -> Word], memory : Memory, acc : Word, cp : BOOLEAN]

Compute(op, x, y) ==
    CASE op = "mov" -> y
      [] op = "add" -> Add(x, y)
      [] op = "sub" -> Sub(x, y)
      [] op = "clear" -> 0

Passes(s, i) == i.cc = "always" \/ s.cp

(* A port of the register file: a register, and the pc for all else; the   *)
(* accumulator is selected by the ALU.                                     *)
Port(s, i, r) == IF r \in Reg THEN s.regs[r] ELSE i.pc
PortB(s, i) == IF i.rm = "imm" THEN i.imm ELSE Port(s, i, i.rm)

OperandA(s, i) == IF i.rn = "acc" THEN s.acc ELSE Port(s, i, i.rn)

(* A store adds the size of the datum to its base.                         *)
OperandB(s, i) ==
    CASE i.class = "store" -> Add(1, 0)
      [] i.class # "store" /\ i.rm = "acc" -> s.acc
      [] OTHER -> PortB(s, i)

Result(s, i) == Compute(i.op, OperandA(s, i), OperandB(s, i))
Address(s, i) == IF i.pre THEN Result(s, i) ELSE OperandA(s, i)

(* A conditional destination gives the condition bit the outcome of the    *)
(* comparison, anything else whether the instruction passed.               *)
Condition(s, i) ==
    /\ Passes(s, i)
    /\ i.rd = "eq" => Result(s, i) = 0
    /\ i.rd = "ne" => Result(s, i) # 0

(* What the instruction writes to its destination.                         *)
Written(s, i) ==
    IF i.class = "load" THEN s.memory[Address(s, i)] ELSE Result(s, i)

Execute(s, i) ==
    [regs   |-> IF Passes(s, i) /\ i.rd \in Reg
                THEN [s.regs EXCEPT ![i.rd] = Written(s, i)] ELSE s.regs,
     memory |-> IF Passes(s, i) /\ i.class = "store"
                THEN [s.memory EXCEPT ![Address(s, i)] = PortB(s, i)]
                ELSE s.memory,
     acc    |-> IF Passes(s, i) /\ i.a THEN Result(s, i) ELSE s.acc,
     cp     |-> Condition(s, i)]
=============================================================================
