------------------------------ MODULE MCGipCore ------------------------------
(* Programs of four free opcodes at 0 .. 3 and a fixed end that branches   *)
(* back to the start.                                                      *)
EXTENDS GipCore, TLC

MCReg == {"r0", "r1"}

Op(kind, op, rd, rm, imm) ==
    [kind |-> kind, op |-> op, rd |-> rd, rm |-> rm, imm |-> imm, delay |-> FALSE]

Delayed(o) == [o EXCEPT !.delay = TRUE]

MovImm == Op("alu", "mov", "r0", "imm", 2)
AddReg == Op("alu", "add", "r0", "r1", 0)
MovAcc == Op("alu", "mov", "r1", "acc", 0)
MovPc == Op("alu", "mov", "pc", "acc", 0)
IfEqual == Op("cond", "sub", "r0", "r1", 0)
LoadR0 == Op("load", "add", "r0", "r1", 0)
LoadPc == Op("load", "add", "pc", "r0", 0)
Store == Op("store", "add", "r1", "r0", 0)
StorePc == Op("store", "add", "pc", "r0", 0)
Branch == Op("branch", "add", "pc", "imm", 5)
Extend == Op("extend", "mov", "r1", "imm", 0)
NopOp == Op("nop", "mov", "r0", "imm", 0)

(* The end of every program: a load used at once, a store, a branch to 0.  *)
Ending == (4 :> Op("alu", "mov", "r1", "imm", 1)) @@ (5 :> Store)
          @@ (6 :> AddReg) @@ (7 :> Op("branch", "add", "pc", "imm", 5))

With(opcodes) == {Ending @@ free : free \in [0 .. 3 -> opcodes]}

(* A jump executed by the ALU, or a prefix or delay slot, not both: a      *)
(* prefix or a delayed branch fetched behind a jump that is taken marks    *)
(* the instruction at its target.                                          *)
MCPrograms ==
    With({MovImm, AddReg, MovPc, IfEqual, LoadR0, LoadPc, Store, StorePc, Branch})
    \cup {p \in With({MovAcc, IfEqual, LoadR0, Store, Extend, Delayed(Branch)}) :
             \A w \in 0 .. 2 : p[w] = IfEqual => p[w + 1] # Delayed(Branch)}

(* A comparison that holds, and a conditional branch with a delay slot.    *)
DelaySlotPrograms ==
    {p \in With({IfEqual, Delayed(Branch), MovImm, NopOp}) :
        p[0] = IfEqual /\ p[1] = Delayed(Branch)}
=============================================================================
