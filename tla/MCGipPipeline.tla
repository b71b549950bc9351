---------------------------- MODULE MCGipPipeline ----------------------------
(* The back end of the pipeline under a decoder that offers, in any order  *)
(* and with any gaps, one instruction of each kind that interacts.         *)
EXTENDS GipPipeline

MCReg == {"r0", "r1"}

Alu(op, rd, rn, rm, imm, cc, a) ==
    [class |-> "alu", op |-> op, rd |-> rd, rn |-> rn, rm |-> rm, imm |-> imm,
     cc |-> cc, a |-> a, f |-> rd = "pc", pre |-> FALSE, pc |-> 0]

Access(class, rd, rn, rm) ==
    [class |-> class, op |-> "add", rd |-> rd, rn |-> rn, rm |-> rm, imm |-> 0,
     cc |-> "always", a |-> class = "load", f |-> rd = "pc",
     pre |-> class = "load", pc |-> 0]

MCOffered ==
    {Alu("mov", "r0", "acc", "imm", 1, "always", FALSE),
     Alu("add", "r0", "r0", "r1", 0, "always", TRUE),
     Alu("mov", "r1", "acc", "r0", 0, "cp", FALSE),
     Alu("sub", "eq", "r1", "acc", 0, "always", FALSE),
     Alu("mov", "pc", "acc", "r1", 0, "cp", FALSE),
     Alu("mov", "r1", "block_all", "acc", 0, "always", FALSE),
     Alu("add", "r1", "r1", "imm", 1, "always", TRUE),
     Access("load", "r0", "r1", "imm"),
     Access("load", "pc", "r0", "imm"),
     Access("load", "r1", "r0", "imm"),
     Access("store", "r1", "r1", "r0"),
     Access("store", "r1", "r1", "r1"),
     [Access("load", "r0", "r0", "imm") EXCEPT !.cc = "cp"],
     [Access("store", "none", "r0", "r1") EXCEPT !.cc = "cp"]}

-----------------------------------------------------------------------------
=============================================================================
