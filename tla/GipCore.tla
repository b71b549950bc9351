------------------------------- MODULE GipCore -------------------------------
(***************************************************************************)
(* The GIP core: the native instruction decoder of                         *)
(* models/gip_cyc/src/c_gip_full.cpp in front of the back end, running a   *)
(* program.  The decoder state is that of dec_comb and dec_preclock once   *)
(* the scheduler has started a thread (the C++ model decodes natively from *)
(* then on, never deschedules and never preempts).                         *)
(*                                                                         *)
(* A program address names one 16-bit opcode, so that the model adds 1     *)
(* where the code adds 2; two opcodes share a 32-bit word.  The program is *)
(* not written to.                                                         *)
(*                                                                         *)
(* Two history variables: seq is the decoder of a machine without a        *)
(* pipeline, at the next opcode to be executed, and idle counts the clocks *)
(* since an instruction completed, up to one more than MaxIdle.            *)
(***************************************************************************)
EXTENDS GipPipeline

CONSTANTS
    Programs,   \* the programs that may run, functions on Word
    MaxIdle     \* clocks without an instruction that completes

VARIABLES
    code,   \* the program
    dec,    \* the decoder
    seq,
    idle

coreVars == <<vars, code, dec, seq, idle>>

(* An opcode: nop (the debug opcodes), an ALU operation, a comparison, a   *)
(* load, a store, a branch, or a prefix that replaces the destination of   *)
(* the instruction that follows.  A field a kind does not have is not      *)
(* looked at.                                                              *)
Opcode ==
    {o \in [kind : {"nop", "alu", "cond", "load", "store", "branch", "extend"},
            op : {"mov", "add", "sub"}, rd : Reg \cup {"pc"},
            rm : Reg \cup {"acc", "imm"}, imm : Word, delay : BOOLEAN] :
        o.kind = "load" => o.rm # "imm"}

NoDest == "none"

(* The type invariant of the decoder; that of the back end is TypeOK.  The *)
(* word a pc selects always lies in the program.                           *)
CoreTypeOK ==
    /\ code \in [Word -> Opcode]
    /\ {dec.valid, dec.follow, dec.shadow, dec.immediate} \subseteq BOOLEAN
    /\ dec.pc \in Word /\ dec.delay_pc \in Word
    /\ dec.word \in Nat /\ 2 * dec.word \in Word
    /\ dec.ext \in Reg \cup {"pc", NoDest}

-----------------------------------------------------------------------------
(* Decoding one opcode in a decoder state.                                 *)

Ahead(pc) == Add(pc, 4)

Cc(conditional) == IF conditional THEN "cp" ELSE "always"

Nop(d) ==
    [class |-> "alu", op |-> "mov", rd |-> "none", rn |-> "acc", rm |-> "imm",
     imm |-> 0, cc |-> "always", a |-> FALSE, f |-> FALSE, pre |-> FALSE,
     pc |-> Ahead(d.pc)]

(* A destination, with the prefix's; a source, 15 being the accumulator.   *)
MapRd(d, rd) == IF d.ext # NoDest THEN d.ext ELSE rd
MapRn(rn) == IF rn = "pc" THEN "acc" ELSE rn

DecodeAlu(d, o) ==
    [Nop(d) EXCEPT !.op = o.op, !.rd = MapRd(d, o.rd), !.rn = MapRn(o.rd),
                   !.rm = o.rm, !.imm = o.imm, !.cc = Cc(d.shadow), !.a = TRUE,
                   !.f = MapRd(d, o.rd) = "pc"]

DecodeCond(d, o) ==
    [Nop(d) EXCEPT !.op = "sub", !.rd = "eq", !.rn = MapRn(o.rd), !.rm = o.rm,
                   !.imm = o.imm, !.cc = Cc(d.immediate), !.a = TRUE]

(* Mutant: a load of the pc does not flush.                                *)
FaultyDecodeLoad(d, o) ==
    [Nop(d) EXCEPT !.class = "load", !.op = "add", !.rd = MapRd(d, o.rd),
                   !.rn = o.rm, !.cc = Cc(d.shadow), !.a = TRUE, !.pre = TRUE]

(* A load without index: its base is the register rm names.                *)
DecodeLoad(d, o) ==
    [Nop(d) EXCEPT !.class = "load", !.op = "add", !.rd = MapRd(d, o.rd),
                   !.rn = o.rm, !.cc = Cc(d.shadow), !.a = TRUE, !.pre = TRUE,
                   !.f = MapRd(d, o.rd) = "pc"]

(* A store without index still names its base as destination, and so       *)
(* moves it on; with the pc for destination it is a jump.                  *)
DecodeStore(d, o) ==
    [Nop(d) EXCEPT !.class = "store", !.op = "add", !.rd = MapRd(d, o.rd),
                   !.rn = MapRn(o.rd), !.rm = o.rm, !.cc = Cc(d.shadow),
                   !.f = MapRd(d, o.rd) = "pc"]

(* Outside a shadow a branch is taken here, and its instruction sets the   *)
(* condition bit (AND pc,#0 gives EQ); in a shadow it is ADDcpF pc.        *)
DecodeBranch(d, o) ==
    IF d.shadow
    THEN [Nop(d) EXCEPT !.op = "add", !.rd = "pc", !.rn = "pc", !.imm = o.imm,
                        !.cc = "cp", !.f = TRUE]
    ELSE [Nop(d) EXCEPT !.op = "clear", !.rd = "eq", !.rn = "pc"]

DecodeInst(d, o) ==
    CASE o.kind = "alu" -> DecodeAlu(d, o)
      [] o.kind = "cond" -> DecodeCond(d, o)
      [] o.kind = "load" -> DecodeLoad(d, o)
      [] o.kind = "store" -> DecodeStore(d, o)
      [] o.kind = "branch" -> DecodeBranch(d, o)
      [] OTHER -> Nop(d)

Taken(d, o) == o.kind = "branch" /\ ~d.shadow

(* The decoder state an opcode leads to, if it is not flushed.             *)
DecodeNext(d, o) ==
    LET target == Add(Ahead(d.pc), o.imm)
    IN  [pc |-> CASE d.follow -> d.delay_pc
                  [] ~d.follow /\ Taken(d, o) /\ ~o.delay -> target
                  [] OTHER -> Add(d.pc, 1),
         follow |-> Taken(d, o) /\ o.delay,
         delay_pc |-> IF Taken(d, o) /\ o.delay THEN target ELSE 0,
         shadow |-> o.kind = "cond",
         immediate |-> o.kind = "cond",
         ext |-> IF o.kind = "extend" THEN o.rd ELSE NoDest]

At(pc) ==
    [pc |-> pc, follow |-> FALSE, delay_pc |-> 0, shadow |-> FALSE,
     immediate |-> FALSE, ext |-> NoDest]

-----------------------------------------------------------------------------
(* The decoder in the pipeline.                                            *)

(* The opcode seen by the decoder: the half of the word just read that the *)
(* pc selects or, when the pc is not valid, the low half of the last word. *)
CurrentOpcode == IF dec.valid THEN code[dec.pc] ELSE code[2 * dec.word]

DecInst ==
    IF dec.valid /\ ~Flush /\ CurrentOpcode.kind # "extend"
    THEN DecodeInst(dec, CurrentOpcode) ELSE Bubble

DecClock ==
    LET next == DecodeNext(dec, CurrentOpcode)
    IN  dec' = [valid |-> IF Flush THEN WritePc ELSE dec.valid \/ WritePc,
                word |-> IF dec.valid THEN dec.pc \div 2 ELSE dec.word,
                pc |-> CASE WritePc -> WriteData
                         [] ~WritePc /\ RfAccepts /\ dec.valid -> next.pc
                         [] OTHER -> dec.pc,
                follow |-> IF RfAccepts THEN next.follow /\ ~Flush ELSE dec.follow,
                delay_pc |-> IF RfAccepts THEN next.delay_pc ELSE dec.delay_pc,
                shadow |-> ~Flush /\ IF RfAccepts THEN next.shadow ELSE dec.shadow,
                immediate |-> IF RfAccepts THEN next.immediate /\ ~Flush
                              ELSE dec.immediate,
                ext |-> IF Flush THEN NoDest
                        ELSE IF RfAccepts THEN next.ext ELSE dec.ext]

-----------------------------------------------------------------------------
(* One opcode at a time: what a taken jump does, with the instruction      *)
(* after a branch that has a delay slot executed before its target.        *)

SeqInst == DecodeInst(seq, code[seq.pc])

SeqNext ==
    LET o == code[seq.pc]
        i == SeqInst
    IN  IF ~(i.f /\ Passes(isa, i)) THEN DecodeNext(seq, o)
        ELSE IF o.kind = "branch" /\ o.delay
             THEN [At(Add(seq.pc, 1)) EXCEPT !.follow = TRUE,
                                             !.delay_pc = Written(isa, i)]
             ELSE At(Written(isa, i))

Prefix(p, pc) == p[pc].kind = "extend"

(* The number of prefixes from an address on, if they end.                 *)
Prefixes(p, pc) ==
    {n \in Word : /\ ~Prefix(p, Add(pc, n))
                  /\ \A m \in 0 .. n - 1 : Prefix(p, Add(pc, m))}

(* Past the prefixes of a program.  The first may stand in a delay slot,   *)
(* the others are in a row; of a program of nothing else no more is asked. *)
PastPrefixes(p, s) ==
    LET first == DecodeNext(s, p[s.pc])
        n == CHOOSE n \in Prefixes(p, first.pc) : TRUE
    IN  CASE ~Prefix(p, s.pc) -> s
          [] Prefix(p, s.pc) /\ Prefixes(p, first.pc) = {} -> At(0)
          [] OTHER ->
                 [At(Add(first.pc, n)) EXCEPT
                     !.ext = IF n = 0 THEN first.ext ELSE p[Add(first.pc, n - 1)].rd]

CoreInit ==
    /\ Init
    /\ code \in Programs
    /\ dec = [valid |-> TRUE, word |-> 0, pc |-> 0, follow |-> FALSE,
              delay_pc |-> 0, shadow |-> FALSE, immediate |-> FALSE, ext |-> NoDest]
    /\ seq = PastPrefixes(code, At(0))
    /\ idle = 0

CoreNext ==
    /\ Clock(DecInst)
    /\ DecClock
    /\ seq' = IF Completes THEN PastPrefixes(code, SeqNext) ELSE seq
    /\ idle' = IF Completes THEN 0 ELSE IF idle > MaxIdle THEN idle ELSE idle + 1
    /\ UNCHANGED code

CoreSpec == CoreInit /\ [][CoreNext]_coreVars

-----------------------------------------------------------------------------
(* The instruction in the ALU is the one a machine without a pipeline      *)
(* executes next, to the same effect: nothing of the path behind a taken   *)
(* jump is executed or marks what is, and nothing is left out (dec_comb,   *)
(* dec_preclock, alu_comb).                                                *)
InOrder ==
    alu.inst # Bubble =>
        /\ alu.inst.pc = Ahead(seq.pc)
        /\ Execute(isa, alu.inst) = Execute(isa, SeqInst)

(* The pc is written into an empty pipeline, so that no flush follows the  *)
(* write and takes the new path away.                                      *)
PcWrittenWhenEmpty ==
    WritePc => rf.inst = Bubble /\ alu.inst = Bubble /\ ~dec.valid

(* Instructions go on completing, within MaxIdle clocks of one another: no *)
(* two of the waits for a register, for the write port and for a new pc    *)
(* ever wait for each other.                                               *)
KeepsCompleting == idle <= MaxIdle
=============================================================================
