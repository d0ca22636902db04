--------------------------------- MODULE X86 ---------------------------------
(***************************************************************************)
(* The part of the x86-64 instruction set the emitter writes: what an      *)
(* instruction is, which ones there are, and how a processor in 64-bit     *)
(* mode reads them from bytes.  Not part of the program: the processor     *)
(* that is to execute what the emitter writes.                             *)
(***************************************************************************)
EXTENDS Integers, Sequences

Byte == 0 .. 255
Sizes == {1, 2, 4, 8}

(* The general registers: sixteen families of four sizes, and ah, ch, dh   *)
(* and bh, the second byte of the first four.                              *)
Register == {r \in [family : 0 .. 15, size : Sizes, high : BOOLEAN] :
                r.high => r.size = 1 /\ r.family < 4}
NoRegister == [family |-> -1, size |-> 0, high |-> FALSE]
RIP == [family |-> 16, size |-> 8, high |-> FALSE]

(* Operands.  An immediate is its bytes as they stand in the instruction,  *)
(* a displacement the four bytes that are added to the address.            *)
Nothing == [kind |-> "nothing"]
Reg(r) == [kind |-> "reg", reg |-> r]
Imm(bytes) == [kind |-> "imm", bytes |-> bytes]
Condition(code) == [kind |-> "condition", code |-> code]
Mem(width, base, index, scale, displacement) ==
    [kind |-> "mem", width |-> width, base |-> base, index |-> index,
     scale |-> scale, displacement |-> displacement]
At(width, base) == Mem(width, base, NoRegister, 1, <<0, 0, 0, 0>>)

Instruction(op, dst, src) == [op |-> op, dst |-> dst, src |-> src]
Undefined == Instruction("undefined", Nothing, Nothing)

SignExtended(byte) == LET sign == IF byte < 128 THEN 0 ELSE 255 IN <<byte, sign, sign, sign>>

-----------------------------------------------------------------------------
(* Which instructions there are.                                           *)

AluOps == <<"add", "or", "adc", "sbb", "and", "sub", "xor", "cmp">>
Conditions == [seto |-> 0, setc |-> 2, setnc |-> 3, sete |-> 4, setz |-> 4, setne |-> 5, setnz |-> 5,
               seta |-> 7, sets |-> 8]

SizeOf(operand) ==
    CASE operand.kind = "reg" -> operand.reg.size
      [] operand.kind = "mem" -> operand.width
      [] OTHER -> 0

NamedIn(operand) ==
    CASE operand.kind = "reg" -> {operand.reg}
      [] operand.kind = "mem" -> {operand.base, operand.index} \ {NoRegister}
      [] OTHER -> {}
Named(i) == NamedIn(i.dst) \cup NamedIn(i.src)

(* spl, bpl, sil and dil share their numbers with ah, ch, dh and bh: a REX *)
(* prefix selects them, and so does it all that is 64 bits wide or numbered *)
(* above 7.                                                                *)
LowByteOfHigh(r) == r.size = 1 /\ ~r.high /\ r.family \in 4 .. 7
NeedsRex(i) ==
    \/ \E r \in Named(i) : r.family >= 8 \/ LowByteOfHigh(r)
    \/ 8 \in {SizeOf(i.dst), SizeOf(i.src)}
HighWithRex(i) == NeedsRex(i) /\ \E r \in Named(i) : r.high

Addressable(operand) == operand.kind = "mem" =>
    /\ operand.base.size = 8
    /\ operand.index # NoRegister => operand.index.size = 8 /\ operand.index.family # 4
    /\ operand.scale \in {1, 2, 4, 8}

ImmediateFits(size, length) == length = IF size = 8 THEN 4 ELSE size

SizesFit(i) ==
    /\ i.op = "movzx" => SizeOf(i.src) \in {1, 2} /\ SizeOf(i.src) < SizeOf(i.dst)
    /\ i.op \in {"lea", "bt"} => SizeOf(i.dst) # 1
    /\ i.op = "set" => SizeOf(i.dst) = 1
    /\ i.src.kind \in {"reg", "mem"} /\ i.op \notin {"movzx", "lea"} =>
           SizeOf(i.dst) = SizeOf(i.src)
    /\ i.src.kind = "imm" /\ i.op \notin {"bt", "shl", "shr"} =>
           \/ ImmediateFits(SizeOf(i.dst), Len(i.src.bytes))
           \/ Len(i.src.bytes) = 1 /\ i.op \notin {"mov", "test"}

(* There is such an instruction, all addresses being of 64 bits.           *)
Exists(i) ==
    /\ Named(i) \subseteq Register
    /\ Addressable(i.dst) /\ Addressable(i.src)
    /\ SizesFit(i)
    /\ ~HighWithRex(i)

-----------------------------------------------------------------------------
(* How a processor reads bytes s: an operand size prefix, a REX prefix, an *)
(* opcode of one byte or of 0F and a second one (here plus 256).           *)

Bit(byte, n) == (byte \div 2^n) % 2

Has66(s) == s[1] = \h66
RexAt(s) == IF Has66(s) THEN 2 ELSE 1
Rex(s) == IF s[RexAt(s)] \in \h40 .. \h4F THEN s[RexAt(s)] ELSE 0
CodeAt(s) == RexAt(s) + (IF Rex(s) = 0 THEN 0 ELSE 1)
Code(s) == LET at == CodeAt(s) IN IF s[at] = \h0F THEN 256 + s[at + 1] ELSE s[at]
ModRMAt(s) == CodeAt(s) + (IF Code(s) > 255 THEN 2 ELSE 1)

OperandSize(s) == IF Bit(Rex(s), 3) = 1 THEN 8 ELSE IF Has66(s) THEN 2 ELSE 4

General(number, size, rex) ==
    IF size = 1 /\ rex = 0 /\ number \in 4 .. 7
      THEN [family |-> number - 4, size |-> 1, high |-> TRUE]
      ELSE [family |-> number, size |-> size, high |-> FALSE]

Mod(s) == s[ModRMAt(s)] \div 64
Digit(s) == (s[ModRMAt(s)] \div 8) % 8
Rm(s) == s[ModRMAt(s)] % 8
HasSib(s) == Mod(s) # 3 /\ Rm(s) = 4
Sib(s) == s[ModRMAt(s) + 1]
BaseNumber(s) == IF HasSib(s) THEN Sib(s) % 8 ELSE Rm(s)
IndexNumber(s) == ((Sib(s) \div 8) % 8) + 8 * Bit(Rex(s), 1)
DisplacementAt(s) == ModRMAt(s) + (IF HasSib(s) THEN 2 ELSE 1)
Baseless(s) == Mod(s) = 0 /\ BaseNumber(s) = 5
DisplacementLength(s) ==
    CASE Mod(s) = 1 -> 1
      [] Mod(s) = 2 \/ Baseless(s) -> 4
      [] OTHER -> 0
ImmediateAt(s) == DisplacementAt(s) + DisplacementLength(s)

Displacement(s) ==
    LET at == DisplacementAt(s)
    IN  CASE DisplacementLength(s) = 0 -> <<0, 0, 0, 0>>
          [] DisplacementLength(s) = 1 -> SignExtended(s[at])
          [] DisplacementLength(s) = 4 -> SubSeq(s, at, at + 3)

(* The operand the reg field names, and the one mod, rm and SIB name.      *)
RegOperand(s, size) == Reg(General(Digit(s) + 8 * Bit(Rex(s), 2), size, Rex(s)))
RmOperand(s, size) ==
    LET base == [family |-> BaseNumber(s) + 8 * Bit(Rex(s), 0), size |-> 8, high |-> FALSE]
        index == [family |-> IndexNumber(s), size |-> 8, high |-> FALSE]
        indexed == HasSib(s) /\ IndexNumber(s) # 4
    IN  IF Mod(s) = 3 THEN Reg(General(Rm(s) + 8 * Bit(Rex(s), 0), size, Rex(s)))
        ELSE Mem(size,
                 IF ~Baseless(s) THEN base ELSE IF HasSib(s) THEN NoRegister ELSE RIP,
                 IF indexed THEN index ELSE NoRegister,
                 IF indexed THEN 2^(Sib(s) \div 64) ELSE 1,
                 Displacement(s))

(* The instruction that starts at the first of the bytes s, which are long *)
(* enough.  Most opcodes are for bytes when even, for all other sizes when *)
(* odd.                                                                    *)
HasModRM(s) == Code(s) \notin (\hB0 .. \hBF) \cup {\h90, \hF8, \hF9}
Read(s) ==
    LET code == Code(s)
        size == IF code % 2 = 0 THEN 1 ELSE OperandSize(s)
        reg == RegOperand(s, size)
        rm == RmOperand(s, size)
        immediate(at, length) == Imm(SubSeq(s, at, at + length - 1))
        wide == IF size = 8 THEN 4 ELSE size
        small(to) == Reg(General((code % 8) + 8 * Bit(Rex(s), 0), to, Rex(s)))
    IN  CASE code < \h40 /\ code % 8 \in {2, 3} -> Instruction(AluOps[(code \div 8) + 1], reg, rm)
          [] code \in {\h88, \h89} -> Instruction("mov", rm, reg)
          [] code \in {\h8A, \h8B} -> Instruction("mov", reg, rm)
          [] code = \h8D -> Instruction("lea", reg, [rm EXCEPT !.width = 0])
          [] code \in \hB0 .. \hB7 -> Instruction("mov", small(1), immediate(CodeAt(s) + 1, 1))
          [] code \in \hB8 .. \hBF ->
                Instruction("mov", small(OperandSize(s)), immediate(CodeAt(s) + 1, OperandSize(s)))
          [] code \in {\h80, \h81} ->
                Instruction(AluOps[Digit(s) + 1], rm, immediate(ImmediateAt(s), wide))
          [] code = \h83 -> Instruction(AluOps[Digit(s) + 1], rm, immediate(ImmediateAt(s), 1))
          [] code \in {\h84, \h85} -> Instruction("test", reg, rm)  \* in either order
          [] code \in {\hF6, \hF7} /\ Digit(s) = 0 ->
                Instruction("test", rm, immediate(ImmediateAt(s), wide))
          [] code \in {\hF6, \hF7} /\ Digit(s) = 2 -> Instruction("not", rm, Nothing)
          [] code \in {\hFE, \hFF} /\ Digit(s) < 2 ->
                Instruction(<<"inc", "dec">>[Digit(s) + 1], rm, Nothing)
          [] code \in {\hD0, \hD1} /\ Digit(s) \in 2 .. 5 ->
                Instruction(<<"rcl", "rcr", "shl", "shr">>[Digit(s) - 1], rm, Nothing)
          [] code \in {\hC0, \hC1} /\ Digit(s) \in 2 .. 5 ->
                Instruction(<<"rcl", "rcr", "shl", "shr">>[Digit(s) - 1], rm, immediate(ImmediateAt(s), 1))
          [] code \in 256 + \h90 .. 256 + \h9F -> Instruction("set", RmOperand(s, 1), Condition(code % 16))
          [] code = 256 + \hB6 -> Instruction("movzx", RegOperand(s, OperandSize(s)), RmOperand(s, 1))
          [] code = 256 + \hB7 -> Instruction("movzx", RegOperand(s, OperandSize(s)), RmOperand(s, 2))
          [] code = 256 + \hBA /\ Digit(s) = 4 ->
                Instruction("bt", RmOperand(s, OperandSize(s)), immediate(ImmediateAt(s), 1))
          [] code = \h90 -> Instruction("nop", Nothing, Nothing)
          [] code = \hF8 -> Instruction("clc", Nothing, Nothing)
          [] code = \hF9 -> Instruction("stc", Nothing, Nothing)
          [] OTHER -> Undefined

ReadLength(s) ==
    LET i == Read(s)
    IN  (IF HasModRM(s) THEN ImmediateAt(s) ELSE ModRMAt(s)) - 1
        + (IF i.src.kind = "imm" THEN Len(i.src.bytes) ELSE 0)

(* A write of 32 bits clears the upper half of the register: extending to  *)
(* 64 bits does the same.                                                  *)
Effect(i) ==
    IF i.op = "movzx" /\ SizeOf(i.dst) = 4 THEN [i EXCEPT !.dst.reg.size = 8] ELSE i

(* The instruction the bytes are, if they are one: no byte may be missing  *)
(* and none be left.                                                       *)
Decode(bytes) ==
    LET s == bytes \o [i \in 1 .. 16 |-> 0]
    IN  IF ReadLength(s) = Len(bytes) THEN Read(s) ELSE Undefined
=============================================================================
