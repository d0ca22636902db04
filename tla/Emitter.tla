------------------------------- MODULE Emitter -------------------------------
(***************************************************************************)
(* The x86-64 emitter: one call of each emit_ function, what it is asked   *)
(* for (an instruction of X86) and what it writes or refuses.  The bytes   *)
(* of a multi-byte immediate or displacement are the parameter, lowest     *)
(* first.                                                                  *)
(***************************************************************************)
EXTENDS X86, FiniteSets

CONSTANTS
    Registers,          \* the registers calls are made with
    IndexRegisters,     \* those for the index of an address
    Scales,             \* the scales
    Bytes1, Bytes2, Bytes4  \* immediates and displacements of 1, 2 and 4 bytes

INSTRUCTION_END == 255
MAX_INSTRUCTION_SIZE == 15

(* A value of registers_t that names no register.                          *)
InvalidRegister == [family |-> 99, size |-> 1, high |-> FALSE]

ASSUME EmitterAssumption ==
    /\ Registers \subseteq Register \cup {InvalidRegister}
    /\ IndexRegisters \subseteq Registers
    /\ Scales \subseteq Byte
    /\ Bytes1 \subseteq [1 .. 1 -> Byte]
    /\ Bytes2 \subseteq [1 .. 2 -> Byte]
    /\ Bytes4 \subseteq [1 .. 4 -> Byte]

VARIABLES
    call,    \* the emit_ function that has been called
    asked,   \* the instruction its parameters describe
    result   \* emit_result_t: the bytes up to the end marker, or the error

vars == <<call, asked, result>>

Errors == {"SIZE_MISMATCH", "SIZE_INVALID", "INVALID_REGISTER", "INVALID_SCALE", "INVALID_ADDRESSING"}
Refused(error) == [error |-> error, instruction_bytes |-> <<>>]

-----------------------------------------------------------------------------
(* reg_info.                                                               *)

NoInfo == [size |-> 0, num |-> 0, needs_rex |-> FALSE, valid |-> FALSE]
reg_info(r) ==
    IF r \notin Register THEN NoInfo
    ELSE [size |-> r.size,
          num |-> IF r.high THEN r.family + 4 ELSE r.family,
          needs_rex |-> r.family >= 8 \/ (r.size = 1 /\ ~r.high /\ r.family >= 4),
          valid |-> TRUE]

-----------------------------------------------------------------------------
(* emit_encode and its parts, on an emit_descriptor_t.  A digit is in a    *)
(* union with reg, which then reads as zeros.                              *)

Modes == [INDIRECT |-> 0, INDIRECT_DISP8 |-> 1, INDIRECT_DISP32 |-> 2, DIRECT |-> 3]

Descriptor ==
    [emit_66h |-> FALSE, opcodes |-> <<>>, reg |-> NoInfo, digit |-> 0, rm |-> NoInfo,
     mode |-> "INDIRECT", scale |-> 0, index |-> NoInfo, base |-> NoInfo,
     imm_bytes |-> <<>>, disp8 |-> 0, disp32 |-> 0, has_modRM |-> TRUE, has_sib |-> FALSE]

Flag(condition) == IF condition THEN 1 ELSE 0

(* The first form, a fault, does not look at the index.                    *)
rex_value_no_index(reg, rm, index, base) ==
    LET W == Flag(8 \in {reg.size, rm.size})
        R == Flag(reg.num >= 8)
        B == Flag(base.num >= 8 \/ rm.num >= 8)
        needed == W + R + B > 0 \/ TRUE \in {reg.needs_rex, rm.needs_rex, base.needs_rex}
    IN  IF needed THEN \h40 + 8 * W + 4 * R + B ELSE 0
rex_value(reg, rm, index, base) ==
    LET W == Flag(8 \in {reg.size, rm.size})
        R == Flag(reg.num >= 8)
        X == Flag(index.num >= 8)
        B == Flag(base.num >= 8 \/ rm.num >= 8)
        needed == \/ W + R + X + B > 0
                  \/ TRUE \in {reg.needs_rex, rm.needs_rex, index.needs_rex, base.needs_rex}
    IN  IF needed THEN \h40 + 8 * W + 4 * R + 2 * X + B ELSE 0

(* The first form, a fault, keeps the number's upper bit.                  *)
modRM_value_unmasked(d) ==
    64 * Modes[d.mode] + 8 * (d.reg.num + d.digit) + (IF d.has_sib THEN 4 ELSE d.rm.num)
modRM_value(d) ==
    64 * Modes[d.mode] + 8 * ((d.reg.num % 8) + d.digit) + (IF d.has_sib THEN 4 ELSE d.rm.num % 8)

ScaleBits(scale) == CASE scale = 1 -> 0 [] scale = 2 -> 1 [] scale = 4 -> 2 [] OTHER -> 3
sib_value(d) == 64 * ScaleBits(d.scale) + 8 * (d.index.num % 8) + (d.base.num % 8)

(* The member disp32 has eight bits.                                       *)
Displaced(d) ==
    CASE d.has_modRM /\ d.mode = "INDIRECT_DISP8" -> <<d.disp8>>
      [] d.has_modRM /\ d.mode = "INDIRECT_DISP32" -> <<d.disp32, 0, 0, 0>>
      [] OTHER -> <<>>

emit_encode(d) ==
    LET rex == rex_value(d.reg, d.rm, d.index, d.base)
    IN  [error |-> "OK",
         instruction_bytes |->
            (IF d.emit_66h THEN <<\h66>> ELSE <<>>)
            \o (IF rex = 0 THEN <<>> ELSE <<rex>>)
            \o d.opcodes
            \o (IF d.has_modRM THEN <<modRM_value(d)>> ELSE <<>>)
            \o (IF d.has_sib THEN <<sib_value(d)>> ELSE <<>>)
            \o Displaced(d) \o d.imm_bytes \o <<INSTRUCTION_END>>]

-----------------------------------------------------------------------------
(* The functions.  Each is an action: a call with any parameters.          *)

Idle == [error |-> "none", instruction_bytes |-> <<>>]
Init == call = "none" /\ asked = Undefined /\ result = Idle

Called(function, instruction, answer) ==
    /\ call' = function
    /\ asked' = instruction
    /\ result' = answer

Valid(registers) == \A r \in registers : reg_info(r).valid
SizeOpcode(base, size) == base + Flag(size # 1)

(* A register and a register or memory operand, and an opcode.             *)
RegRm(reg, rm, mode, opcodes) ==
    [Descriptor EXCEPT !.emit_66h = (reg.size = 2), !.opcodes = opcodes,
                       !.reg = reg, !.rm = rm, !.mode = mode]
(* A register or memory operand and a digit.                               *)
DigitRm(digit, rm, mode, opcodes, is_word) ==
    [Descriptor EXCEPT !.emit_66h = is_word, !.opcodes = opcodes,
                       !.digit = digit, !.rm = rm, !.mode = mode]
(* The register is part of the opcode.                                     *)
OpcodeReg(base, rm, immediate) ==
    [Descriptor EXCEPT !.opcodes = <<base + (rm.num % 8)>>, !.rm = rm,
                       !.imm_bytes = immediate, !.has_modRM = FALSE]

emit_mov_reg_reg(destination, source) ==
    LET dst == reg_info(destination)
        src == reg_info(source)
    IN  Called("mov_reg_reg", Instruction("mov", Reg(destination), Reg(source)),
            IF ~Valid({destination, source}) THEN Refused("INVALID_REGISTER")
            ELSE IF dst.size # src.size THEN Refused("SIZE_MISMATCH")
            ELSE emit_encode(RegRm(dst, src, "DIRECT", <<SizeOpcode(\h8A, dst.size)>>)))

emit_mov_reg_imm8(destination, immediate) ==
    LET dst == reg_info(destination)
    IN  Called("mov_reg_imm8", Instruction("mov", Reg(destination), Imm(immediate)),
            IF ~dst.valid THEN Refused("INVALID_REGISTER")
            ELSE IF dst.size # 1 THEN Refused("SIZE_INVALID")
            ELSE emit_encode(OpcodeReg(\hB0, dst, immediate)))

emit_mov_reg_imm32(destination, immediate) ==
    LET dst == reg_info(destination)
    IN  Called("mov_reg_imm32", Instruction("mov", Reg(destination), Imm(immediate)),
            IF ~dst.valid THEN Refused("INVALID_REGISTER")
            ELSE IF dst.size \notin {4, 8} THEN Refused("SIZE_INVALID")
            ELSE emit_encode(OpcodeReg(\hB8, dst, immediate)))

emit_mov_reg_mem(destination, source) ==
    LET dst == reg_info(destination)
        src == reg_info(source)
    IN  Called("mov_reg_mem", Instruction("mov", Reg(destination), At(dst.size, source)),
            IF ~Valid({destination, source}) THEN Refused("INVALID_REGISTER")
            ELSE IF src.size # 8 THEN Refused("INVALID_ADDRESSING")
            ELSE emit_encode(RegRm(dst, src, "INDIRECT", <<SizeOpcode(\h8A, dst.size)>>)))

emit_mov_mem_reg(destination, source) ==
    LET dst == reg_info(destination)
        src == reg_info(source)
    IN  Called("mov_mem_reg", Instruction("mov", At(src.size, destination), Reg(source)),
            IF ~Valid({destination, source}) THEN Refused("INVALID_REGISTER")
            ELSE IF dst.size # 8 THEN Refused("INVALID_ADDRESSING")
            ELSE emit_encode(RegRm(src, dst, "INDIRECT", <<SizeOpcode(\h88, src.size)>>)))

ZeroExtend(size) == <<\h0F, IF size = 1 THEN \hB6 ELSE \hB7>>

emit_movzx_reg_reg(destination, source) ==
    LET dst == reg_info(destination)
        src == reg_info(source)
    IN  Called("movzx_reg_reg", Instruction("movzx", Reg(destination), Reg(source)),
            IF ~Valid({destination, source}) THEN Refused("INVALID_REGISTER")
            ELSE IF src.size > dst.size \/ src.size \notin {1, 2} THEN Refused("SIZE_INVALID")
            ELSE emit_encode(RegRm(dst, src, "DIRECT", ZeroExtend(src.size))))

emit_movzx_reg_mem(destination, source, pointer) ==
    LET dst == reg_info(destination)
        src == reg_info(source)
    IN  Called("movzx_reg_mem", Instruction("movzx", Reg(destination), At(pointer, source)),
            IF ~Valid({destination, source}) THEN Refused("INVALID_REGISTER")
            ELSE IF pointer \notin {1, 2} \/ src.size # 8 THEN Refused("INVALID_ADDRESSING")
            ELSE IF dst.size <= pointer THEN Refused("SIZE_INVALID")
            ELSE emit_encode(RegRm(dst, src, "INDIRECT", ZeroExtend(pointer))))

(* The parameter of 32 bits is put into a member of eight.                 *)
Narrowed(disp32) == disp32[1]
Added(mode, disp8, disp32) == IF mode = "INDIRECT_DISP32" THEN disp32 ELSE SignExtended(disp8)
Zeros == <<0, 0, 0, 0>>

(* rm stays zero, the address is all in the SIB byte.                      *)
emit_lea_sib_disp(function, destination, scale, index, base, mode, disp8, disp32) ==
    LET dst == reg_info(destination)
    IN  Called(function,
            Instruction("lea", Reg(destination),
                        Mem(0, base, index, scale, Added(mode, disp8, disp32))),
            IF ~Valid({destination, index, base}) THEN Refused("INVALID_REGISTER")
            ELSE IF reg_info(index).size # 8 \/ reg_info(base).size # 8 THEN Refused("INVALID_ADDRESSING")
            ELSE IF scale \notin {1, 2, 4, 8} THEN Refused("INVALID_SCALE")
            ELSE IF dst.size = 1 THEN Refused("SIZE_INVALID")
            ELSE emit_encode([RegRm(dst, NoInfo, mode, <<\h8D>>) EXCEPT
                    !.scale = scale, !.index = reg_info(index), !.base = reg_info(base),
                    !.disp8 = disp8, !.disp32 = Narrowed(disp32), !.has_sib = TRUE]))

emit_lea_sib(destination, scale, index, base) ==
    LET mode == IF reg_info(base).num % 8 = 5 THEN "INDIRECT_DISP8" ELSE "INDIRECT"
    IN  emit_lea_sib_disp("lea_sib", destination, scale, index, base, mode, 0, Zeros)
emit_lea_sib_disp8(destination, scale, index, base, displacement) ==
    emit_lea_sib_disp("lea_sib_disp8", destination, scale, index, base,
                      "INDIRECT_DISP8", displacement[1], Zeros)
emit_lea_sib_disp32(destination, scale, index, base, displacement) ==
    emit_lea_sib_disp("lea_sib_disp32", destination, scale, index, base,
                      "INDIRECT_DISP32", 0, displacement)

emit_lea_reg_disp(function, destination, source, mode, disp8, disp32) ==
    LET dst == reg_info(destination)
        src == reg_info(source)
    IN  Called(function,
            Instruction("lea", Reg(destination),
                        Mem(0, source, NoRegister, 1, Added(mode, disp8, disp32))),
            IF ~Valid({destination, source}) THEN Refused("INVALID_REGISTER")
            ELSE IF dst.size = 1 THEN Refused("SIZE_INVALID")
            ELSE IF src.size \in {1, 2} THEN Refused("INVALID_ADDRESSING")
            ELSE emit_encode([RegRm(dst, src, mode, <<\h8D>>) EXCEPT
                    !.disp8 = disp8, !.disp32 = Narrowed(disp32)]))

emit_lea_reg_disp8(destination, source, displacement) ==
    emit_lea_reg_disp("lea_reg_disp8", destination, source, "INDIRECT_DISP8", displacement[1], Zeros)
emit_lea_reg_disp32(destination, source, displacement) ==
    emit_lea_reg_disp("lea_reg_disp32", destination, source, "INDIRECT_DISP32", 0, displacement)

(* The seven operations of alu.c; there is no add from memory.             *)
alu_opcode == [add |-> \h00, or |-> \h08, adc |-> \h10, and |-> \h20, sub |-> \h28,
               xor |-> \h30, cmp |-> \h38]
alu_digit == [add |-> 0, or |-> 1, adc |-> 2, and |-> 4, sub |-> 5, xor |-> 6, cmp |-> 7]
AluOperations == DOMAIN alu_opcode

emit_alu_reg_reg(op, destination, source) ==
    LET dst == reg_info(destination)
        src == reg_info(source)
    IN  Called("alu_reg_reg", Instruction(op, Reg(destination), Reg(source)),
            IF ~Valid({destination, source}) THEN Refused("INVALID_REGISTER")
            ELSE IF dst.size # src.size THEN Refused("SIZE_MISMATCH")
            ELSE emit_encode(RegRm(dst, src, "DIRECT", <<SizeOpcode(alu_opcode[op] + 2, dst.size)>>)))

emit_alu_reg_mem(op, destination, source) ==
    LET dst == reg_info(destination)
        src == reg_info(source)
    IN  Called("alu_reg_mem", Instruction(op, Reg(destination), At(dst.size, source)),
            IF ~Valid({destination, source}) THEN Refused("INVALID_REGISTER")
            ELSE IF src.size # 8 THEN Refused("INVALID_ADDRESSING")
            ELSE emit_encode(RegRm(dst, src, "INDIRECT", <<SizeOpcode(alu_opcode[op] + 2, dst.size)>>)))

(* An operation on a register and an immediate, for the given sizes.       *)
Immediate(function, op, digit, opcode, destination, immediate, sizes, error) ==
    LET dst == reg_info(destination)
    IN  Called(function, Instruction(op, Reg(destination), Imm(immediate)),
            IF ~dst.valid THEN Refused("INVALID_REGISTER")
            ELSE IF dst.size \notin sizes THEN Refused(error)
            ELSE emit_encode([DigitRm(digit, dst, "DIRECT", opcode, dst.size = 2) EXCEPT
                    !.imm_bytes = immediate]))

emit_alu_reg_imm8(op, destination, immediate) ==
    LET opcode == IF reg_info(destination).size = 1 THEN \h80 ELSE \h83
    IN  Immediate("alu_reg_imm8", op, alu_digit[op], <<opcode>>, destination, immediate, Sizes, "none")
emit_alu_reg_imm16(op, destination, immediate) ==
    Immediate("alu_reg_imm16", op, alu_digit[op], <<\h81>>, destination, immediate, {2}, "SIZE_INVALID")
\* A fault: registers of 64 bits are refused.
emit_alu_reg_imm32_narrow(op, destination, immediate) ==
    Immediate("alu_reg_imm32", op, alu_digit[op], <<\h81>>, destination, immediate, {4}, "SIZE_INVALID")
emit_alu_reg_imm32(op, destination, immediate) ==
    Immediate("alu_reg_imm32", op, alu_digit[op], <<\h81>>, destination, immediate, {4, 8}, "SIZE_INVALID")

(* The operations of group.c: an opcode for bytes, the next for all other  *)
(* sizes, and a digit.                                                     *)
group == [inc |-> \hFE, dec |-> \hFE, not |-> \hF6, shl |-> \hD0, shr |-> \hD0, rcl |-> \hD0,
          rcr |-> \hD0]
group_digit == [inc |-> 0, dec |-> 1, not |-> 2, shl |-> 4, shr |-> 5, rcl |-> 2, rcr |-> 3]
GroupOperations == DOMAIN group

emit_group_reg(op, destination) ==
    LET dst == reg_info(destination)
    IN  Called("group_reg", Instruction(op, Reg(destination), Nothing),
            IF ~dst.valid THEN Refused("INVALID_REGISTER")
            ELSE emit_encode(DigitRm(group_digit[op], dst, "DIRECT",
                                     <<SizeOpcode(group[op], dst.size)>>, dst.size = 2)))

emit_group_imm(op, destination, immediate) ==
    LET opcode == SizeOpcode(\hC0, reg_info(destination).size)
    IN  Immediate("group_imm", op, group_digit[op], <<opcode>>, destination, immediate, Sizes, "none")

emit_group_mem(op, destination, ptr_size) ==
    LET dst == reg_info(destination)
    IN  Called("group_mem", Instruction(op, At(ptr_size, destination), Nothing),
            IF ~dst.valid THEN Refused("INVALID_REGISTER")
            ELSE IF dst.size # 8 THEN Refused("INVALID_ADDRESSING")
            ELSE emit_encode(DigitRm(group_digit[op], dst, "INDIRECT",
                                     <<SizeOpcode(group[op], ptr_size)>>, ptr_size = 2)))

emit_test_reg_reg(destination, source) ==
    LET dst == reg_info(destination)
        src == reg_info(source)
    IN  Called("test_reg_reg", Instruction("test", Reg(destination), Reg(source)),
            IF ~Valid({destination, source}) THEN Refused("INVALID_REGISTER")
            ELSE IF dst.size # src.size THEN Refused("SIZE_MISMATCH")
            ELSE emit_encode(RegRm(dst, src, "DIRECT", <<SizeOpcode(\h84, dst.size)>>)))

emit_test_reg_imm8(destination, immediate) ==
    Immediate("test_reg_imm8", "test", 0, <<\hF6>>, destination, immediate, {1}, "SIZE_MISMATCH")
emit_test_reg_imm16(destination, immediate) ==
    Immediate("test_reg_imm16", "test", 0, <<\hF7>>, destination, immediate, {2}, "SIZE_MISMATCH")
emit_test_reg_imm32(destination, immediate) ==
    Immediate("test_reg_imm32", "test", 0, <<\hF7>>, destination, immediate, {4, 8}, "SIZE_MISMATCH")

(* What emit_setc_reg, emit_setnc_reg, ... give emit_set_flags.            *)
condition_opcode == [setc |-> \h92, setnc |-> \h93, sete |-> \h93, setne |-> \h93, sets |-> \h98,
                     seto |-> \h90, seta |-> \h97, setz |-> \h94, setnz |-> \h95]

emit_set_flags(condition, destination) ==
    LET dst == reg_info(destination)
    IN  Called(condition,
            Instruction("set", Reg(destination), Condition(Conditions[condition])),
            IF ~dst.valid THEN Refused("INVALID_REGISTER")
            ELSE IF dst.size # 1 THEN Refused("SIZE_INVALID")
            ELSE emit_encode(DigitRm(0, dst, "DIRECT", <<\h0F, condition_opcode[condition]>>, FALSE)))

emit_bt_reg_imm8(source, bit_index) ==
    Immediate("bt_reg_imm8", "bt", 4, <<\h0F, \hBA>>, source, bit_index, {2, 4, 8}, "SIZE_MISMATCH")

plain_opcode == [clc |-> \hF8, stc |-> \hF9, nop |-> \h90]
emit_plain(op) ==
    Called(op, Instruction(op, Nothing, Nothing),
           emit_encode([Descriptor EXCEPT !.opcodes = <<plain_opcode[op]>>, !.has_modRM = FALSE]))

Call ==
    \/ \E d, s \in Registers :
        \/ emit_mov_reg_reg(d, s) \/ emit_mov_reg_mem(d, s) \/ emit_mov_mem_reg(d, s)
        \/ emit_movzx_reg_reg(d, s) \/ emit_test_reg_reg(d, s)
        \/ \E pointer \in Sizes : emit_movzx_reg_mem(d, s, pointer)
        \/ \E op \in AluOperations : emit_alu_reg_reg(op, d, s)
        \/ \E op \in AluOperations \ {"add"} : emit_alu_reg_mem(op, d, s)
        \/ \E v \in Bytes1 : emit_lea_reg_disp8(d, s, v)
        \/ \E v \in Bytes4 : emit_lea_reg_disp32(d, s, v)
        \/ \E i \in IndexRegisters, scale \in Scales :
            \/ emit_lea_sib(d, scale, i, s)
            \/ \E v \in Bytes1 : emit_lea_sib_disp8(d, scale, i, s, v)
            \/ \E v \in Bytes4 : emit_lea_sib_disp32(d, scale, i, s, v)
    \/ \E d \in Registers :
        \/ \E v \in Bytes1 :
            \/ emit_mov_reg_imm8(d, v) \/ emit_test_reg_imm8(d, v) \/ emit_bt_reg_imm8(d, v)
            \/ \E op \in AluOperations : emit_alu_reg_imm8(op, d, v)
            \/ \E op \in {"shl", "shr"} : emit_group_imm(op, d, v)
        \/ \E v \in Bytes2 :
            \/ emit_test_reg_imm16(d, v)
            \/ \E op \in AluOperations : emit_alu_reg_imm16(op, d, v)
        \/ \E v \in Bytes4 :
            \/ emit_mov_reg_imm32(d, v) \/ emit_test_reg_imm32(d, v)
            \/ \E op \in AluOperations : emit_alu_reg_imm32(op, d, v)
        \/ \E op \in GroupOperations : emit_group_reg(op, d)
        \/ \E op \in GroupOperations \ {"not"}, ptr_size \in Sizes : emit_group_mem(op, d, ptr_size)
        \/ \E condition \in DOMAIN condition_opcode : emit_set_flags(condition, d)
    \/ \E op \in DOMAIN plain_opcode : emit_plain(op)

(* One call: no function looks at what another has written.                *)
Done == result # Idle /\ UNCHANGED vars

Next == (result = Idle /\ Call) \/ Done

Spec == Init /\ [][Next]_vars

-----------------------------------------------------------------------------
(* The bytes are bytes, and with their end marker they fit in              *)
(* instruction_bytes.                                                      *)
TypeOK ==
    /\ result.error \in Errors \cup {"none", "OK"}
    /\ Len(result.instruction_bytes) <= MAX_INSTRUCTION_SIZE
    /\ \A i \in 1 .. Len(result.instruction_bytes) : result.instruction_bytes[i] \in Byte

(* The instruction that has been written, without the end marker.          *)
Written ==
    LET bytes == result.instruction_bytes IN SubSeq(bytes, 1, Len(bytes) - 1)

(* What the emitter is known to get wrong.                                 *)
MemoryOperands == {m \in {asked.dst, asked.src} : m.kind = "mem"}
LeaSib == call \in {"lea_sib", "lea_sib_disp8", "lea_sib_disp32"}
\* rsp and r12 as base need a SIB byte, rbp and r13 a displacement.
BaseNeedsMore == ~LeaSib /\ \E m \in MemoryOperands :
    \/ m.base.family % 8 = 4
    \/ m.base.family % 8 = 5 /\ asked.op # "lea"
\* The base's 64 bits become those of the operation.
WidenedByBase ==
    /\ ~LeaSib
    /\ \E m \in MemoryOperands : m.base.size = 8
    /\ \E size \in {SizeOf(asked.dst), SizeOf(asked.src)} : size \in {2, 4}
    /\ asked.op = "movzx" => SizeOf(asked.dst) = 2
\* A base of 32 bits is taken for one of 64.
BaseTooWide == \E m \in MemoryOperands : m.base.size = 4
\* There is no rsp index.
IndexIsNone == \E m \in MemoryOperands : m.index.family = 4
DisplacementLost == call \in {"lea_sib_disp32", "lea_reg_disp32"}
    /\ \E m \in MemoryOperands : \E i \in 2 .. 4 : m.displacement[i] # 0
HighLost == \E r \in Named(asked) : r.high
    /\ (NeedsRex(asked) \/ \E m \in MemoryOperands : m.base.size = 8)
ImmediateTooShort == call = "mov_reg_imm32" /\ SizeOf(asked.dst) = 8
ZeroExtendsToByte == asked.op = "movzx" /\ SizeOf(asked.dst) = 1
WrongCondition == call \in {"sete", "setne"}

Misencoded ==
    \/ BaseNeedsMore \/ WidenedByBase \/ BaseTooWide \/ IndexIsNone \/ DisplacementLost
    \/ HighLost \/ ImmediateTooShort \/ ZeroExtendsToByte \/ WrongCondition

(* A processor reads from the bytes, all of them and no more, the          *)
(* instruction the function was asked for, but for what is listed above,   *)
(* which it never does.                                                    *)
DecodesAsAsked ==
    result.error = "OK" => (Effect(Decode(Written)) = Effect(asked) <=> ~Misencoded)

(* What a function refuses does not exist: a call that is an instruction   *)
(* with 64-bit addresses is always answered with bytes.                    *)
RefusesNothingPossible == result.error \in Errors => ~Exists(asked)

(* emitter.h notes of rsp and r12 that they take a SIB byte as a base, and *)
(* of rbp and r13 that mod 00 means another address: the base of the       *)
(* memory operand that is written is the register asked for.               *)
MemoryOperandIsBase ==
    result.error = "OK" /\ call = "mov_reg_mem" =>
        LET written == Decode(Written).src IN written.kind = "mem" /\ written.base = asked.src.base
=============================================================================
